------------------------------ MODULE SyncPush ------------------------------
(***************************************************************************)
(* The push phase of a sync session for one table: it drains sync_queue    *)
(* against the REST server, one HTTP call per item, while the application  *)
(* goes on writing to the same tables from the JavaScript thread.          *)
(*                                                                         *)
(* A session holds the process-wide sync lock, so there is one at a time;  *)
(* the JavaScript thread never takes that lock. Between two statements of  *)
(* the session, and above all during an HTTP round trip, any application   *)
(* write may happen. The network may lose a request or a response, the     *)
(* process may die at any point, and another client may delete a row of    *)
(* the server. Pulling is not part of this module.                         *)
(***************************************************************************)
EXTENDS LocalStore

CONSTANTS
  PushLimit,          \* kMaxPushItemsPerSession
  HttpAttempts,       \* kMaxAttempts of one HTTP call
  MaxDisturbances,    \* bound: lost messages, server errors, crashes, foreign deletes
  BlobVersions,       \* data no JSON body can be built from (a blob column)
  HasConflictColumn,  \* is conflict.field a column of the table?
  ApplyMayFail        \* may rewriting the local row violate a constraint?

ASSUME PushAssumption ==
  /\ PushLimit \in Nat \ {0}
  /\ HttpAttempts \in Nat \ {0}
  /\ MaxDisturbances \in Nat
  /\ BlobVersions \subseteq Nat
  /\ HasConflictColumn \in BOOLEAN
  /\ ApplyMayFail \in BOOLEAN

VARIABLES
  server,        \* the server's table
  lastTick,      \* the last timestamp the server handed out
  pc,            \* where the session stands
  batch,         \* what readPending returned: the items left, with entity and localId
  cur,           \* the item being processed and the request built for it
  reply,         \* the HTTP response on its way back
  saved,         \* the table as the open apply transaction found it
  disturbances,  \* how many faults have happened
  uncertain      \* history: local ids for which the server's answer to a POST is unknown

sessionVars == <<pc, batch, cur, reply, saved>>
serverVars == <<server, lastTick>>
vars == <<storeVars, sessionVars, serverVars, disturbances, uncertain>>

\* origin is history: the local id whose POST created the row. The server
\* does not know it.
ServerRow == [state : {"absent", "live", "tombstoned"},
              ver : Nat, ts : Nat, origin : Id \cup {None}]

AbsentServerRow == [state |-> "absent", ver |-> 0, ts |-> 0, origin |-> None]

Action == {"none", "POST", "PATCH", "DELETE", "CONFIRM", "DROP", "FAIL"}

Current == [item : ItemIds \cup {0}, local : Id \cup {None}, cid : Id \cup {None},
            remote : ServerIds \cup {None}, act : Action, ver : Nat, tries : Nat]

NoCurrent == [item |-> 0, local |-> None, cid |-> None, remote |-> None,
              act |-> "none", ver |-> 0, tries |-> 0]

Reply == [code : {"none", "ok", "notfound", "error"}, echo : BOOLEAN,
          id : ServerIds \cup {None}, ver : Nat, ts : Nat]

NoReply == [code |-> "none", echo |-> FALSE, id |-> None, ver |-> 0, ts |-> 0]

Pending == [todo : BOOLEAN, ent : Id \cup {None}, local : Id \cup {None}]

NotPending == [todo |-> FALSE, ent |-> None, local |-> None]

EmptyBatch == [i \in ItemIds |-> NotPending]

TypeOK ==
  /\ StoreTypeOK
  /\ server \in [ServerIds -> ServerRow]
  /\ lastTick \in Nat
  /\ pc \in {"idle", "items", "call", "reply", "local", "failed", "apply"}
  /\ batch \in [ItemIds -> Pending]
  /\ cur \in Current
  /\ reply \in Reply
  /\ saved \in [Id -> Row]
  /\ disturbances \in Nat
  /\ uncertain \subseteq Id \cup {None}

Init ==
  /\ StoreInit
  /\ server = [s \in ServerIds |-> AbsentServerRow]
  /\ lastTick = 0
  /\ pc = "idle"
  /\ batch = EmptyBatch
  /\ cur = NoCurrent
  /\ reply = NoReply
  /\ saved = [k \in Id |-> AbsentRow]
  /\ disturbances = 0
  /\ uncertain = {}

-----------------------------------------------------------------------------
(* Reading the queue and resolving one item.                               *)

\* runPushPhase up to its loop: the pending items, with the localId each
\* resolves to now.
StartSession ==
  /\ pc = "idle"
  /\ pc' = "items"
  /\ batch' = [i \in ItemIds |->
                 IF i \in FirstReadable(PushLimit)
                 THEN [todo |-> TRUE, ent |-> queue[i].ent, local |-> LocalIdOf(queue[i].ent)]
                 ELSE NotPending]
  /\ UNCHANGED <<storeVars, serverVars, cur, reply, saved, disturbances, uncertain>>

\* The server id as the metadata has it now, not as readPending found it.
RemoteOf(i) ==
  IF batch[i].local = None THEN None ELSE meta[batch[i].local].remote

\* A slip: a missing row is dropped before the operation is looked at.
ActionDroppingFirst(op, row, remote) ==
  CASE row.state = "absent" -> "DROP"
    [] op = "delete" \/ row.state = "tombstoned" ->
         IF remote = None THEN "CONFIRM" ELSE "DELETE"
    [] OTHER -> IF remote = None THEN "POST" ELSE "PATCH"

\* What the item asks for, given the row as it is now.
ActionFor(op, row, remote) ==
  CASE op # "delete" /\ row.state # "absent" /\ row.ver \in BlobVersions -> "FAIL"
    [] op = "delete" \/ row.state = "tombstoned" ->
         IF remote = None THEN "CONFIRM" ELSE "DELETE"
    [] op # "delete" /\ row.state = "absent" -> "DROP"
    [] OTHER -> IF remote = None THEN "POST" ELSE "PATCH"

\* One iteration's reads: getByLocalId, then the row's snapshot.
TakeItem(i) ==
  LET remote == RemoteOf(i)
      cid == IF remote = None THEN batch[i].ent ELSE remote
      act == ActionFor(queue[i].op, rows[cid], remote)
  IN /\ pc = "items"
     /\ batch[i].todo
     /\ \A j \in ItemIds : batch[j].todo => i <= j
     /\ batch' = [batch EXCEPT ![i] = NotPending]
     /\ cur' = [item |-> i,
                local |-> IF batch[i].local = None THEN batch[i].ent ELSE batch[i].local,
                cid |-> cid, remote |-> remote, act |-> act,
                ver |-> rows[cid].ver, tries |-> 0]
     /\ pc' = IF act \in {"POST", "PATCH", "DELETE"} THEN "call" ELSE "local"
     /\ UNCHANGED <<storeVars, serverVars, reply, saved, disturbances, uncertain>>

EndSession ==
  /\ pc = "items"
  /\ \A i \in ItemIds : ~batch[i].todo
  /\ pc' = "idle"
  /\ UNCHANGED <<storeVars, serverVars, batch, cur, reply, saved, disturbances, uncertain>>

-----------------------------------------------------------------------------
(* Items that need no HTTP call.                                           *)

NextItem == pc' = "items" /\ cur' = NoCurrent /\ reply' = NoReply

\* The row is gone and nothing is left to push.
DropItem ==
  /\ pc = "local" /\ cur.act = "DROP"
  /\ queue' = WithoutItem(queue, cur.item)
  /\ NextItem
  /\ UNCHANGED <<rows, nextItem, meta, applyLock, writes, clock,
                 serverVars, batch, saved, disturbances, uncertain>>

\* A slip, though docs/sync-rest-contract.md:147 words it so: a failed item
\* leaves the queue.
FailItemDequeued ==
  /\ queue' = WithoutItem(queue, cur.item)
  /\ pc' = "failed"
  /\ UNCHANGED <<rows, nextItem, meta, applyLock, writes, clock,
                 serverVars, batch, cur, reply, saved, disturbances>>

\* The queue's markFailed.
FailItem ==
  /\ queue' = WithStatus(queue, cur.item, "FAILED")
  /\ pc' = "failed"
  /\ UNCHANGED <<rows, nextItem, meta, applyLock, writes, clock,
                 serverVars, batch, cur, reply, saved, disturbances>>

BodyFails ==
  /\ pc = "local" /\ cur.act = "FAIL"
  /\ FailItem
  /\ UNCHANGED uncertain

\* The metadata's markFailed, a statement of its own.
MetadataFails ==
  /\ pc = "failed"
  /\ meta' = MarkFailed(cur.local)
  /\ NextItem
  /\ UNCHANGED <<rows, queue, nextItem, applyLock, writes, clock,
                 serverVars, batch, saved, disturbances, uncertain>>

-----------------------------------------------------------------------------
(* The HTTP round trip, with the reference server's handlers.              *)

Disturb == disturbances < MaxDisturbances /\ disturbances' = disturbances + 1

\* A strictly increasing timestamp, never behind the wall clock.
Tick == lastTick' = IF clock > lastTick THEN clock ELSE lastTick + 1

Answer(code, echo, id, ver, ts) ==
  /\ reply' = [code |-> code, echo |-> echo, id |-> id, ver |-> ver, ts |-> ts]
  /\ pc' = "reply"
  /\ UNCHANGED <<storeVars, batch, cur, saved, uncertain>>

\* POST: a new row under the next id. A server that does not follow the
\* contract may answer without the entity.
ServerCreate(s, echo) ==
  /\ pc = "call" /\ cur.act = "POST"
  /\ server[s].state = "absent"
  /\ Tick
  /\ server' = [server EXCEPT ![s] =
                  [state |-> "live", ver |-> cur.ver, ts |-> lastTick', origin |-> cur.local]]
  /\ IF echo THEN UNCHANGED disturbances ELSE Disturb
  /\ Answer("ok", echo, s, cur.ver, lastTick')

Alive(id) == id \in ServerIds /\ server[id].state = "live"

ServerUpdate(echo) ==
  /\ pc = "call" /\ cur.act = "PATCH" /\ Alive(cur.cid)
  /\ Tick
  /\ server' = [server EXCEPT ![cur.cid].ver = cur.ver, ![cur.cid].ts = lastTick']
  /\ Answer("ok", echo, cur.cid, cur.ver, lastTick')
  /\ UNCHANGED disturbances

ServerRemove ==
  /\ pc = "call" /\ cur.act = "DELETE" /\ Alive(cur.cid)
  /\ Tick
  /\ server' = [server EXCEPT ![cur.cid].state = "tombstoned", ![cur.cid].ts = lastTick']
  /\ Answer("ok", FALSE, None, 0, 0)
  /\ UNCHANGED disturbances

ServerNotFound ==
  /\ pc = "call" /\ cur.act \in {"PATCH", "DELETE"} /\ ~Alive(cur.cid)
  /\ Answer("notfound", FALSE, None, 0, 0)
  /\ UNCHANGED <<serverVars, disturbances>>

\* A server without the collection: a POST is answered 404 too.
CreateNotFound ==
  /\ pc = "call" /\ cur.act = "POST"
  /\ Disturb
  /\ Answer("notfound", FALSE, None, 0, 0)
  /\ UNCHANGED serverVars

\* Any other status: 400, 409, 429, 500.
ServerError ==
  /\ pc = "call"
  /\ Disturb
  /\ Answer("error", FALSE, None, 0, 0)
  /\ UNCHANGED serverVars

\* Another client deletes a row.
ForeignDelete(s) ==
  /\ server[s].state = "live"
  /\ Disturb
  /\ Tick
  /\ server' = [server EXCEPT ![s].state = "tombstoned", ![s].ts = lastTick']
  /\ UNCHANGED <<storeVars, sessionVars, uncertain>>

\* A POST the server may have stored and the device will never hear of.
PostUnanswered == pc \in {"reply", "apply"} /\ cur.act = "POST" /\ reply.code = "ok"

Unsure == uncertain' = IF PostUnanswered THEN uncertain \cup {cur.local} ELSE uncertain

\* The request or its response is lost. The call is repeated until its
\* attempts are used up; then the network failure ends the session.
NetworkFailure ==
  /\ pc \in {"call", "reply"}
  /\ Disturb
  /\ Unsure
  /\ reply' = NoReply
  /\ IF cur.tries + 1 < HttpAttempts
     THEN /\ cur' = [cur EXCEPT !.tries = @ + 1]
          /\ pc' = "call"
          /\ UNCHANGED batch
     ELSE /\ cur' = NoCurrent
          /\ pc' = "idle"
          /\ batch' = EmptyBatch
  /\ UNCHANGED <<storeVars, serverVars, saved>>

\* The process dies: the session and its open transaction are gone.
Crash ==
  /\ pc # "idle"
  /\ Disturb
  /\ Unsure
  /\ rows' = IF applyLock THEN saved ELSE rows
  /\ applyLock' = FALSE
  /\ saved' = [k \in Id |-> AbsentRow]
  /\ pc' = "idle"
  /\ batch' = EmptyBatch
  /\ cur' = NoCurrent
  /\ reply' = NoReply
  /\ UNCHANGED <<queue, nextItem, meta, writes, clock, serverVars>>

-----------------------------------------------------------------------------
(* What the session does with the response.                                *)

\* A failing status, or a POST answered without the entity it created.
RequestFails ==
  /\ pc = "reply"
  /\ \/ reply.code = "error"
     \/ reply.code = "ok" /\ cur.act = "POST" /\ ~reply.echo
  /\ FailItem
  /\ Unsure

\* A 404, above all to the PATCH of a row the server no longer has: left for a
\* person to resolve. The metadata keeps its status.
WriteNotFound ==
  /\ pc = "reply" /\ reply.code = "notfound" /\ cur.act \in {"POST", "PATCH"}
  /\ queue' = WithStatus(queue, cur.item, "BLOCKED")
  /\ NextItem
  /\ UNCHANGED <<rows, nextItem, meta, applyLock, writes, clock,
                 serverVars, batch, saved, disturbances, uncertain>>

\* A slip: an empty body accepted in answer to a POST.
NeedsApplyEvenEmpty ==
  \/ pc = "local" /\ cur.act = "CONFIRM"
  \/ pc = "reply" /\ cur.act = "DELETE" /\ reply.code \in {"ok", "notfound"}
  \/ pc = "reply" /\ cur.act \in {"POST", "PATCH"} /\ reply.code = "ok"

\* The outcomes that reach SyncApplyGuard::applyWithBypass.
NeedsApply ==
  \/ pc = "local" /\ cur.act = "CONFIRM"
  \/ pc = "reply" /\ cur.act = "DELETE" /\ reply.code \in {"ok", "notfound"}
  \/ pc = "reply" /\ cur.act = "PATCH" /\ reply.code = "ok"
  \/ pc = "reply" /\ cur.act = "POST" /\ reply.code = "ok" /\ reply.echo

\* BEGIN; INSERT OR IGNORE INTO _sync_apply_lock.
BeginApply ==
  /\ NeedsApply
  /\ pc' = "apply"
  /\ applyLock' = TRUE
  /\ saved' = rows
  /\ UNCHANGED <<rows, queue, nextItem, meta, writes, clock,
                 serverVars, batch, cur, reply, disturbances, uncertain>>

\* DELETE FROM _sync_apply_lock; COMMIT.
EndApply ==
  /\ applyLock' = FALSE
  /\ saved' = [k \in Id |-> AbsentRow]
  /\ NextItem
  /\ UNCHANGED <<nextItem, writes, clock, serverVars, batch, disturbances, uncertain>>

\* confirmDeleted stamps syncedAt and leaves status and ids alone.
ApplyDelete ==
  /\ pc = "apply" /\ cur.act \in {"CONFIRM", "DELETE"}
  /\ queue' = WithoutItem(queue, cur.item)
  /\ EndApply
  /\ UNCHANGED <<rows, meta>>

OldEntity == meta[cur.local].entity

ResolvedEntity == IF reply.echo THEN reply.id ELSE OldEntity

\* UPDATE t SET pk = new WHERE pk = old
Moved(old, new) ==
  IF old = new THEN rows ELSE [rows EXCEPT ![new] = rows[old], ![old] = AbsentRow]

\* A slip: the echo is applied without comparing timestamps.
EchoAlwaysWins(row) == HasConflictColumn /\ row.state # "absent"

\* The echoed columns, deletedAt = NULL among them, replace the row's unless
\* the row was written after the server stamped its answer.
EchoWins(row) == HasConflictColumn /\ row.state # "absent" /\ row.ts <= reply.ts

WithEcho(table, pk) ==
  IF reply.echo /\ EchoWins(table[pk])
  THEN [table EXCEPT ![pk] = [state |-> "live", ver |-> reply.ver, ts |-> reply.ts]]
  ELSE table

\* recordRemoteSuccess, rewriteLocalRow, remove.
ApplyWrite ==
  /\ pc = "apply" /\ cur.act \in {"POST", "PATCH"}
  /\ OldEntity # None
  /\ meta' = MarkReplaced(cur.local, ResolvedEntity)
  /\ rows' = WithEcho(Moved(OldEntity, ResolvedEntity), ResolvedEntity)
  /\ queue' = EntityRewritten(WithoutItem(queue, cur.item), OldEntity, ResolvedEntity)
  /\ EndApply

\* rewriteLocalRow throws on a constraint, before or after the primary key has
\* moved: the transaction still commits, and the item is blocked.
ApplyWriteFails(moved) ==
  /\ ApplyMayFail
  /\ pc = "apply" /\ cur.act \in {"POST", "PATCH"} /\ reply.echo
  /\ OldEntity # None
  /\ meta' = MarkReplaced(cur.local, ResolvedEntity)
  /\ rows' = IF moved THEN Moved(OldEntity, ResolvedEntity) ELSE rows
  /\ queue' = WithStatus(queue, cur.item, "BLOCKED")
  /\ EndApply

-----------------------------------------------------------------------------
Session ==
  \/ StartSession
  \/ \E i \in ItemIds : TakeItem(i)
  \/ EndSession
  \/ DropItem
  \/ BodyFails
  \/ MetadataFails
  \/ RequestFails
  \/ WriteNotFound
  \/ BeginApply
  \/ ApplyDelete
  \/ ApplyWrite
  \/ \E moved \in BOOLEAN : ApplyWriteFails(moved)

Server ==
  \/ \E s \in ServerIds, echo \in BOOLEAN : ServerCreate(s, echo)
  \/ \E echo \in BOOLEAN : ServerUpdate(echo)
  \/ ServerRemove
  \/ ServerNotFound
  \/ CreateNotFound
  \/ ServerError

Environment ==
  \/ NetworkFailure
  \/ Crash
  \/ \E s \in ServerIds : ForeignDelete(s)

App == AppWrite /\ UNCHANGED <<sessionVars, serverVars, disturbances, uncertain>>

Next == App \/ Session \/ Server \/ Environment

Spec == Init /\ [][Next]_vars

\* Sessions are triggered again and again (application open, background
\* scheduler, connectivity, every write), a session runs to its end, and a
\* reachable server answers.
FairSpec == Spec /\ WF_vars(Session) /\ WF_vars(Server)

-----------------------------------------------------------------------------
(* What the push phase promises.                                           *)

\* No session will read an item about row pk any more.
Quiet(pk) == \A i \in Readable : queue[i].ent # pk

\* What a 404 leaves of row pk: an item of it is BLOCKED, and the server does
\* not have the row.
LeftToAPerson(pk) ==
  /\ \E i \in ItemIds : queue[i].status = "BLOCKED" /\ queue[i].ent = pk
  /\ ~Alive(pk)

\* The three parts of IdentityAgrees.
QueueResolves ==
  \A i \in ItemIds : Queued(i) => \E l \in Id : meta[l].entity = queue[i].ent

EntitiesAreUnique ==
  \A l, m \in Id : meta[l].entity = meta[m].entity /\ l # m => meta[l].entity = None

RemotesAgree ==
  \A l \in Id : meta[l].remote # None =>
    /\ meta[l].entity = meta[l].remote
    /\ server[meta[l].remote].state # "absent"
    /\ server[meta[l].remote].origin = l

\* Every queued item resolves to exactly one metadata row, and the remote id
\* recorded for a local id is the row's present primary key and the id of a
\* server row its own POST created. This is what rewriteEntityId, the primary
\* key rewrite and markReplaced must keep in step when an insert is answered
\* while later items of the same row are queued under its old id.
IdentityAgrees == QueueResolves /\ EntitiesAreUnique /\ RemotesAgree

\* No edit is lost: a live row about which no session will read an item any
\* more holds exactly the data the server holds, unless another client has
\* deleted it there or a 404 has left it to a person. An edit during a round
\* trip must therefore leave an item behind when the item of that round trip
\* is removed.
QuietRowsAgree ==
  \A pk \in Id : rows[pk].state = "live" /\ Quiet(pk) =>
    \/ LeftToAPerson(pk)
    \/ \E l \in Id :
         /\ meta[l].entity = pk
         /\ meta[l].remote # None
         /\ \/ server[meta[l].remote].ver = rows[pk].ver
            \/ server[meta[l].remote].state = "tombstoned"

\* No delete is lost: while the server still shows a row whose id the device
\* knows and the device has deleted, some session will read an item about it.
QuietDeletesAgree ==
  \A l \in Id :
    /\ meta[l].remote # None
    /\ server[meta[l].remote].state = "live"
    /\ rows[meta[l].entity].state # "live"
    => ~Quiet(meta[l].entity)

\* No duplicate: every row the server has was created by the one POST of a
\* local id that the device has recorded or is about to record, except where
\* an answer to an earlier POST was lost or carried no entity.
ServerRowsOwned ==
  \A s \in ServerIds : server[s].state # "absent" =>
    \/ meta[server[s].origin].remote = s
    \/ server[s].origin \in uncertain
    \/ pc \in {"reply", "apply"} /\ cur.act = "POST" /\ reply.id = s

\* Metadata never waits for nothing: of a row shown as PENDING or FAILED,
\* unless it has been deleted, some session will still read an item. The one
\* exception is what a 404 leaves: the item is BLOCKED, no session reads it
\* again, and the status stays until a person resolves it. That only befalls
\* a row the server does not have.
PendingMeansQueued ==
  \A l \in Id :
    /\ meta[l].status \in {"PENDING", "FAILED"}
    /\ rows[meta[l].entity].state = "live"
    => ~Quiet(meta[l].entity) \/ LeftToAPerson(meta[l].entity)

\* The echo of a response never replaces a row the application wrote after
\* the server had stamped that response: the row survives, under its new key.
NewerEditSurvives ==
  [][\A pk \in Id :
       (/\ pc = "apply" /\ pc' = "items"
        /\ rows[pk].state # "absent" /\ rows[pk].ts > reply.ts)
       => \E k \in Id : rows'[k] = rows[pk]]_vars

\* An item blocked for a person to resolve is never touched again, except
\* that its entity may follow the row to a new id.
BlockedStays ==
  [][\A i \in ItemIds : queue[i].status = "BLOCKED" => queue'[i].status = "BLOCKED"]_vars

\* A finite number of faults and writes is overcome: from some point on
\* nothing but blocked items is left in the queue.
QueueDrains == <>[](\A i \in ItemIds : queue[i].status \in {"NONE", "BLOCKED"})

-----------------------------------------------------------------------------
(* What the repository says of the push phase and its code does not do.    *)

\* "A concurrent local edit during this request's round-trip must win ...
\* always" (SyncOperationApplier.cpp:219): a row the application changed since
\* its snapshot was taken for the request comes out of the replace unchanged.
RoundTripEditWins ==
  [][(/\ pc = "apply" /\ pc' = "items" /\ cur.act \in {"POST", "PATCH"}
      /\ rows[OldEntity].ver # cur.ver \/ rows[OldEntity].state # "live")
     => rows'[ResolvedEntity] = rows[OldEntity]]_vars

=============================================================================
