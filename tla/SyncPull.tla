------------------------------ MODULE SyncPull ------------------------------
(***************************************************************************)
(* The pull phase of a sync session for one table: it asks the server for  *)
(* the rows stamped after a persisted cursor, page by page, applies each   *)
(* page to the local table under the schema's conflict strategy and then   *)
(* saves the cursor. Other clients go on writing on the server, the        *)
(* application goes on writing locally, and a request or the process may   *)
(* fail at any point, also between a page and its cursor.                  *)
(*                                                                         *)
(* The push phase is not part of this module: local writes stay queued.    *)
(***************************************************************************)
EXTENDS LocalStore, FiniteSetsExt

CONSTANTS
  Strategies,          \* the conflict strategies a schema may be registered with
  PageSize,            \* pagination.pageSize
  MaxPages,            \* pagination.maxPagesPerSession
  EscalationAttempts,  \* kMaxEscalationAttempts
  EscalationFactor,    \* what a stalled page's limit is multiplied by
  EscalatedLimit,      \* kMaxEscalatedLimit
  ServerMaxLimit,      \* maxLimit of the server's resource
  MaxTie,              \* how many rows the server may stamp alike
  MaxTick,             \* bound: the server's last stamp
  MaxFaults            \* bound: failed requests, failed pages, crashes

ASSUME PullAssumption ==
  /\ ServerIds \subseteq Nat
  /\ IsFiniteSet(ServerIds)
  /\ Strategies \subseteq {"serverWins", "clientWins", "lastWriteWins"}
  /\ {PageSize, MaxPages, EscalationAttempts, EscalationFactor,
      EscalatedLimit, ServerMaxLimit, MaxTie} \subseteq Nat \ {0}
  /\ {MaxTick, MaxFaults} \subseteq Nat

VARIABLES
  strategy,  \* the schema's conflict strategy
  server,    \* the server's table
  lastTick,  \* the last stamp the server handed out
  cursor,    \* _salve_sync_cursors: 0 when there is none
  pc,        \* where the pull stands
  since,     \* sinceMs
  limit,     \* the limit of the request
  attempt,   \* escalation attempts of this page
  pages,     \* pages of this session
  page,      \* the rows of the last answer; absent ones are not in it
  faults,    \* how many faults have happened
  seen       \* history: the stamp of each row's last applied delivery

pullVars == <<pc, since, limit, attempt, pages, page>>
serverVars == <<server, lastTick>>
vars == <<storeVars, strategy, serverVars, cursor, pullVars, faults, seen>>

NoPage == [s \in ServerIds |-> AbsentRow]

PullTypeOK ==
  /\ strategy \in Strategies
  /\ server \in [ServerIds -> Row]
  /\ lastTick \in Nat
  /\ cursor \in Nat
  /\ pc \in {"idle", "ask", "got", "applied"}
  /\ since \in Nat
  /\ limit \in Nat
  /\ attempt \in Nat
  /\ pages \in Nat
  /\ page \in [ServerIds -> Row]
  /\ faults \in Nat
  /\ seen \in [ServerIds -> Nat]

TypeOK == StoreTypeOK /\ PullTypeOK

\* Stamps are epoch milliseconds: a first stamp of 1 would make the first
\* cursor 0, which stands for none.
Init ==
  /\ StoreInit
  /\ strategy \in Strategies
  /\ server = [s \in ServerIds |-> AbsentRow]
  /\ lastTick = 1
  /\ cursor = 0
  /\ pc = "idle"
  /\ since = 0
  /\ limit = PageSize
  /\ attempt = 0
  /\ pages = 0
  /\ page = NoPage
  /\ faults = 0
  /\ seen = [s \in ServerIds |-> 0]

-----------------------------------------------------------------------------
(* The server, as the other clients use it.                                *)

Exists(s) == server[s].state # "absent"

\* Other clients create, change or delete rows. Each stamp is later than
\* every earlier one; a server that writes several rows at once may stamp
\* them alike. Ids are handed out in order.
ForeignWrite(S, st) ==
  /\ S # {} /\ Cardinality(S) <= MaxTie
  /\ lastTick < MaxTick
  /\ \A s \in S : IF st = "live" THEN server[s].state # "tombstoned"
                                 ELSE server[s].state = "live"
  /\ \A s \in S : \A r \in ServerIds \ S : r < s => Exists(r)
  /\ lastTick' = lastTick + 1
  /\ server' = [s \in ServerIds |->
                  IF s \notin S THEN server[s]
                  ELSE [state |-> st, ver |-> MaxWrites + lastTick', ts |-> lastTick']]
  /\ UNCHANGED <<storeVars, strategy, cursor, pullVars, faults, seen>>

Before(r, s) ==
  \/ server[r].ts < server[s].ts
  \/ server[r].ts = server[s].ts /\ r < s

\* WHERE COALESCE(deletedAt, updatedAt) > since
ChangedSince(t) == {s \in ServerIds : Exists(s) /\ server[s].ts > t}

\* A slip: the rows of a page in the order of their ids.
ListedById(t, n) ==
  {s \in ChangedSince(t) : Cardinality({r \in ChangedSince(t) : r < s}) < n}

\* ORDER BY COALESCE(deletedAt, updatedAt), id LIMIT n
Listed(t, n) ==
  {s \in ChangedSince(t) : Cardinality({r \in ChangedSince(t) : Before(r, s)}) < n}

-----------------------------------------------------------------------------
(* The pull phase.                                                         *)

StartPull ==
  /\ pc = "idle"
  /\ pc' = "ask"
  /\ since' = cursor
  /\ UNCHANGED <<storeVars, strategy, serverVars, cursor, limit, attempt, pages, page, faults, seen>>

\* GET: the server clamps the limit and answers with what it has now.
List ==
  /\ pc = "ask"
  /\ pc' = "got"
  /\ page' = [s \in ServerIds |->
                IF s \in Listed(since, Min({limit, ServerMaxLimit}))
                THEN server[s] ELSE AbsentRow]
  /\ UNCHANGED <<storeVars, strategy, serverVars, cursor, since, limit,
                 attempt, pages, faults, seen>>

InPage == {s \in ServerIds : page[s].state # "absent"}

LastStamp == Max({page[s].ts : s \in InPage})

\* A slip: the cursor without the overlap.
CandidateWithoutOverlap == IF InPage = {} THEN since ELSE LastStamp

\* The stamp of the page's last row less one millisecond: the rows of that
\* stamp are asked for again.
Candidate == IF InPage = {} THEN since ELSE LastStamp - 1

Advances == Candidate > since

\* A slip: a stalled page is taken for the last one.
NeverStalled == FALSE

\* A full page on one stamp: asked again with a larger limit, while attempts last.
Stalled ==
  /\ ~Advances
  /\ Cardinality(InPage) = limit
  /\ attempt + 1 < EscalationAttempts

\* A session begins and ends with nothing of its own.
Fresh == limit' = PageSize /\ attempt' = 0 /\ page' = NoPage

EndPull == pc' = "idle" /\ since' = 0 /\ pages' = 0 /\ Fresh

NothingNew ==
  /\ pc = "got" /\ InPage = {}
  /\ EndPull
  /\ UNCHANGED <<storeVars, strategy, serverVars, cursor, faults, seen>>

Escalate ==
  /\ pc = "got" /\ InPage # {} /\ Stalled
  /\ pc' = "ask"
  /\ limit' = Min({limit * EscalationFactor, EscalatedLimit})
  /\ attempt' = attempt + 1
  /\ UNCHANGED <<storeVars, strategy, serverVars, cursor, since, pages, page, faults, seen>>

-----------------------------------------------------------------------------
(* SyncOperationApplier::apply, one page in one transaction.               *)

RemoteIsNewer(s) == page[s].ts > rows[s].ts

\* The tombstones of the page that delete their row here.
Deletes ==
  {s \in InPage : /\ page[s].state = "tombstoned"
                  /\ rows[s].state # "absent"
                  /\ \/ strategy = "serverWins"
                     \/ strategy = "lastWriteWins" /\ RemoteIsNewer(s)}

\* The live rows of the page that replace their row here, or become one.
Writes ==
  {s \in InPage : /\ page[s].state = "live"
                  /\ \/ strategy = "serverWins"
                     \/ rows[s].state = "absent"
                     \/ strategy = "lastWriteWins" /\ RemoteIsNewer(s)}

\* A slip: markPulledSynced for every row of the page, applied or not.
AppliedOrNot == InPage

Applied == Writes \cup Deletes

\* What a metadata row is about to follow: its own entity, or, when nothing
\* follows the pulled row yet, the row whose primary key is its localId. The
\* upsert of markPulledSynced has both conflict targets.
Follows(l) ==
  IF l \in ServerIds /\ \A m \in Id : meta[m].entity # l THEN l ELSE meta[l].entity

\* A slip: the state of the pulled row for its status.
PulledAsFound(l) ==
  [entity |-> Follows(l), remote |-> Follows(l), status |-> page[Follows(l)].state]

PulledSynced(l) ==
  [entity |-> Follows(l), remote |-> Follows(l),
   status |-> IF Follows(l) \in Deletes THEN "DELETED" ELSE "SYNCED"]

\* A tombstone sets deletedAt and nothing else; a live row brings every
\* column, deletedAt = NULL among them. The lock row keeps the triggers quiet.
ApplyPage ==
  /\ pc = "got" /\ InPage # {} /\ ~Stalled
  /\ pc' = "applied"
  /\ rows' = [k \in Id |-> IF k \in Deletes THEN [rows[k] EXCEPT !.state = "tombstoned"]
                           ELSE IF k \in Writes THEN page[k] ELSE rows[k]]
  /\ meta' = [l \in Id |-> IF Follows(l) \in Applied THEN PulledSynced(l)
                               ELSE meta[l]]
  /\ seen' = [s \in ServerIds |-> IF s \in InPage THEN page[s].ts ELSE seen[s]]
  /\ UNCHANGED <<queue, nextItem, applyLock, writes, clock, strategy, serverVars,
                 cursor, since, limit, attempt, pages, page, faults>>

\* The cursor would stand still: the session stops and saves nothing.
Stop ==
  /\ pc = "applied" /\ ~Advances
  /\ EndPull
  /\ UNCHANGED <<storeVars, strategy, serverVars, cursor, faults, seen>>

\* The cursor is saved in a statement of its own, after the page is committed;
\* a full page is followed by the next one.
SaveCursor ==
  /\ pc = "applied" /\ Advances
  /\ cursor' = Candidate
  /\ IF Cardinality(InPage) < PageSize \/ pages + 1 = MaxPages
     THEN EndPull
     ELSE pc' = "ask" /\ since' = Candidate /\ pages' = pages + 1 /\ Fresh
  /\ UNCHANGED <<storeVars, strategy, serverVars, faults, seen>>

\* The request fails, the page cannot be applied and is rolled back, or the
\* process dies: the session is gone, and what was committed stays.
Abort ==
  /\ pc # "idle"
  /\ faults < MaxFaults
  /\ faults' = faults + 1
  /\ EndPull
  /\ UNCHANGED <<storeVars, strategy, serverVars, cursor, seen>>

-----------------------------------------------------------------------------
Pull == \/ StartPull \/ List \/ NothingNew \/ Escalate \/ ApplyPage \/ Stop \/ SaveCursor

Foreign == \E S \in SUBSET ServerIds, st \in {"live", "tombstoned"} : ForeignWrite(S, st)

\* The device's clock is not the server's: it may be ahead or behind.
ClockRuns ==
  /\ clock < MaxClock
  /\ clock' = clock + 1
  /\ UNCHANGED <<rows, queue, nextItem, meta, applyLock, writes,
                 strategy, serverVars, cursor, pullVars, faults, seen>>

App == AppWrite /\ UNCHANGED <<strategy, serverVars, cursor, pullVars, faults, seen>>

Next == App \/ ClockRuns \/ Foreign \/ Pull \/ Abort

Spec == Init /\ [][Next]_vars

\* Sessions are triggered again and again and a reachable server answers.
FairSpec == Spec /\ WF_vars(Pull)

-----------------------------------------------------------------------------
(* What the pull phase promises.                                           *)

\* No change is skipped: a row the server stamped at or before the persisted
\* cursor has been delivered to the device as it is now, whatever was cut by
\* a page, tied at its end, aborted half way or written meanwhile.
NothingSkipped ==
  \A s \in ServerIds : Exists(s) /\ server[s].ts <= cursor => seen[s] = server[s].ts

Quiet(pk) == \A i \in ItemIds : Queued(i) => queue[i].ent # pk

\* What the device shows as synchronised is what the server has: a row at or
\* before the cursor that the application never wrote, or whose metadata a
\* pull has set to SYNCED, is the server's row, or is not shown when the
\* server has deleted it. clientWins keeps local rows and promises less.
SyncedMeansMirrored ==
  \A s \in ServerIds :
    /\ strategy # "clientWins"
    /\ Exists(s) /\ server[s].ts <= cursor
    /\ Quiet(s) \/ meta[s].status = "SYNCED"
    => IF server[s].state = "live" THEN rows[s] = server[s] ELSE rows[s].state # "live"

\* When other clients fall silent every one of their changes arrives, provided
\* the server stamps fewer rows alike than the largest page it will answer.
EverythingArrives ==
  <>[](\A s \in ServerIds : Exists(s) => seen[s] = server[s].ts)

-----------------------------------------------------------------------------
(* What the repository says of the pull phase and its code does not do.    *)

\* "The 1ms overlap gets re-delivered (a no-op via lastWriteWins)"
\* (SyncPullPhase.cpp:21): a row delivered again as it was delivered before
\* leaves the local row as it is.
RedeliveryIsNoop ==
  [][(strategy = "lastWriteWins" /\ pc = "got" /\ pc' = "applied")
     => \A s \in InPage : seen[s] = page[s].ts => rows'[s] = rows[s]]_vars

=============================================================================
