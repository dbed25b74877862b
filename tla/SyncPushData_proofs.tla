------------------------ MODULE SyncPushData_proofs -------------------------
(***************************************************************************)
(* What the push phase promises about data, as theorems, for any           *)
(* interleaving of writes, faults and sessions, if the apply transaction   *)
(* is isolated and does not fail:                                          *)
(*   - QuietRowsAgree: no edit is lost. An edit made while a request is    *)
(*     under way leaves an item of its own behind (LaterWriteIsQueued), so *)
(*     removing the request's item never makes a row that differs from the *)
(*     server's look settled;                                              *)
(*   - ServerRowsOwned: no row is created twice;                           *)
(*   - PendingMeansQueued: no metadata waits for nothing;                  *)
(*   - QuietDeletesAgree: no delete is lost (DeletesAreQueued names the    *)
(*     item, LaterDeleteIsQueued carries it through a replace).            *)
(***************************************************************************)
EXTENDS SyncPushIdentity_proofs

LEMMA InitData == Init => DataInv
BY DEF Init, StoreInit, DataInv, QuietRowsAgree, LaterWriteIsQueued, DeletedIsNotLive,
       DeleteItemsAreGone, NotFoundIsGone, Busy, Queued, NoItem, AbsentRow

\* A row an item is queued for under a server id is one the server has created.
LEMMA QueuedIsKnown ==
  ASSUME IdentityInv, NEW i \in ItemIds, Queued(i), queue[i].ent \in ServerIds
  PROVE  server[queue[i].ent].state # "absent"
<1>1. PICK l \in Id : meta[l].entity = queue[i].ent
  BY DEF IdentityInv, IdentityAgrees, QueueResolves
<1>2. queue[i].ent # None /\ queue[i].ent \notin LocalIds
  BY IdsAssumption DEF Id
<1>3. meta[l].remote # None
  BY <1>1, <1>2 DEF IdentityInv, LocalsAreTracked
<1> QED
  BY <1>1, <1>3 DEF IdentityInv, IdentityAgrees, RemotesAgree

\* The server never shows a row again that it has deleted.
LEMMA ServerRevivesNone ==
  ASSUME TypeInv, Server \/ Environment,
         NEW s \in ServerIds, server[s].state # "absent", server'[s].state = "live"
  PROVE  server[s].state = "live"
<1>1. server \in [ServerIds -> ServerRow]
  BY DEF TypeInv, TypeOK
<1>2. ASSUME NEW t \in ServerIds, NEW echo \in BOOLEAN, ServerCreate(t, echo)
      PROVE  server[s].state = "live"
  BY <1>1, <1>2 DEF ServerCreate
<1>3. ASSUME NEW echo \in BOOLEAN, ServerUpdate(echo)
      PROVE  server[s].state = "live"
  BY <1>1, <1>3 DEF ServerUpdate, ServerRow
<1>4. CASE ServerRemove
  BY <1>1, <1>4 DEF ServerRemove, ServerRow
<1>5. CASE ServerNotFound \/ CreateNotFound \/ ServerError \/ NetworkFailure \/ Crash
  BY <1>5 DEF ServerNotFound, CreateNotFound, ServerError, NetworkFailure, Crash, serverVars
<1>6. ASSUME NEW t \in ServerIds, ForeignDelete(t)
      PROVE  server[s].state = "live"
  BY <1>1, <1>6 DEF ForeignDelete, ServerRow
<1> QED
  BY <1>2, <1>3, <1>4, <1>5, <1>6 DEF Server, Environment

\* What happens outside the device leaves its table, queue and metadata alone.
LEMMA OutsideFacts ==
  ASSUME IdentityInv, Server \/ Environment
  PROVE  UNCHANGED <<rows, queue, meta>>
<1>1. CASE Server
  BY <1>1 DEF Server, ServerCreate, ServerUpdate, ServerRemove, ServerNotFound, CreateNotFound,
              ServerError, Answer, storeVars
<1>2. CASE NetworkFailure \/ \E s \in ServerIds : ForeignDelete(s)
  BY <1>2 DEF NetworkFailure, ForeignDelete, storeVars
<1>3. CASE Crash
  BY <1>3 DEF Crash, IdentityInv, LockIsApply
<1> QED
  BY <1>1, <1>2, <1>3 DEF Environment

\* What is left to a person stays so, whatever happens outside the device.
LEMMA OutsideLeaves ==
  ASSUME IdentityInv, Server \/ Environment, NEW pk \in Id, LeftToAPerson(pk)
  PROVE  LeftToAPerson(pk)'
<1>1. PICK i \in ItemIds : queue[i].status = "BLOCKED" /\ queue[i].ent = pk
  BY DEF LeftToAPerson
<1>2. pk \in ServerIds => server[pk].state # "absent"
  BY <1>1, QueuedIsKnown DEF Queued
<1>3. pk \in ServerIds /\ server'[pk].state = "live" => server[pk].state = "live"
  BY <1>2, ServerRevivesNone DEF IdentityInv
<1>4. queue' = queue
  BY OutsideFacts
<1> QED
  BY <1>1, <1>3, <1>4 DEF LeftToAPerson, Alive

\* A step keeps QuietRowsAgree when each live row that is quiet after it is left
\* to a person, or was quiet before it with the same data on both sides.
LEMMA QuietKept ==
  ASSUME TypeInv, QuietRowsAgree, SameIdentity,
         \A pk \in Id : rows'[pk].state = "live" /\ Quiet(pk)' /\ ~LeftToAPerson(pk)' =>
           /\ rows[pk].state = "live" /\ rows'[pk].ver = rows[pk].ver /\ Quiet(pk)
           /\ ~LeftToAPerson(pk)
           /\ pk \in ServerIds /\ (server[pk].ver = rows[pk].ver \/ server[pk].state = "tombstoned")
              => server'[pk].ver = rows[pk].ver \/ server'[pk].state = "tombstoned"
  PROVE  QuietRowsAgree'
<1> SUFFICES ASSUME NEW pk \in Id, rows'[pk].state = "live", Quiet(pk)', ~LeftToAPerson(pk)'
             PROVE  \E l \in Id : /\ meta'[l].entity = pk /\ meta'[l].remote # None
                                  /\ \/ server'[meta'[l].remote].ver = rows'[pk].ver
                                     \/ server'[meta'[l].remote].state = "tombstoned"
  BY DEF QuietRowsAgree
<1>1. PICK l \in Id : /\ meta[l].entity = pk /\ meta[l].remote # None
                      /\ \/ server[meta[l].remote].ver = rows[pk].ver
                         \/ server[meta[l].remote].state = "tombstoned"
  BY DEF QuietRowsAgree
<1>2. meta[l].remote = pk /\ pk \in ServerIds
  BY <1>1 DEF TypeInv, RemoteIsEntity, TypeOK, StoreTypeOK, MetaRow
<1> QED
  BY <1>1, <1>2 DEF SameIdentity

\* A step that leaves table and queue alone, and the current item's request.
LEMMA RequestKept ==
  ASSUME TypeInv, LaterWriteIsQueued, DeletedIsNotLive, DeleteItemsAreGone,
         UNCHANGED <<rows, queue>>,
         ~Busy' \/ (Busy /\ cur'.item = cur.item /\ cur'.cid = cur.cid /\ cur'.act = cur.act
                         /\ cur'.ver = cur.ver)
  PROVE  LaterWriteIsQueued' /\ DeletedIsNotLive' /\ DeleteItemsAreGone'
<1>1. DeleteItemsAreGone'
  BY DEF DeleteItemsAreGone, Queued
<1>2. DeletedIsNotLive'
  BY DEF DeletedIsNotLive
<1>3. LaterWriteIsQueued'
  BY DEF LaterWriteIsQueued, OtherItem, Readable
<1> QED
  BY <1>1, <1>2, <1>3

LEMMA AppData ==
  ASSUME Isolated, IdentityInv, DataInv, App
  PROVE  DataInv'
<1> PICK pk \in Id, op \in {"insert", "update", "delete"} : AppWrites(pk, op)
  BY AppIdentityCases
<1> USE DEF AppWrites
<1>1. /\ meta \in [Id -> MetaRow] /\ pk # None
      /\ UNCHANGED <<pc, cur, reply, server>>
  BY IdsAssumption DEF IdentityInv, TypeInv, TypeOK, StoreTypeOK, App, sessionVars, serverVars
<1>2. queue'[nextItem].status = "PENDING" /\ queue'[nextItem].ent = pk
      /\ \A i \in ItemIds : Queued(i) => i # nextItem /\ Queued(i)' /\ queue'[i] = queue[i]
  BY DEF Queued
<1>3. Busy => /\ cur.item \in ItemIds /\ Queued(cur.item) /\ cur.local \in Id
              /\ cur.cid = meta[cur.local].entity /\ cur.cid = queue[cur.item].ent
  BY DEF IdentityInv, TypeInv, ItemsAreQueued, CurrentResolves
<1>4. QuietRowsAgree'
  <2> SUFFICES ASSUME NEW k \in Id, rows'[k].state = "live", Quiet(k)', ~LeftToAPerson(k)'
               PROVE  \E l \in Id : /\ meta'[l].entity = k /\ meta'[l].remote # None
                                    /\ \/ server'[meta'[l].remote].ver = rows'[k].ver
                                       \/ server'[meta'[l].remote].state = "tombstoned"
    BY DEF QuietRowsAgree
  <2>1. k # pk
    BY <1>2 DEF Quiet, Readable
  <2>2. rows'[k] = rows[k] /\ Quiet(k) /\ ~LeftToAPerson(k)
    <3>1. rows'[k] = rows[k] /\ Quiet(k)
      BY <1>2, <2>1 DEF Quiet, Readable, Queued
    <3>2. LeftToAPerson(k) => LeftToAPerson(k)'
      BY <1>1, <1>2 DEF LeftToAPerson, Alive, Queued
    <3> QED
      BY <3>1, <3>2
  <2>3. PICK l \in Id : /\ meta[l].entity = k /\ meta[l].remote # None
                        /\ \/ server[meta[l].remote].ver = rows[k].ver
                           \/ server[meta[l].remote].state = "tombstoned"
    BY <2>2 DEF DataInv, QuietRowsAgree
  <2>4. meta'[l].entity = meta[l].entity /\ meta'[l].remote = meta[l].remote
    <3>1. k # None
      BY IdsAssumption
    <3> QED
      BY <1>1, <2>3, <3>1 DEF SameIdentity
  <2> QED
    BY <1>1, <2>2, <2>3, <2>4
<1>5. LaterWriteIsQueued'
  <2> SUFFICES ASSUME Busy, cur.act \in {"POST", "PATCH"},
                      rows'[cur.cid].state = "live", rows'[cur.cid].ver # cur.ver
               PROVE  OtherItem(cur.cid)'
    BY <1>1 DEF LaterWriteIsQueued, Busy
  <2>1. CASE cur.cid = pk
    <3>1. nextItem # cur.item
      BY <1>2, <1>3
    <3> QED
      BY <1>1, <1>2, <2>1, <3>1 DEF OtherItem, Readable
  <2>2. CASE cur.cid # pk
    <3>1. rows'[cur.cid] = rows[cur.cid]
      BY <1>3, <2>2 DEF IdentityInv, TypeInv, ItemsAreQueued
    <3>2. PICK i \in Readable : i # cur.item /\ queue[i].ent = cur.cid
      BY <3>1 DEF DataInv, LaterWriteIsQueued, OtherItem
    <3> QED
      BY <1>1, <1>2, <3>2 DEF OtherItem, Readable, Queued
  <2> QED
    BY <2>1, <2>2
<1>6. DeletedIsNotLive'
  <2> SUFFICES ASSUME Busy, cur.act \in {"DELETE", "CONFIRM", "DROP"}
               PROVE  rows'[cur.cid].state # "live"
    BY <1>1 DEF DeletedIsNotLive, Busy
  <2>1. cur.cid \in Id /\ rows[cur.cid].state # "live"
    BY <1>3 DEF DataInv, DeletedIsNotLive, IdentityInv, TypeInv, ItemsAreQueued
  <2>2. CASE cur.cid = pk
    BY <1>3, <2>1, <2>2
  <2>3. CASE cur.cid # pk
    BY <2>1, <2>3
  <2> QED
    BY <2>2, <2>3
<1>7. DeleteItemsAreGone'
  <2> SUFFICES ASSUME NEW i \in ItemIds, Queued(i)', queue'[i].op = "delete"
               PROVE  rows'[queue'[i].ent].state = "absent"
    BY DEF DeleteItemsAreGone
  <2>1. CASE i = nextItem
    BY <2>1
  <2>2. CASE i # nextItem
    <3>1. Queued(i) /\ queue'[i] = queue[i] /\ queue[i].ent \in Id
      BY <2>2 DEF Queued, IdentityInv, TypeInv, ItemsAreQueued
    <3>2. rows[queue[i].ent].state = "absent"
      BY <3>1 DEF DataInv, DeleteItemsAreGone
    <3>3. \E l \in Id : meta[l].entity = queue[i].ent
      BY <3>1 DEF IdentityInv, IdentityAgrees, QueueResolves
    <3>4. queue[i].ent # pk
      BY <3>2, <3>3
    <3> QED
      BY <3>1, <3>2, <3>4
  <2> QED
    BY <2>1, <2>2
<1>8. NotFoundIsGone'
  BY <1>1 DEF DataInv, NotFoundIsGone, Alive
<1> QED
  BY <1>4, <1>5, <1>6, <1>7, <1>8 DEF DataInv

LEMMA ReadingData ==
  ASSUME IdentityInv, DataInv, StartSession \/ EndSession \/ \E i \in ItemIds : TakeItem(i)
  PROVE  DataInv'
<1>1. UNCHANGED <<rows, queue, meta, server>> /\ pc' # "reply"
  BY DEF StartSession, EndSession, TakeItem, storeVars, serverVars
<1>2. QuietRowsAgree' /\ DeleteItemsAreGone' /\ NotFoundIsGone'
  BY <1>1 DEF DataInv, QuietRowsAgree, DeleteItemsAreGone, NotFoundIsGone, Quiet, LeftToAPerson,
              Alive, Readable, Queued
<1>3. CASE StartSession \/ EndSession
  BY <1>1, <1>2, <1>3 DEF StartSession, EndSession, DataInv, LaterWriteIsQueued, DeletedIsNotLive,
                          Busy
<1>4. ASSUME NEW i \in ItemIds, TakeItem(i)
      PROVE  DataInv'
  <2> DEFINE remote == RemoteOf(i)
             cid == IF remote = None THEN batch[i].ent ELSE remote
             act == ActionFor(queue[i].op, rows[cid], remote)
  <2>1. /\ batch[i].todo
        /\ cur'.cid = cid /\ cur'.act = act /\ cur'.ver = rows[cid].ver
    BY <1>4 DEF TakeItem
  <2>2. cid = queue[i].ent /\ Queued(i)
    <3>1. /\ batch[i].local \in Id /\ meta[batch[i].local].entity = queue[i].ent
          /\ meta[batch[i].local].remote = None => batch[i].ent = queue[i].ent
          /\ batch[i].local # None
      BY <2>1, IdsAssumption DEF IdentityInv, BatchResolves
    <3>2. remote = meta[batch[i].local].remote
      BY <3>1 DEF RemoteOf
    <3> QED
      BY <2>1, <3>1, <3>2
         DEF IdentityInv, IdentityAgrees, RemotesAgree, TypeInv, ItemsAreQueued
  <2>3. act \in {"DELETE", "CONFIRM", "DROP"} => rows[cid].state # "live"
    <3>1. queue[i].op = "delete" => rows[cid].state = "absent"
      BY <2>2 DEF DataInv, DeleteItemsAreGone
    <3> HIDE DEF cid, remote
    <3> QED
      BY <3>1 DEF ActionFor
  <2> HIDE DEF remote, cid, act
  <2>4. LaterWriteIsQueued' /\ DeletedIsNotLive'
    BY <1>1, <2>1, <2>3 DEF LaterWriteIsQueued, DeletedIsNotLive
  <2> QED
    BY <1>2, <2>4 DEF DataInv
<1> QED
  BY <1>3, <1>4

\* What settling the current item does to the queue and the metadata: the item
\* goes only when its row is not live, is blocked only by a 404, and otherwise
\* stays as it is while its metadata is marked.
Settled ==
  /\ Busy /\ cur.item \in ItemIds /\ Queued(cur.item) /\ cur.local \in Id
  /\ cur.cid = queue[cur.item].ent /\ cur.cid = meta[cur.local].entity
  /\ UNCHANGED <<rows, server>>
  /\ NextItem
  /\ \A i \in ItemIds : i # cur.item => queue'[i] = queue[i]
  /\ \/ /\ queue'[cur.item].status = "NONE" /\ meta' = meta
        /\ cur.act \in {"DROP", "CONFIRM", "DELETE"}
        /\ cur.act = "DELETE" => pc = "apply"
     \/ /\ queue'[cur.item].status = "BLOCKED" /\ meta' = meta
        /\ queue'[cur.item].ent = queue[cur.item].ent /\ queue'[cur.item].op = queue[cur.item].op
        /\ cur.act \in {"POST", "PATCH"} /\ pc = "reply" /\ reply.code = "notfound"
     \/ /\ queue' = queue
        /\ \A l \in Id : /\ meta'[l].entity = meta[l].entity /\ meta'[l].remote = meta[l].remote
                         /\ meta'[l] = meta[l] \/ l = cur.local
                         /\ meta'[l].status # "NONE" => meta[l].status # "NONE"

LEMMA SettledFacts ==
  ASSUME IdentityInv, DropItem \/ MetadataFails \/ WriteNotFound \/ ApplyDelete
  PROVE  Settled
<1>0. TypeInv
  BY DEF IdentityInv
<1>1. /\ cur.item \in ItemIds /\ Queued(cur.item) /\ Busy /\ cur.local \in Id
      /\ cur.cid = queue[cur.item].ent /\ cur.cid = meta[cur.local].entity
  BY <1>0 DEF TypeInv, ItemsAreQueued, Busy, DropItem, MetadataFails, WriteNotFound, ApplyDelete,
              IdentityInv, CurrentResolves
<1>2. UNCHANGED <<rows, server>> /\ NextItem
  BY DEF DropItem, MetadataFails, WriteNotFound, ApplyDelete, EndApply, serverVars
<1>3. /\ meta \in [Id -> MetaRow] /\ queue \in [ItemIds -> Item]
  BY <1>0 DEF TypeInv, TypeOK, StoreTypeOK
<1>4. CASE DropItem \/ ApplyDelete
  <2>1. /\ queue' = WithoutItem(queue, cur.item) /\ meta' = meta
        /\ cur.act \in {"DROP", "CONFIRM", "DELETE"}
        /\ cur.act = "DELETE" => pc = "apply"
    BY <1>4 DEF DropItem, ApplyDelete
  <2>2. /\ queue'[cur.item].status = "NONE"
        /\ \A i \in ItemIds : i # cur.item => queue'[i] = queue[i]
    BY <1>0, <1>1, <2>1, ItemEdits
  <2> QED
    BY <1>1, <1>2, <2>1, <2>2 DEF Settled
<1>5. CASE WriteNotFound
  <2>1. /\ queue' = WithStatus(queue, cur.item, "BLOCKED") /\ meta' = meta
        /\ cur.act \in {"POST", "PATCH"} /\ pc = "reply" /\ reply.code = "notfound"
    BY <1>5 DEF WriteNotFound
  <2>2. /\ queue'[cur.item].status = "BLOCKED" /\ queue'[cur.item].ent = queue[cur.item].ent
        /\ \A i \in ItemIds : i # cur.item => queue'[i] = queue[i]
    BY <1>0, <1>1, <2>1, ItemEdits
  <2>3. queue'[cur.item].op = queue[cur.item].op
    BY <1>1, <1>3, <2>1 DEF WithStatus, Item
  <2> QED
    BY <1>1, <1>2, <2>1, <2>2, <2>3 DEF Settled
<1>6. CASE MetadataFails
  <2>1. queue' = queue /\ meta' = MarkFailed(cur.local)
    BY <1>6 DEF MetadataFails
  <2>2. \A l \in Id : meta'[l].entity = meta[l].entity /\ meta'[l].remote = meta[l].remote
    BY <1>0, <1>1, <2>1, MarkFailedTyped
  <2>3. \/ meta' = meta
        \/ meta[cur.local].status # "NONE" /\ meta' = [meta EXCEPT ![cur.local].status = "FAILED"]
    BY <2>1 DEF MarkFailed
  <2>4. \A l \in Id : meta'[l] = meta[l] \/ l = cur.local
    BY <1>3, <2>3
  <2>5. \A l \in Id : meta'[l].status # "NONE" => meta[l].status # "NONE"
    BY <2>3, <2>4
  <2> QED
    BY <1>1, <1>2, <2>1, <2>2, <2>4, <2>5 DEF Settled
<1> QED
  BY <1>4, <1>5, <1>6

\* What is blocked is left to a person: the server does not have the row.
LEMMA BlockedIsLeft ==
  ASSUME NEW pk, pk = cur.cid, NEW i \in ItemIds, i = cur.item,
         DataInv, Settled, queue'[i].status = "BLOCKED",
         queue'[i].ent = queue[i].ent,
         pc = "reply", reply.code = "notfound", cur.act \in {"POST", "PATCH"}
  PROVE  LeftToAPerson(pk)'
<1>1. ~Alive(pk) /\ pk = queue[i].ent /\ server' = server
  BY DEF DataInv, NotFoundIsGone, Settled
<1>2. ~Alive(pk)'
  BY <1>1 DEF Alive
<1>3. \E j \in ItemIds : queue'[j].status = "BLOCKED" /\ queue'[j].ent = pk
  BY <1>1
<1> QED
  BY <1>2, <1>3 DEF LeftToAPerson

LEMMA SettledData ==
  ASSUME IdentityInv, DataInv, DropItem \/ MetadataFails \/ WriteNotFound \/ ApplyDelete
  PROVE  DataInv'
<1>0. TypeInv
  BY DEF IdentityInv
<1>1. Settled
  BY SettledFacts
<1> USE DEF Settled
<1>2. pc' = "items"
  BY <1>1 DEF NextItem
<1>3. SameIdentity
  BY <1>1 DEF SameIdentity
<1>4. QuietRowsAgree'
  <2> SUFFICES ASSUME NEW pk \in Id, rows'[pk].state = "live", Quiet(pk)', ~LeftToAPerson(pk)'
               PROVE  Quiet(pk) /\ ~LeftToAPerson(pk)
    BY <1>0, <1>1, <1>3, QuietKept DEF DataInv
  <2>1. CASE queue' = queue
    BY <1>1, <2>1 DEF Quiet, Readable, LeftToAPerson, Alive
  <2>2. CASE pk # cur.cid
    <3>1. \A i \in ItemIds : queue[i].ent = pk => queue'[i] = queue[i]
      BY <1>1, <2>2
    <3> QED
      BY <1>1, <3>1 DEF Quiet, Readable, LeftToAPerson, Alive
  <2>3. CASE pk = cur.cid /\ queue' # queue
    <3>1. cur.act \notin {"DROP", "CONFIRM", "DELETE"}
      BY <1>1, <2>3 DEF DataInv, DeletedIsNotLive
    <3>2. LeftToAPerson(pk)'
      BY <1>1, <2>3, <3>1, BlockedIsLeft
    <3> QED
      BY <3>2
  <2> QED
    BY <2>1, <2>2, <2>3
<1>5. DeleteItemsAreGone'
  <2> SUFFICES ASSUME NEW i \in ItemIds, Queued(i)', queue'[i].op = "delete"
               PROVE  rows[queue'[i].ent].state = "absent"
    BY <1>1 DEF DeleteItemsAreGone
  <2>1. Queued(i) /\ queue[i].op = "delete" /\ queue'[i].ent = queue[i].ent
    <3>1. CASE i = cur.item
      BY <1>1, <3>1 DEF Queued
    <3>2. CASE i # cur.item
      BY <1>1, <3>2 DEF Queued
    <3> QED
      BY <3>1, <3>2
  <2> QED
    BY <2>1 DEF DataInv, DeleteItemsAreGone
<1>6. LaterWriteIsQueued' /\ DeletedIsNotLive' /\ NotFoundIsGone'
  BY <1>2 DEF LaterWriteIsQueued, DeletedIsNotLive, NotFoundIsGone, Busy
<1> QED
  BY <1>4, <1>5, <1>6 DEF DataInv

\* A failed item will be read again.
LEMMA ItemFailedData ==
  ASSUME IdentityInv, DataInv, BodyFails \/ RequestFails
  PROVE  DataInv'
<1>0. TypeInv
  BY DEF IdentityInv
<1>1. ItemFailed
  BY <1>0, ItemFailedFacts
<1>2. /\ UNCHANGED <<rows, meta, server, cur>> /\ Busy /\ pc' = "failed"
      /\ cur.item \in ItemIds /\ Queued(cur.item)
      /\ \A i \in ItemIds : i # cur.item => queue'[i] = queue[i]
      /\ \A i \in ItemIds : queue'[i].ent = queue[i].ent /\ queue'[i].op = queue[i].op
      /\ queue'[cur.item].status = "FAILED"
  BY <1>1 DEF ItemFailed
<1>3. QuietRowsAgree'
  <2>1. SameIdentity
    BY <1>2 DEF SameIdentity
  <2> SUFFICES ASSUME NEW pk \in Id, rows'[pk].state = "live", Quiet(pk)', ~LeftToAPerson(pk)'
               PROVE  Quiet(pk) /\ ~LeftToAPerson(pk)
    BY <1>0, <1>2, <2>1, QuietKept DEF DataInv
  <2>2. queue[cur.item].ent # pk
    BY <1>2 DEF Quiet, Readable
  <2>3. \A i \in ItemIds : queue[i].ent = pk => queue'[i] = queue[i]
    BY <1>2, <2>2
  <2> QED
    BY <1>2, <2>3 DEF Quiet, Readable, LeftToAPerson, Alive
<1>4. DeletedIsNotLive' /\ DeleteItemsAreGone'
  BY <1>2 DEF DataInv, DeletedIsNotLive, DeleteItemsAreGone, Queued
<1>5. LaterWriteIsQueued'
  BY <1>2 DEF DataInv, LaterWriteIsQueued, OtherItem, Readable
<1>6. NotFoundIsGone'
  BY <1>2 DEF NotFoundIsGone
<1> QED
  BY <1>3, <1>4, <1>5, <1>6 DEF DataInv

LEMMA BeginApplyData == ASSUME IdentityInv, DataInv, BeginApply PROVE DataInv'
<1>1. /\ UNCHANGED <<rows, queue, meta, server, cur>> /\ Busy
  BY DEF BeginApply, NeedsApply, Busy, serverVars
<1>2. QuietRowsAgree' /\ NotFoundIsGone'
  BY <1>1 DEF BeginApply, DataInv, QuietRowsAgree, Quiet, Readable, LeftToAPerson, Alive,
              NotFoundIsGone
<1>3. LaterWriteIsQueued' /\ DeletedIsNotLive' /\ DeleteItemsAreGone'
  BY <1>1, RequestKept DEF DataInv, IdentityInv
<1> QED
  BY <1>2, <1>3 DEF DataInv

\* What a replace does to the row it is about and to the others: row, items and
\* metadata move together, and what the row holds afterwards is what it held or
\* what the server answered.
Replaced(old, new, L) ==
  /\ old \in Id /\ new \in ServerIds /\ new \in Id /\ L \in Id
  /\ old = meta[L].entity /\ old = cur.cid /\ old = queue[cur.item].ent
  /\ cur.item \in ItemIds /\ Queued(cur.item)
  /\ server' = server /\ server[new].ver = cur.ver
  /\ meta'[L] = [entity |-> new, remote |-> new, status |-> "SYNCED"]
  /\ \A l \in Id : l # L => meta'[l] = meta[l] /\ meta[l].entity # old /\ meta[l].entity # new
  /\ \/ rows'[new] = rows[old]
     \/ rows'[new].state = "live" /\ rows'[new].ver = cur.ver /\ rows[old].state # "absent"
  /\ \A k \in Id : k # new => rows'[k] = IF k = old THEN AbsentRow ELSE rows[k]
  /\ \A i \in ItemIds :
       /\ Queued(i)' <=> i # cur.item /\ Queued(i)
       /\ Queued(i)' => /\ queue'[i].ent = (IF queue[i].ent = old THEN new ELSE queue[i].ent)
                        /\ queue'[i].op = queue[i].op /\ queue'[i].status = queue[i].status

LEMMA ReplaceFacts ==
  ASSUME IdentityInv, ApplyWrite
  PROVE  Replaced(OldEntity, ResolvedEntity, cur.local)
<1> DEFINE old == OldEntity
           new == ResolvedEntity
           L == cur.local
<1>0. TypeInv /\ IdentityInv'
  BY ReplaceIdentity DEF IdentityInv
<1>1. /\ pc = "apply" /\ cur.act \in {"POST", "PATCH"} /\ old # None
      /\ meta' = MarkReplaced(L, new)
      /\ rows' = WithEcho(Moved(old, new), new)
      /\ queue' = EntityRewritten(WithoutItem(queue, cur.item), old, new)
      /\ server' = server /\ NextItem
  BY DEF ApplyWrite, EndApply, serverVars
<1>2. /\ old \in Id /\ new \in ServerIds /\ new \in Id
      /\ L \in Id /\ old = meta[L].entity /\ Busy /\ Answered
      /\ cur.item \in ItemIds /\ Queued(cur.item)
      /\ old = cur.cid /\ old = queue[cur.item].ent
      /\ Moved(old, new) \in [Id -> Row]
  <2>1. old \in Id /\ new \in ServerIds /\ Moved(old, new) \in [Id -> Row]
    BY <1>0, <1>1, ReplaceTyped
  <2>2. Busy /\ Answered
    BY <1>1 DEF IdentityInv, ApplyHasAnswer, Busy, Answered
  <2> QED
    BY <1>0, <2>1, <2>2 DEF IdentityInv, CurrentResolves, TypeInv, ItemsAreQueued, OldEntity, Id
<1>3. /\ meta \in [Id -> MetaRow] /\ rows \in [Id -> Row] /\ queue \in [ItemIds -> Item]
  BY <1>0 DEF TypeInv, TypeOK, StoreTypeOK
\* What the server holds under the new id is what was sent.
<1>4. /\ server[new].ver = cur.ver
      /\ reply.echo => reply.ver = cur.ver
  <2>1. CASE cur.act = "PATCH"
    <3>1. new = old
      BY <1>2, <2>1 DEF IdentityInv, AnswerMatches, ResolvedEntity
    <3> QED
      BY <1>2, <2>1, <3>1 DEF IdentityInv, AnswerMatches
  <2>2. CASE cur.act = "POST"
    <3>1. new = reply.id
      BY <1>0, <1>1, <2>2 DEF TypeInv, PostIsEchoed, ResolvedEntity
    <3> QED
      BY <1>2, <2>2, <3>1 DEF IdentityInv, AnswerMatches
  <2> QED
    BY <1>1, <2>1, <2>2
<1>5. \/ rows'[new] = Moved(old, new)[new]
      \/ reply.echo /\ rows'[new].ver = reply.ver /\ rows'[new].state = "live"
         /\ rows[old].state # "absent"
  <2>1. Moved(old, new)[new] = rows[old]
    BY <1>2, <1>3 DEF Moved
  <2>2. CASE reply.echo /\ EchoWins(Moved(old, new)[new])
    BY <1>1, <1>2, <2>1, <2>2 DEF WithEcho, EchoWins
  <2>3. CASE ~(reply.echo /\ EchoWins(Moved(old, new)[new]))
    BY <1>1, <2>3 DEF WithEcho
  <2> QED
    BY <2>2, <2>3
<1>6. /\ Moved(old, new)[new] = rows[old]
      /\ \A k \in Id : k # new => rows'[k] = IF k = old THEN AbsentRow ELSE rows[k]
  <2>1. \A k \in Id : k # new => rows'[k] = Moved(old, new)[k]
    BY <1>1, <1>2 DEF WithEcho
  <2>2. \A k \in Id : k # new => Moved(old, new)[k] = IF k = old THEN AbsentRow ELSE rows[k]
    BY <1>2, <1>3 DEF Moved
  <2>3. Moved(old, new)[new] = rows[old]
    BY <1>2, <1>3 DEF Moved
  <2> QED
    BY <2>1, <2>2, <2>3
<1> HIDE DEF old, new, L
<1>7. /\ meta'[L] = [entity |-> new, remote |-> new, status |-> "SYNCED"]
      /\ \A l \in Id : l # L => meta'[l] = meta[l]
  BY <1>1, <1>2, <1>3 DEF MarkReplaced
<1> DEFINE q == WithoutItem(queue, cur.item)
<1>8. /\ q \in [ItemIds -> Item]
      /\ \A i \in ItemIds \ {cur.item} : q[i] = queue[i]
      /\ q[cur.item].status = "NONE"
  BY <1>0, <1>2, ItemEdits
<1> HIDE DEF q
<1>9. \A i \in ItemIds :
        /\ Queued(i)' <=> i # cur.item /\ Queued(i)
        /\ Queued(i)' => /\ queue'[i].ent = (IF queue[i].ent = old THEN new ELSE queue[i].ent)
                         /\ queue'[i].op = queue[i].op /\ queue'[i].status = queue[i].status
  BY <1>1, <1>8 DEF EntityRewritten, Item, Queued, q
<1>10. ASSUME NEW l \in Id, l # L
       PROVE  meta[l].entity # old /\ meta[l].entity # new
  <2>1. meta[l].entity # old
    BY <1>2, <1>10, IdsAssumption DEF IdentityInv, IdentityAgrees, EntitiesAreUnique
  <2>2. meta'[l].entity # new
    <3>1. meta'[L].entity = new /\ new # None
      BY <1>2, <1>7, IdsAssumption
    <3>2. EntitiesAreUnique'
      BY <1>0 DEF IdentityInv, IdentityAgrees
    <3> QED
      BY <1>2, <1>10, <3>1, <3>2 DEF EntitiesAreUnique
  <2> QED
    BY <1>7, <1>10, <2>1, <2>2
<1>11. \/ rows'[new] = rows[old]
       \/ rows'[new].state = "live" /\ rows'[new].ver = cur.ver /\ rows[old].state # "absent"
  BY <1>4, <1>5, <1>6
<1> QED
  BY <1>1, <1>2, <1>4, <1>6, <1>7, <1>9, <1>10, <1>11 DEF Replaced, old, new, L

\* What the row holds after a replace is what the server holds, or a later
\* write with an item of its own.
LEMMA ReplaceData == ASSUME IdentityInv, DataInv, ApplyWrite PROVE DataInv'
<1> DEFINE old == OldEntity
           new == ResolvedEntity
           L == cur.local
<1>1. /\ pc = "apply" /\ cur.act \in {"POST", "PATCH"} /\ Busy /\ NextItem
  BY DEF ApplyWrite, EndApply, Busy
<1>2. Replaced(old, new, L)
  BY ReplaceFacts
<1> HIDE DEF old, new, L
<1> USE DEF Replaced
<1>3. QuietRowsAgree'
  <2> SUFFICES ASSUME NEW k \in Id, rows'[k].state = "live", Quiet(k)', ~LeftToAPerson(k)'
               PROVE  \E l \in Id : /\ meta'[l].entity = k /\ meta'[l].remote # None
                                    /\ \/ server'[meta'[l].remote].ver = rows'[k].ver
                                       \/ server'[meta'[l].remote].state = "tombstoned"
    BY DEF QuietRowsAgree
  <2>1. CASE k = new
    <3>1. rows'[new].ver = cur.ver
      <4>1. CASE rows'[new] = rows[old]
        <5>1. ~OtherItem(cur.cid)
          BY <1>2, <2>1 DEF OtherItem, Quiet, Readable, Queued
        <5> QED
          BY <1>1, <1>2, <2>1, <4>1, <5>1 DEF DataInv, LaterWriteIsQueued
      <4> QED
        BY <1>2, <4>1
    <3>2. new # None
      BY <1>2, IdsAssumption
    <3>3. server'[meta'[L].remote].ver = rows'[k].ver
      BY <1>2, <2>1, <3>1
    <3> QED
      BY <1>2, <2>1, <3>2, <3>3
  <2>2. CASE k # new
    <3>1. k # old /\ rows'[k] = rows[k]
      BY <1>2, <2>2 DEF AbsentRow
    <3>2. Quiet(k) /\ ~LeftToAPerson(k)
      <4>1. \A i \in ItemIds : Queued(i) /\ queue[i].ent = k =>
              queue'[i].ent = k /\ queue'[i].status = queue[i].status
        BY <1>2, <3>1
      <4>2. Quiet(k)
        BY <4>1 DEF Quiet, Readable, Queued
      <4>3. LeftToAPerson(k) => LeftToAPerson(k)'
        BY <1>2, <4>1 DEF LeftToAPerson, Alive, Queued
      <4> QED
        BY <4>2, <4>3
    <3>3. PICK l \in Id : /\ meta[l].entity = k /\ meta[l].remote # None
                          /\ \/ server[meta[l].remote].ver = rows[k].ver
                             \/ server[meta[l].remote].state = "tombstoned"
      BY <3>1, <3>2 DEF DataInv, QuietRowsAgree
    <3>4. l # L
      BY <1>2, <3>1, <3>3
    <3> QED
      BY <1>2, <3>1, <3>3, <3>4
  <2> QED
    BY <2>1, <2>2
<1>4. DeleteItemsAreGone'
  <2> SUFFICES ASSUME NEW i \in ItemIds, Queued(i)', queue'[i].op = "delete"
               PROVE  rows'[queue'[i].ent].state = "absent"
    BY DEF DeleteItemsAreGone
  <2>1. Queued(i) /\ queue[i].op = "delete" /\ queue[i].ent \in Id
    BY <1>2 DEF IdentityInv, TypeInv, ItemsAreQueued
  <2>2. rows[queue[i].ent].state = "absent"
    BY <2>1 DEF DataInv, DeleteItemsAreGone
  <2>3. CASE queue[i].ent = old
    BY <1>2, <2>2, <2>3
  <2>4. CASE queue[i].ent # old
    <3>1. PICK l \in Id : meta[l].entity = queue[i].ent
      BY <2>1 DEF IdentityInv, IdentityAgrees, QueueResolves
    <3>2. queue[i].ent # new
      BY <1>2, <2>4, <3>1
    <3> QED
      BY <1>2, <2>1, <2>2, <2>4, <3>2
  <2> QED
    BY <2>3, <2>4
<1>5. LaterWriteIsQueued' /\ DeletedIsNotLive' /\ NotFoundIsGone'
  BY <1>1 DEF NextItem, LaterWriteIsQueued, DeletedIsNotLive, NotFoundIsGone, Busy
<1> QED
  BY <1>3, <1>4, <1>5 DEF DataInv

\* The server changes a row of the device only while its item is queued, or
\* by deleting it.
LEMMA ServerData == ASSUME IdentityInv, HeldAreOpen, DataInv, Server PROVE DataInv'
<1>0. TypeInv
  BY DEF IdentityInv
<1>1. /\ pc = "call" /\ pc' = "reply" /\ UNCHANGED <<storeVars, cur>>
  BY DEF Server, ServerCreate, ServerUpdate, ServerRemove, ServerNotFound, CreateNotFound,
         ServerError, Answer
<1>2. UNCHANGED <<rows, queue, meta>> /\ Busy
  BY <1>1 DEF storeVars, Busy
<1>3. LaterWriteIsQueued' /\ DeletedIsNotLive' /\ DeleteItemsAreGone'
  BY <1>0, <1>1, <1>2, RequestKept DEF DataInv
<1>4. /\ server \in [ServerIds -> ServerRow] /\ cur.item \in Readable
      /\ cur.cid = queue[cur.item].ent
  BY <1>0, <1>2 DEF TypeInv, TypeOK, ItemsAreQueued, IdentityInv, CurrentResolves, HeldAreOpen,
                    Readable
<1>5. ASSUME NEW s \in ServerIds, \E l \in Id : meta[l].remote = s, Quiet(s),
             server'[s].state # "tombstoned"
      PROVE  server'[s].ver = server[s].ver /\ server[s].state # "tombstoned"
  <2>1. server[s].state # "absent"
    <3>1. PICK l \in Id : meta[l].remote = s
      BY <1>5
    <3>2. s # None
      BY IdsAssumption DEF Id
    <3> QED
      BY <3>1, <3>2 DEF IdentityInv, IdentityAgrees, RemotesAgree
  <2>2. s # cur.cid
    BY <1>4, <1>5 DEF Quiet
  <2>3. ASSUME NEW t \in ServerIds, NEW echo \in BOOLEAN, ServerCreate(t, echo)
        PROVE  server'[s] = server[s]
    <3>1. /\ server[t].state = "absent"
          /\ server' = [server EXCEPT ![t] = [state |-> "live", ver |-> cur.ver,
                                              ts |-> lastTick', origin |-> cur.local]]
      BY <2>3 DEF ServerCreate
    <3> QED
      BY <1>4, <2>1, <3>1
  <2>4. ASSUME NEW echo \in BOOLEAN, ServerUpdate(echo)
        PROVE  server'[s] = server[s]
    <3>1. server' = [server EXCEPT ![cur.cid].ver = cur.ver, ![cur.cid].ts = lastTick']
      BY <2>4 DEF ServerUpdate
    <3> QED
      BY <1>4, <2>2, <3>1
  <2>5. CASE ServerRemove
    <3>1. server' = [server EXCEPT ![cur.cid].state = "tombstoned", ![cur.cid].ts = lastTick']
      BY <2>5 DEF ServerRemove
    <3> QED
      BY <1>4, <1>5, <2>2, <3>1
  <2>6. CASE ServerNotFound \/ CreateNotFound \/ ServerError
    BY <1>5, <2>6 DEF ServerNotFound, CreateNotFound, ServerError, serverVars
  <2> QED
    BY <1>5, <2>3, <2>4, <2>5, <2>6 DEF Server
<1>6. QuietRowsAgree'
  <2>0. \A k \in Id : LeftToAPerson(k) => LeftToAPerson(k)'
    BY OutsideLeaves
  <2> SUFFICES ASSUME NEW k \in Id, rows[k].state = "live", Quiet(k), ~LeftToAPerson(k)
               PROVE  \E l \in Id : /\ meta[l].entity = k /\ meta[l].remote # None
                                    /\ \/ server'[meta[l].remote].ver = rows[k].ver
                                       \/ server'[meta[l].remote].state = "tombstoned"
    BY <1>2, <2>0 DEF QuietRowsAgree, Quiet, Readable
  <2>1. PICK l \in Id : /\ meta[l].entity = k /\ meta[l].remote # None
                        /\ \/ server[meta[l].remote].ver = rows[k].ver
                           \/ server[meta[l].remote].state = "tombstoned"
    BY DEF DataInv, QuietRowsAgree
  <2>2. meta[l].remote = k /\ k \in ServerIds
    BY <1>0, <2>1 DEF TypeInv, RemoteIsEntity, TypeOK, StoreTypeOK, MetaRow
  <2> QED
    BY <1>5, <2>1, <2>2
<1>7. NotFoundIsGone'
  <2> SUFFICES ASSUME reply'.code = "notfound" PROVE ~Alive(cur.cid)'
    BY <1>1 DEF NotFoundIsGone
  <2>1. CASE ServerNotFound
    BY <1>1, <2>1 DEF ServerNotFound, Alive, serverVars
  <2>2. CASE CreateNotFound
    <3>1. cur.act = "POST" /\ cur.local \in Id /\ meta[cur.local].remote = None
          /\ cur.cid = meta[cur.local].entity /\ cur.cid # None
      BY <1>0, <1>2, <2>2, IdsAssumption
         DEF CreateNotFound, TypeInv, ItemsAreQueued, IdentityInv, CurrentResolves
    <3>2. cur.cid \in LocalIds
      BY <3>1 DEF IdentityInv, LocalsAreTracked
    <3> QED
      BY <1>1, <3>2, IdsAssumption DEF Alive
  <2>3. ServerNotFound \/ CreateNotFound
    BY DEF Server, ServerCreate, ServerUpdate, ServerRemove, ServerError, Answer
  <2> QED
    BY <2>1, <2>2, <2>3
<1> QED
  BY <1>3, <1>6, <1>7 DEF DataInv

LEMMA EnvironmentData == ASSUME IdentityInv, DataInv, Environment PROVE DataInv'
<1>0. TypeInv
  BY DEF IdentityInv
<1>1. CASE NetworkFailure \/ Crash
  <2>1. UNCHANGED <<rows, queue, meta, server>>
    <3>1. CASE NetworkFailure
      BY <3>1 DEF NetworkFailure, storeVars, serverVars
    <3>2. CASE Crash
      BY <3>2 DEF Crash, serverVars, IdentityInv, LockIsApply
    <3> QED
      BY <1>1, <3>1, <3>2
  <2>2. ~Busy' \/ (Busy /\ cur'.item = cur.item /\ cur'.cid = cur.cid /\ cur'.act = cur.act
                        /\ cur'.ver = cur.ver)
    <3>1. cur \in Current
      BY <1>0 DEF TypeInv, TypeOK
    <3>2. \/ pc' = "idle"
          \/ pc \in {"call", "reply"} /\ cur' = [cur EXCEPT !.tries = @ + 1]
      BY <1>1 DEF NetworkFailure, Crash
    <3> QED
      BY <3>1, <3>2 DEF Busy, Current
  <2>3. QuietRowsAgree' /\ NotFoundIsGone'
    <3>1. pc' # "reply"
      BY <1>1 DEF NetworkFailure, Crash
    <3> QED
      BY <2>1, <3>1 DEF DataInv, QuietRowsAgree, Quiet, Readable, LeftToAPerson, Alive,
                        NotFoundIsGone
  <2> QED
    BY <1>0, <2>1, <2>2, <2>3, RequestKept DEF DataInv
<1>2. ASSUME NEW s \in ServerIds, ForeignDelete(s)
      PROVE  DataInv'
  <2>1. UNCHANGED <<rows, queue, meta, pc, cur, reply>>
    BY <1>2 DEF ForeignDelete, storeVars, sessionVars
  <2>2. server \in [ServerIds -> ServerRow]
    BY <1>0 DEF TypeInv, TypeOK
  <2>3. \A t \in ServerIds : /\ server'[t].ver = server[t].ver
                             /\ server[t].state = "tombstoned" => server'[t].state = "tombstoned"
                             /\ server'[t].state = "live" => server[t].state = "live"
    BY <1>2, <2>2 DEF ForeignDelete, ServerRow
  <2>4. QuietRowsAgree'
    <3>1. SameIdentity
      BY <2>1 DEF SameIdentity
    <3>2. ASSUME NEW pk \in Id, rows'[pk].state = "live", Quiet(pk)', ~LeftToAPerson(pk)'
          PROVE  /\ rows[pk].state = "live" /\ rows'[pk].ver = rows[pk].ver /\ Quiet(pk)
                 /\ ~LeftToAPerson(pk)
                 /\ pk \in ServerIds
                      /\ (server[pk].ver = rows[pk].ver \/ server[pk].state = "tombstoned")
                    => server'[pk].ver = rows[pk].ver \/ server'[pk].state = "tombstoned"
      BY <2>1, <2>3, <3>2 DEF Quiet, Readable, LeftToAPerson, Alive
    <3> QED
      BY <1>0, <3>1, <3>2, QuietKept DEF DataInv
  <2>5. LaterWriteIsQueued' /\ DeletedIsNotLive' /\ DeleteItemsAreGone'
    BY <2>1 DEF DataInv, LaterWriteIsQueued, DeletedIsNotLive, DeleteItemsAreGone, OtherItem,
                Readable, Queued, Busy
  <2>6. NotFoundIsGone'
    BY <2>1, <2>3 DEF DataInv, NotFoundIsGone, Alive
  <2> QED
    BY <2>4, <2>5, <2>6 DEF DataInv
<1> QED
  BY <1>1, <1>2 DEF Environment

LEMMA StutterData == ASSUME DataInv, UNCHANGED vars PROVE DataInv'
BY DEF DataInv, QuietRowsAgree, LaterWriteIsQueued, DeletedIsNotLive, DeleteItemsAreGone,
       NotFoundIsGone, LeftToAPerson, Alive, OtherItem, Quiet, Readable, Queued, Busy, vars,
       storeVars, sessionVars, serverVars

LEMMA StepHeld == IdentityInv /\ HeldAreOpen /\ [Next]_vars => HeldAreOpen'
BY HeldKeeps DEF IdentityInv

LEMMA StepData ==
  ASSUME Isolated
  PROVE  IdentityInv /\ HeldAreOpen /\ DataInv /\ [Next]_vars => DataInv'
<1> SUFFICES ASSUME IdentityInv, HeldAreOpen, DataInv, [Next]_vars PROVE DataInv'
  OBVIOUS
<1>1. CASE App
  BY <1>1, AppData
<1>2. CASE Session
  <2>1. \A moved \in BOOLEAN : ~ApplyWriteFails(moved)
    BY DEF Isolated, ApplyWriteFails
  <2> QED
    BY <1>2, <2>1, ReadingData, SettledData, ItemFailedData, BeginApplyData, ReplaceData DEF Session
<1>3. CASE Server
  BY <1>3, ServerData
<1>4. CASE Environment
  BY <1>4, EnvironmentData
<1>5. CASE UNCHANGED vars
  BY <1>5, StutterData
<1> QED
  BY <1>1, <1>2, <1>3, <1>4, <1>5 DEF Next

\* No edit is lost, for any number of rows, writes, faults and sessions: a
\* live row none of whose items is left in the queue holds what the server
\* holds, unless another client has deleted it there.
THEOREM QuietRowsCorrect == ASSUME Isolated PROVE Spec => []QuietRowsAgree
<1>1. Init => IdentityInv /\ HeldAreOpen /\ DataInv
  BY InitIdentity, InitHeld, InitData
<1>2. IdentityInv /\ HeldAreOpen /\ DataInv /\ [Next]_vars
        => (IdentityInv /\ HeldAreOpen /\ DataInv)'
  BY StepIdentity, StepHeld, StepData
<1>3. DataInv => QuietRowsAgree
  BY DEF DataInv
<1> QED
  BY <1>1, <1>2, <1>3, PTL DEF Spec

-----------------------------------------------------------------------------
(* No duplicate: every row of the server belongs to the local id whose POST *)
(* created it, or the device knows that it cannot know.                    *)

\* A step that creates no server row keeps the rows owned if no recorded remote
\* id is lost and the answer to a POST is kept, recorded, or known to be lost.
LEMMA OwnedKept ==
  ASSUME IdentityInv, OwnedInv, OnlyOkHasId',
         \A s \in ServerIds : /\ server'[s].state # "absent" => server[s].state # "absent"
                              /\ server'[s].origin = server[s].origin,
         \A l \in Id : meta[l].remote # None => meta'[l].remote = meta[l].remote,
         uncertain \subseteq uncertain',
         PostUnanswered =>
           \/ pc' \in {"reply", "apply"} /\ UNCHANGED <<cur, reply>>
           \/ meta'[cur.local].remote = reply.id
           \/ cur.local \in uncertain'
  PROVE  OwnedInv'
<1>1. ServerRowsHaveOrigin'
  BY DEF OwnedInv, ServerRowsHaveOrigin
<1>2. ServerRowsOwned'
  <2> SUFFICES ASSUME NEW s \in ServerIds, server'[s].state # "absent"
               PROVE  \/ meta'[server'[s].origin].remote = s
                      \/ server'[s].origin \in uncertain'
                      \/ pc' \in {"reply", "apply"} /\ cur'.act = "POST" /\ reply'.id = s
    BY DEF ServerRowsOwned
  <2>1. /\ server[s].state # "absent" /\ server'[s].origin = server[s].origin
        /\ server[s].origin \in Id /\ s # None
    BY IdsAssumption DEF OwnedInv, ServerRowsHaveOrigin, Id
  <2>2. CASE meta[server[s].origin].remote = s
    BY <2>1, <2>2
  <2>3. CASE server[s].origin \in uncertain
    BY <2>1, <2>3
  <2>4. CASE pc \in {"reply", "apply"} /\ cur.act = "POST" /\ reply.id = s
    <3>1. reply.code = "ok"
      BY <2>1, <2>4 DEF OwnedInv, OnlyOkHasId
    <3>2. server[s].origin = cur.local /\ PostUnanswered
      BY <2>4, <3>1 DEF IdentityInv, AnswerMatches, Answered, PostUnanswered
    <3> QED
      BY <2>1, <2>4, <3>2
  <2> QED
    BY <2>1, <2>2, <2>3, <2>4 DEF OwnedInv, ServerRowsOwned
<1> QED
  BY <1>1, <1>2 DEF OwnedInv

LEMMA InitOwned == Init => OwnedInv
BY DEF Init, OwnedInv, ServerRowsOwned, OnlyOkHasId, ServerRowsHaveOrigin, AbsentServerRow, NoReply

LEMMA AppOwned ==
  ASSUME Isolated, IdentityInv, OwnedInv, App
  PROVE  OwnedInv'
<1> PICK pk \in Id, op \in {"insert", "update", "delete"} : AppWrites(pk, op)
  BY AppIdentityCases
<1>1. meta \in [Id -> MetaRow] /\ RemoteIsEntity /\ pk # None
  BY IdsAssumption DEF IdentityInv, TypeInv, TypeOK, StoreTypeOK
<1>2. \A l \in Id : meta[l].remote # None => meta'[l].remote = meta[l].remote
  BY <1>1 DEF AppWrites, SameIdentity, RemoteIsEntity
<1>3. UNCHANGED <<pc, cur, reply, server, uncertain>>
  BY DEF App, sessionVars, serverVars
<1>4. OnlyOkHasId'
  BY <1>3 DEF OwnedInv, OnlyOkHasId
<1> QED
  BY <1>2, <1>3, <1>4, OwnedKept DEF PostUnanswered

LEMMA ReadingOwned ==
  ASSUME IdentityInv, OwnedInv, StartSession \/ EndSession \/ \E i \in ItemIds : TakeItem(i)
  PROVE  OwnedInv'
<1>1. UNCHANGED <<meta, server, reply, uncertain>> /\ pc \in {"idle", "items"}
  BY DEF StartSession, EndSession, TakeItem, storeVars, serverVars
<1>2. OnlyOkHasId'
  BY <1>1 DEF OwnedInv, OnlyOkHasId
<1> QED
  BY <1>1, <1>2, OwnedKept DEF PostUnanswered

LEMMA SettledOwned ==
  ASSUME IdentityInv, OwnedInv,
         DropItem \/ MetadataFails \/ WriteNotFound \/ ApplyDelete
  PROVE  OwnedInv'
<1>1. /\ server' = server /\ reply' = NoReply
      /\ meta' = meta \/ meta' = MarkFailed(cur.local)
      /\ uncertain' = uncertain /\ ~PostUnanswered
  BY DEF DropItem, MetadataFails, WriteNotFound, ApplyDelete, EndApply,
         NextItem, serverVars, PostUnanswered
<1>2. TypeInv /\ cur.local \in Id \cup {None}
  BY DEF IdentityInv, TypeInv, TypeOK, Current
<1>3. \A l \in Id : meta'[l].remote = meta[l].remote
  BY <1>1, <1>2, MarkFailedTyped
<1>4. OnlyOkHasId'
  BY <1>1 DEF OnlyOkHasId, NoReply
<1> QED
  BY <1>1, <1>3, <1>4, OwnedKept

\* An answer to a POST that carries no entity leaves its local id uncertain.
LEMMA ItemFailedOwned ==
  ASSUME IdentityInv, OwnedInv, BodyFails \/ RequestFails
  PROVE  OwnedInv'
<1>1. ItemFailed
  BY ItemFailedFacts DEF IdentityInv
<1>2. OnlyOkHasId'
  BY <1>1 DEF ItemFailed, OwnedInv, OnlyOkHasId
<1>3. uncertain \subseteq uncertain' /\ (PostUnanswered => cur.local \in uncertain')
  BY <1>1 DEF ItemFailed, Unsure
<1>4. UNCHANGED <<meta, server>>
  BY <1>1 DEF ItemFailed
<1> QED
  BY <1>2, <1>3, <1>4, OwnedKept

LEMMA BeginApplyOwned == ASSUME IdentityInv, OwnedInv, BeginApply PROVE OwnedInv'
<1>1. UNCHANGED <<meta, server, cur, reply, uncertain>> /\ pc' = "apply"
  BY DEF BeginApply, serverVars
<1>2. OnlyOkHasId'
  BY <1>1 DEF OwnedInv, OnlyOkHasId
<1> QED
  BY <1>1, <1>2, OwnedKept

\* The replace records the id the server gave, under the local id it gave it to.
LEMMA ReplaceOwned == ASSUME IdentityInv, OwnedInv, ApplyWrite PROVE OwnedInv'
<1> DEFINE old == OldEntity
           new == ResolvedEntity
           L == cur.local
<1>1. /\ pc = "apply" /\ cur.act \in {"POST", "PATCH"} /\ Busy /\ Answered
      /\ uncertain' = uncertain /\ reply' = NoReply
  BY DEF ApplyWrite, EndApply, NextItem, Busy, Answered, IdentityInv, ApplyHasAnswer
<1>2. Replaced(old, new, L)
  BY ReplaceFacts
<1>3. cur.act = "POST" => meta[L].remote = None /\ new = reply.id
  BY <1>1 DEF IdentityInv, TypeInv, PostIsEchoed, CurrentResolves, ResolvedEntity
<1>4. cur.act = "PATCH" => new = old
  BY <1>1, <1>2 DEF IdentityInv, AnswerMatches, ResolvedEntity, Replaced
<1>5. meta[L].remote # None => meta[L].remote = old
  BY <1>2 DEF IdentityInv, TypeInv, RemoteIsEntity, Replaced
<1> HIDE DEF old, new, L
<1>6. \A l \in Id : meta[l].remote # None => meta'[l].remote = meta[l].remote
  BY <1>1, <1>2, <1>3, <1>4, <1>5 DEF Replaced
<1>7. PostUnanswered => meta'[L].remote = reply.id
  BY <1>1, <1>2, <1>3 DEF Replaced, PostUnanswered
<1>8. OnlyOkHasId'
  BY <1>1 DEF OnlyOkHasId, NoReply
<1> QED
  BY <1>1, <1>2, <1>6, <1>7, <1>8, OwnedKept DEF Replaced, L

LEMMA ServerOwned == ASSUME IdentityInv, OwnedInv, Server PROVE OwnedInv'
<1>1. /\ pc = "call" /\ pc' = "reply" /\ UNCHANGED <<meta, cur, uncertain>>
  BY DEF Server, ServerCreate, ServerUpdate, ServerRemove, ServerNotFound, CreateNotFound,
         ServerError, Answer, storeVars
<1>2. /\ server \in [ServerIds -> ServerRow] /\ cur.local \in Id
  BY <1>1 DEF IdentityInv, TypeInv, TypeOK, ItemsAreQueued, Busy
<1>3. OnlyOkHasId'
  BY DEF Server, ServerCreate, ServerUpdate, ServerRemove, ServerNotFound, CreateNotFound,
         ServerError, Answer,
         OnlyOkHasId
<1>4. ASSUME NEW s \in ServerIds, NEW echo \in BOOLEAN, ServerCreate(s, echo)
      PROVE  OwnedInv'
  <2>1. /\ server' = [server EXCEPT ![s] = [state |-> "live", ver |-> cur.ver,
                                            ts |-> lastTick', origin |-> cur.local]]
        /\ cur.act = "POST" /\ reply'.id = s
    BY <1>4 DEF ServerCreate, Answer
  <2>2. \A t \in ServerIds \ {s} : server'[t] = server[t]
    BY <1>2, <2>1
  <2>3. server'[s].origin = cur.local
    BY <1>2, <2>1
  <2>4. ServerRowsHaveOrigin'
    BY <1>2, <2>2, <2>3 DEF OwnedInv, ServerRowsHaveOrigin
  <2>5. ServerRowsOwned'
    BY <1>1, <2>1, <2>2 DEF OwnedInv, ServerRowsOwned
  <2> QED
    BY <1>3, <2>4, <2>5 DEF OwnedInv
<1>5. CASE \A s \in ServerIds : /\ server'[s].state # "absent" => server[s].state # "absent"
                                /\ server'[s].origin = server[s].origin
  BY <1>1, <1>3, <1>5, OwnedKept DEF PostUnanswered
<1>6. ASSUME ServerRemove \/ ServerNotFound \/ CreateNotFound \/ ServerError \/ \E echo \in BOOLEAN : ServerUpdate(echo)
      PROVE  \A s \in ServerIds : /\ server'[s].state # "absent" => server[s].state # "absent"
                                  /\ server'[s].origin = server[s].origin
  <2>1. \/ server' = server
        \/ /\ Alive(cur.cid)
           /\ \/ server' = [server EXCEPT ![cur.cid].ver = cur.ver, ![cur.cid].ts = lastTick']
              \/ server' = [server EXCEPT ![cur.cid].state = "tombstoned", ![cur.cid].ts = lastTick']
    BY <1>6 DEF ServerUpdate, ServerRemove, ServerNotFound, CreateNotFound, ServerError, serverVars
  <2> QED
    BY <1>2, <2>1 DEF ServerRow, Alive
<1> QED
  BY <1>4, <1>5, <1>6 DEF Server

\* An answer that gets lost leaves the local id among the uncertain ones.
LEMMA EnvironmentOwned == ASSUME IdentityInv, OwnedInv, Environment PROVE OwnedInv'
<1>1. CASE NetworkFailure \/ Crash
  <2>1. UNCHANGED <<meta, server>> /\ reply' = NoReply /\ Unsure
    BY <1>1 DEF NetworkFailure, Crash, storeVars, serverVars
  <2>2. OnlyOkHasId'
    BY <2>1 DEF OnlyOkHasId, NoReply
  <2>3. uncertain \subseteq uncertain' /\ (PostUnanswered => cur.local \in uncertain')
    BY <2>1 DEF Unsure
  <2> QED
    BY <2>1, <2>2, <2>3, OwnedKept
<1>2. ASSUME NEW s \in ServerIds, ForeignDelete(s)
      PROVE  OwnedInv'
  <2>1. UNCHANGED <<meta, pc, cur, reply, uncertain>>
    BY <1>2 DEF ForeignDelete, storeVars, sessionVars
  <2>2. server \in [ServerIds -> ServerRow]
    BY DEF IdentityInv, TypeInv, TypeOK
  <2>3. \A t \in ServerIds : /\ server'[t].state # "absent" => server[t].state # "absent"
                             /\ server'[t].origin = server[t].origin
    BY <1>2, <2>2 DEF ForeignDelete, ServerRow
  <2>4. OnlyOkHasId'
    BY <2>1 DEF OwnedInv, OnlyOkHasId
  <2> QED
    BY <2>1, <2>3, <2>4, OwnedKept DEF PostUnanswered
<1> QED
  BY <1>1, <1>2 DEF Environment

LEMMA StepOwned ==
  ASSUME Isolated
  PROVE  IdentityInv /\ OwnedInv /\ [Next]_vars => OwnedInv'
<1> SUFFICES ASSUME IdentityInv, OwnedInv, [Next]_vars PROVE OwnedInv'
  OBVIOUS
<1>1. CASE App
  BY <1>1, AppOwned
<1>2. CASE Session
  <2>1. \A moved \in BOOLEAN : ~ApplyWriteFails(moved)
    BY DEF Isolated, ApplyWriteFails
  <2> QED
    BY <1>2, <2>1, ReadingOwned, SettledOwned, ItemFailedOwned, BeginApplyOwned, ReplaceOwned DEF Session
<1>3. CASE Server
  BY <1>3, ServerOwned
<1>4. CASE Environment
  BY <1>4, EnvironmentOwned
<1>5. CASE UNCHANGED vars
  BY <1>5 DEF OwnedInv, ServerRowsOwned, OnlyOkHasId, ServerRowsHaveOrigin, vars, storeVars,
              sessionVars, serverVars
<1> QED
  BY <1>1, <1>2, <1>3, <1>4, <1>5 DEF Next

\* No duplicate, whatever is lost and whenever the process dies: a row of the
\* server was created by the one POST of a local id the device has recorded or is
\* about to record, unless an answer to a POST of that id was lost or carried no
\* entity.
THEOREM ServerRowsOwnedCorrect == ASSUME Isolated PROVE Spec => []ServerRowsOwned
<1>1. Init => IdentityInv /\ OwnedInv
  BY InitIdentity, InitOwned
<1>2. IdentityInv /\ OwnedInv /\ [Next]_vars => (IdentityInv /\ OwnedInv)'
  BY StepIdentity, StepOwned
<1>3. OwnedInv => ServerRowsOwned
  BY DEF OwnedInv
<1> QED
  BY <1>1, <1>2, <1>3, PTL DEF Spec

-----------------------------------------------------------------------------
(* Status: of what metadata shows as waiting a session will read an item,  *)
(* or a 404 has left it to a person.                                       *)

LEMMA InitStatus == Init => StatusInv
BY DEF Init, StoreInit, StatusInv, PendingMeansQueued, StatusHasEntity, NoMeta

\* A step that leaves table, queue and metadata alone, and revives no row that is
\* left to a person.
LEMMA StatusKept ==
  ASSUME IdentityInv, StatusInv, UNCHANGED <<rows, queue, meta>>,
         \A pk \in Id : LeftToAPerson(pk) => LeftToAPerson(pk)'
  PROVE  StatusInv'
<1>1. StatusHasEntity'
  BY DEF StatusInv, StatusHasEntity
<1>2. \A l \in Id : meta[l].status # "NONE" => meta[l].entity \in Id
  BY DEF StatusInv, StatusHasEntity, IdentityInv, TypeInv, TypeOK, StoreTypeOK, MetaRow
<1>3. PendingMeansQueued'
  BY <1>2 DEF StatusInv, PendingMeansQueued, Quiet, Readable
<1> QED
  BY <1>1, <1>3 DEF StatusInv

LEMMA AppStatus ==
  ASSUME Isolated, IdentityInv, StatusInv, App
  PROVE  StatusInv'
<1> PICK pk \in Id, op \in {"insert", "update", "delete"} : AppWrites(pk, op)
  BY AppIdentityCases
<1> USE DEF AppWrites
<1>1. /\ meta \in [Id -> MetaRow] /\ pk # None
      /\ queue'[nextItem].ent = pk /\ queue'[nextItem].status = "PENDING"
      /\ server' = server
  BY IdsAssumption DEF IdentityInv, TypeInv, TypeOK, StoreTypeOK, App, serverVars
<1>2. \A i \in ItemIds : Queued(i) => queue'[i] = queue[i]
  OBVIOUS
<1>3. \A l \in Id : \/ meta'[l].entity = pk
                    \/ meta'[l] = meta[l] /\ meta[l].entity # pk
  BY <1>1 DEF SameIdentity
<1>4. StatusHasEntity'
  BY <1>1, <1>3 DEF StatusInv, StatusHasEntity
<1>5. PendingMeansQueued'
  <2> SUFFICES ASSUME NEW l \in Id, meta'[l].status \in {"PENDING", "FAILED"},
                      rows'[meta'[l].entity].state = "live"
               PROVE  (~Quiet(meta[l].entity) \/ LeftToAPerson(meta[l].entity))'
    BY DEF PendingMeansQueued
  <2>1. CASE meta'[l].entity = pk
    BY <1>1, <2>1 DEF Quiet, Readable
  <2>2. CASE meta'[l] = meta[l] /\ meta[l].entity # pk
    <3>1. meta[l].entity \in Id
      BY <1>1, <2>2 DEF StatusInv, StatusHasEntity, MetaRow
    <3>2. rows[meta[l].entity].state = "live"
      BY <2>2, <3>1
    <3>3. ~Quiet(meta[l].entity) \/ LeftToAPerson(meta[l].entity)
      BY <2>2, <3>2 DEF StatusInv, PendingMeansQueued
    <3> QED
      BY <1>1, <1>2, <2>2, <3>3 DEF Quiet, Readable, LeftToAPerson, Alive, Queued
  <2> QED
    BY <1>3, <2>1, <2>2
<1> QED
  BY <1>4, <1>5 DEF StatusInv

\* What has been marked FAILED is what the session will read again.
LEMMA SettledStatus ==
  ASSUME IdentityInv, HeldAreOpen, DataInv, StatusInv,
         DropItem \/ MetadataFails \/ WriteNotFound \/ ApplyDelete
  PROVE  StatusInv'
<1>1. Settled
  BY SettledFacts
<1>2. cur.item \in Readable
  BY <1>1 DEF Settled, HeldAreOpen, Readable
<1> USE DEF Settled
<1>3. StatusHasEntity'
  BY <1>1 DEF StatusInv, StatusHasEntity
<1>4. PendingMeansQueued'
  <2> SUFFICES ASSUME NEW l \in Id, NEW pk, pk = meta'[l].entity,
                      meta'[l].status \in {"PENDING", "FAILED"}, rows'[pk].state = "live",
                      Quiet(pk)'
               PROVE  LeftToAPerson(pk)'
    BY DEF PendingMeansQueued, Quiet, Readable, LeftToAPerson, Alive
  <2>1. pk = meta[l].entity /\ rows[pk].state = "live"
    BY <1>1
  <2>2. CASE l = cur.local /\ queue' = queue
    BY <1>1, <1>2, <2>1, <2>2 DEF Quiet, Readable
  <2>3. CASE meta'[l] = meta[l] /\ pk # cur.cid
    <3>1. \A i \in ItemIds : queue[i].ent = pk => queue'[i] = queue[i]
      BY <1>1, <2>3
    <3>2. ~Quiet(pk) \/ LeftToAPerson(pk)
      BY <2>1, <2>3 DEF StatusInv, PendingMeansQueued
    <3> QED
      BY <1>1, <3>1, <3>2 DEF Quiet, Readable, LeftToAPerson, Alive
  <2>4. CASE pk = cur.cid
    <3>1. cur.act \notin {"DROP", "CONFIRM", "DELETE"}
      BY <1>1, <2>1, <2>4 DEF DataInv, DeletedIsNotLive
    <3>2. CASE queue' = queue
      BY <1>1, <1>2, <2>4, <3>2 DEF Quiet, Readable
    <3>3. CASE queue' # queue
      BY <1>1, <2>4, <3>1, <3>3, BlockedIsLeft DEF StatusInv
    <3> QED
      BY <3>2, <3>3
  <2> QED
    BY <1>1, <2>1, <2>2, <2>3, <2>4
<1> QED
  BY <1>3, <1>4 DEF StatusInv

LEMMA ItemFailedStatus ==
  ASSUME IdentityInv, StatusInv, BodyFails \/ RequestFails
  PROVE  StatusInv'
<1>1. ItemFailed
  BY ItemFailedFacts DEF IdentityInv
<1>2. /\ UNCHANGED <<rows, meta, server>> /\ cur.item \in ItemIds
      /\ \A i \in ItemIds : i # cur.item => queue'[i] = queue[i]
      /\ queue'[cur.item].ent = queue[cur.item].ent /\ queue'[cur.item].status = "FAILED"
  BY <1>1 DEF ItemFailed
<1>3. StatusHasEntity'
  BY <1>2 DEF StatusInv, StatusHasEntity
<1>4. PendingMeansQueued'
  <2> SUFFICES ASSUME NEW pk, ~Quiet(pk) \/ LeftToAPerson(pk)
               PROVE  ~Quiet(pk)' \/ LeftToAPerson(pk)'
    BY <1>2 DEF StatusInv, PendingMeansQueued, Quiet, Readable, LeftToAPerson, Alive
  <2>1. CASE queue[cur.item].ent = pk
    BY <1>2, <2>1 DEF Quiet, Readable
  <2>2. CASE queue[cur.item].ent # pk
    <3>1. \A i \in ItemIds : queue[i].ent = pk => queue'[i] = queue[i]
      BY <1>2, <2>2
    <3> QED
      BY <1>2, <3>1 DEF Quiet, Readable, LeftToAPerson, Alive
  <2> QED
    BY <2>1, <2>2
<1> QED
  BY <1>3, <1>4 DEF StatusInv

LEMMA ReplaceStatus == ASSUME IdentityInv, StatusInv, ApplyWrite PROVE StatusInv'
<1> DEFINE old == OldEntity
           new == ResolvedEntity
           L == cur.local
<1>1. Replaced(old, new, L) /\ meta \in [Id -> MetaRow] /\ new # None
  BY ReplaceFacts, IdsAssumption DEF IdentityInv, TypeInv, TypeOK, StoreTypeOK, Replaced
<1> HIDE DEF old, new, L
<1> USE DEF Replaced
<1>2. StatusHasEntity'
  BY <1>1 DEF StatusInv, StatusHasEntity
<1>3. PendingMeansQueued'
  <2> SUFFICES ASSUME NEW l \in Id, meta'[l].status \in {"PENDING", "FAILED"},
                      rows'[meta'[l].entity].state = "live"
               PROVE  (~Quiet(meta[l].entity) \/ LeftToAPerson(meta[l].entity))'
    BY DEF PendingMeansQueued
  <2>1. meta'[l] = meta[l] /\ meta[l].entity # old /\ meta[l].entity # new
    BY <1>1
  <2>2. meta[l].entity \in Id
    BY <1>1, <2>1 DEF StatusInv, StatusHasEntity, MetaRow
  <2>3. rows[meta[l].entity].state = "live"
    BY <1>1, <2>1, <2>2
  <2>4. ~Quiet(meta[l].entity) \/ LeftToAPerson(meta[l].entity)
    BY <2>1, <2>3 DEF StatusInv, PendingMeansQueued
  <2>5. \A i \in ItemIds : Queued(i) /\ queue[i].ent = meta[l].entity =>
          queue'[i].ent = meta[l].entity /\ queue'[i].status = queue[i].status
    BY <1>1, <2>1
  <2>6. ~Quiet(meta[l].entity) => \E i \in ItemIds :
          queue'[i].status \in {"PENDING", "FAILED"} /\ queue'[i].ent = meta'[l].entity
    BY <2>1, <2>5 DEF Quiet, Readable, Queued
  <2>7. LeftToAPerson(meta[l].entity) => LeftToAPerson(meta[l].entity)'
    BY <1>1, <2>1, <2>5 DEF LeftToAPerson, Alive, Queued
  <2> QED
    BY <2>4, <2>6, <2>7 DEF Quiet, Readable
<1> QED
  BY <1>2, <1>3 DEF StatusInv

LEMMA StepStatus ==
  ASSUME Isolated
  PROVE  IdentityInv /\ HeldAreOpen /\ DataInv /\ StatusInv /\ [Next]_vars => StatusInv'
<1> SUFFICES ASSUME IdentityInv, HeldAreOpen, DataInv, StatusInv, [Next]_vars PROVE StatusInv'
  OBVIOUS
<1>1. CASE App
  BY <1>1, AppStatus
<1>2. CASE Session
  <2>1. \A moved \in BOOLEAN : ~ApplyWriteFails(moved)
    BY DEF Isolated, ApplyWriteFails
  <2>2. CASE StartSession \/ EndSession \/ BeginApply \/ \E i \in ItemIds : TakeItem(i)
    <3>1. UNCHANGED <<rows, queue, meta, server>>
      BY <2>2 DEF StartSession, EndSession, BeginApply, TakeItem, storeVars, serverVars
    <3>2. \A pk \in Id : LeftToAPerson(pk) => LeftToAPerson(pk)'
      BY <3>1 DEF LeftToAPerson, Alive
    <3> QED
      BY <3>1, <3>2, StatusKept
  <2> QED
    BY <1>2, <2>1, <2>2, SettledStatus, ItemFailedStatus, ReplaceStatus DEF Session
<1>3. CASE Server \/ Environment
  BY <1>3, OutsideFacts, OutsideLeaves, StatusKept
<1>4. CASE UNCHANGED vars
  <2>1. UNCHANGED <<rows, queue, meta, server>>
    BY <1>4 DEF vars, storeVars, serverVars
  <2>2. \A pk \in Id : LeftToAPerson(pk) => LeftToAPerson(pk)'
    BY <2>1 DEF LeftToAPerson, Alive
  <2> QED
    BY <2>1, <2>2, StatusKept
<1> QED
  BY <1>1, <1>2, <1>3, <1>4 DEF Next

\* Metadata never waits for nothing: whatever is written, lost or interrupted, a
\* live row shown as PENDING or FAILED has an item that a session will read, or
\* the server does not have it and a 404 has blocked what was left of it.
THEOREM PendingMeansQueuedCorrect == ASSUME Isolated PROVE Spec => []PendingMeansQueued
<1>1. Init => IdentityInv /\ HeldAreOpen /\ DataInv /\ StatusInv
  BY InitIdentity, InitHeld, InitData, InitStatus
<1>2. IdentityInv /\ HeldAreOpen /\ DataInv /\ StatusInv /\ [Next]_vars
        => (IdentityInv /\ HeldAreOpen /\ DataInv /\ StatusInv)'
  BY StepIdentity, StepHeld, StepData, StepStatus
<1>3. StatusInv => PendingMeansQueued
  BY DEF StatusInv
<1> QED
  BY <1>1, <1>2, <1>3, PTL DEF Spec

-----------------------------------------------------------------------------
(* Deletes: the server hears of the end of every row it knows.             *)

LEMMA InitDeletes == Init => DeletesInv
BY DEF Init, StoreInit, DeletesInv, DeletesAreQueued, LaterDeleteIsQueued, ActionFits,
       DeleteIsAnswered, DeleteIsConfirmed, Busy, NoMeta

\* What a recorded remote id is.
LEMMA RemoteFacts ==
  ASSUME IdentityInv, NEW l \in Id, meta[l].remote # None
  PROVE  /\ meta[l].remote \in ServerIds /\ meta[l].entity = meta[l].remote /\ meta[l].entity \in Id
         /\ server[meta[l].remote].state # "absent"
BY DEF IdentityInv, IdentityAgrees, RemotesAgree, TypeInv, TypeOK, StoreTypeOK, MetaRow, Id

\* A step that leaves table, queue, metadata and the current item alone, and
\* revives no row the device knows the id of.
LEMMA DeletesKept ==
  ASSUME IdentityInv, DeletesInv,
         UNCHANGED <<rows, queue, meta>>,
         \A l \in Id : meta[l].remote # None /\ server'[meta[l].remote].state = "live"
           => server[meta[l].remote].state = "live",
         ~Busy' \/ (Busy /\ cur'.item = cur.item /\ cur'.cid = cur.cid /\ cur'.act = cur.act
                         /\ cur'.remote = cur.remote)
  PROVE  DeletesAreQueued' /\ LaterDeleteIsQueued' /\ ActionFits'
<1>1. DeletesAreQueued'
  BY DEF DeletesInv, DeletesAreQueued, TellsOfDelete, Readable
<1>2. LaterDeleteIsQueued'
  BY DEF DeletesInv, LaterDeleteIsQueued, TellsOfDelete, Readable
<1>3. ActionFits'
  BY DEF DeletesInv, ActionFits
<1> QED
  BY <1>1, <1>2, <1>3

LEMMA AppDeletes ==
  ASSUME Isolated, IdentityInv, DeletesInv, App
  PROVE  DeletesInv'
<1> PICK pk \in Id, op \in {"insert", "update", "delete"} : AppWrites(pk, op)
  BY AppIdentityCases
<1> USE DEF AppWrites
<1>1. /\ meta \in [Id -> MetaRow] /\ RemoteIsEntity /\ pk # None
      /\ UNCHANGED <<pc, cur, reply, server>>
  BY IdsAssumption DEF IdentityInv, TypeInv, TypeOK, StoreTypeOK, App, sessionVars, serverVars
<1>2. /\ Busy' <=> Busy
      /\ Busy => /\ cur.item \in ItemIds /\ Queued(cur.item) /\ cur.local \in Id
                 /\ cur.cid = meta[cur.local].entity /\ cur.cid = queue[cur.item].ent
                 /\ cur.cid \in Id
  BY <1>1 DEF IdentityInv, TypeInv, ItemsAreQueued, CurrentResolves, Busy
<1>5. DeletesAreQueued'
  <2> SUFFICES ASSUME NEW l \in Id, meta'[l].remote # None,
                      server[meta'[l].remote].state = "live",
                      rows'[meta'[l].entity].state # "live"
               PROVE  \E i \in ItemIds :
                        /\ queue'[i].status \in {"PENDING", "FAILED"} /\ queue'[i].ent = meta'[l].entity
                        /\ rows'[meta'[l].entity].state = "absent" => queue'[i].op = "delete"
    BY <1>1 DEF DeletesAreQueued, TellsOfDelete, Readable, Queued
  <2>1. meta'[l].remote = meta[l].remote /\ meta'[l].entity = meta[l].entity
    BY <1>1 DEF SameIdentity, RemoteIsEntity
  <2>2. meta[l].entity \in Id
    BY <2>1, RemoteFacts
  <2>3. CASE meta[l].entity = pk
    BY <2>1, <2>3
  <2>4. CASE meta[l].entity # pk
    <3>1. rows'[meta[l].entity] = rows[meta[l].entity]
      BY <2>2, <2>4
    <3>2. PICK i \in ItemIds : TellsOfDelete(i, meta[l].entity)
      BY <2>1, <3>1 DEF DeletesInv, DeletesAreQueued
    <3>3. queue'[i] = queue[i]
      BY <3>2 DEF TellsOfDelete, Readable, Queued
    <3> QED
      BY <2>1, <3>1, <3>2, <3>3 DEF TellsOfDelete, Readable, Queued
  <2> QED
    BY <2>3, <2>4
<1>6. LaterDeleteIsQueued'
  <2> SUFFICES ASSUME Busy, cur.act \in {"POST", "PATCH"}, rows'[cur.cid].state # "live"
               PROVE  \E i \in ItemIds :
                        /\ i # cur.item /\ queue'[i].status \in {"PENDING", "FAILED"} /\ queue'[i].ent = cur.cid
                        /\ rows'[cur.cid].state = "absent" => queue'[i].op = "delete"
    BY <1>1, <1>2 DEF LaterDeleteIsQueued, TellsOfDelete, Readable, Queued
  <2>1. CASE cur.cid = pk
    BY <1>2, <2>1
  <2>2. CASE cur.cid # pk
    <3>1. rows'[cur.cid] = rows[cur.cid]
      BY <1>2, <2>2
    <3>2. PICK i \in ItemIds : i # cur.item /\ TellsOfDelete(i, cur.cid)
      BY <3>1 DEF DeletesInv, LaterDeleteIsQueued
    <3>3. queue'[i] = queue[i]
      BY <3>2 DEF TellsOfDelete, Readable, Queued
    <3> QED
      BY <3>1, <3>2, <3>3 DEF TellsOfDelete, Readable, Queued
  <2> QED
    BY <2>1, <2>2
<1>7. ActionFits'
  <2> SUFFICES ASSUME Busy
               PROVE  /\ cur.act = "DROP" => /\ queue'[cur.item].op # "delete"
                                             /\ rows'[cur.cid].state = "absent"
                      /\ cur.act = "CONFIRM" => cur.remote = None
                      /\ cur.act = "DELETE" => cur.remote = cur.cid
    BY <1>1, <1>2 DEF ActionFits
  <2>1. queue'[cur.item] = queue[cur.item]
    BY <1>2
  <2>2. cur.cid = pk => rows[pk].state # "absent"
    BY <1>2
  <2> QED
    BY <1>2, <2>1, <2>2 DEF DeletesInv, ActionFits
<1>8. DeleteIsAnswered' /\ DeleteIsConfirmed'
  BY <1>1 DEF DeletesInv, DeleteIsAnswered, DeleteIsConfirmed
<1> QED
  BY <1>5, <1>6, <1>7, <1>8 DEF DeletesInv

\* A request is built from a live row; an item of a DELETE statement is never
\* dropped.
LEMMA ReadingDeletes ==
  ASSUME IdentityInv, DeletesInv, StartSession \/ EndSession \/ \E i \in ItemIds : TakeItem(i)
  PROVE  DeletesInv'
<1>1. UNCHANGED <<rows, queue, meta, server, reply>> /\ pc' \in {"idle", "items", "call", "local"}
  BY DEF StartSession, EndSession, TakeItem, storeVars, serverVars
<1>2. DeleteIsAnswered' /\ DeleteIsConfirmed'
  BY <1>1 DEF DeleteIsAnswered, DeleteIsConfirmed
<1>3. CASE StartSession \/ EndSession
  <2>1. ~Busy'
    BY <1>3 DEF StartSession, EndSession, Busy
  <2>2. DeletesAreQueued' /\ LaterDeleteIsQueued' /\ ActionFits'
    BY <1>1, <2>1, DeletesKept
  <2> QED
    BY <1>2, <2>2 DEF DeletesInv
<1>4. ASSUME NEW i \in ItemIds, TakeItem(i)
      PROVE  DeletesInv'
  <2> DEFINE remote == RemoteOf(i)
             cid == IF remote = None THEN batch[i].ent ELSE remote
             act == ActionFor(queue[i].op, rows[cid], remote)
  <2>1. /\ batch[i].todo
        /\ cur'.item = i /\ cur'.cid = cid /\ cur'.act = act /\ cur'.remote = remote
    BY <1>4 DEF TakeItem
  <2>2. cid \in Id
    <3>1. /\ batch[i].local \in Id /\ meta[batch[i].local].entity = queue[i].ent
          /\ meta[batch[i].local].remote = None => batch[i].ent = queue[i].ent
          /\ batch[i].local # None /\ queue[i].ent \in Id
      BY <2>1, IdsAssumption DEF IdentityInv, BatchResolves, TypeInv, ItemsAreQueued
    <3>2. remote = meta[batch[i].local].remote
      BY <3>1 DEF RemoteOf
    <3> QED
      BY <3>1, <3>2, RemoteFacts
  <2>3. rows[cid].state \in {"absent", "live", "tombstoned"}
    BY <2>2 DEF IdentityInv, TypeInv, TypeOK, StoreTypeOK, Row
  <2>4. /\ act \in {"POST", "PATCH"} => rows[cid].state = "live"
        /\ act = "DROP" => queue[i].op # "delete" /\ rows[cid].state = "absent"
        /\ act = "CONFIRM" => remote = None
        /\ act = "DELETE" => remote = cid
    <3>1. remote # None => remote = cid
      OBVIOUS
    <3> HIDE DEF cid, remote
    <3> QED
      BY <2>3, <3>1 DEF ActionFor
  <2> HIDE DEF remote, cid, act
  <2>5. LaterDeleteIsQueued' /\ ActionFits'
    BY <1>1, <2>1, <2>4 DEF LaterDeleteIsQueued, ActionFits
  <2>6. DeletesAreQueued'
    BY <1>1 DEF DeletesInv, DeletesAreQueued, TellsOfDelete, Readable, Queued
  <2> QED
    BY <1>2, <2>5, <2>6 DEF DeletesInv
<1> QED
  BY <1>3, <1>4

\* The item that goes is not the one that would have told the server, or the
\* server has been told.
LEMMA SettledDeletes ==
  ASSUME IdentityInv, DeletesInv, DropItem \/ MetadataFails \/ WriteNotFound \/ ApplyDelete
  PROVE  DeletesInv'
<1>1. Settled
  BY SettledFacts
<1> USE DEF Settled
<1>2. ~Busy' /\ pc' = "items"
  BY <1>1 DEF NextItem, Busy
<1>3. LaterDeleteIsQueued' /\ ActionFits' /\ DeleteIsAnswered' /\ DeleteIsConfirmed'
  BY <1>2 DEF LaterDeleteIsQueued, ActionFits, DeleteIsAnswered, DeleteIsConfirmed
<1>4. DeletesAreQueued'
  <2> SUFFICES ASSUME NEW l \in Id, meta[l].remote # None,
                      server[meta[l].remote].state = "live",
                      rows[meta[l].entity].state # "live"
               PROVE  \E i \in ItemIds :
                        /\ queue'[i].status \in {"PENDING", "FAILED"} /\ queue'[i].ent = meta[l].entity
                        /\ rows[meta[l].entity].state = "absent" => queue'[i].op = "delete"
    BY <1>1 DEF DeletesAreQueued, TellsOfDelete, Readable, Queued
  <2>1. PICK i \in ItemIds : TellsOfDelete(i, meta[l].entity)
    BY DEF DeletesInv, DeletesAreQueued
  <2>2. CASE i # cur.item
    <3>1. queue'[i] = queue[i]
      BY <1>1, <2>2
    <3> QED
      BY <2>1, <3>1 DEF TellsOfDelete, Readable, Queued
  <2>3. CASE queue' = queue
    BY <1>1, <2>1, <2>3 DEF TellsOfDelete, Readable
  <2>4. CASE i = cur.item /\ queue'[cur.item].status = "BLOCKED" /\ queue' # queue
    <3>1. meta[l].entity = cur.cid /\ cur.act \in {"POST", "PATCH"}
      BY <1>1, <2>1, <2>4 DEF TellsOfDelete
    <3>2. PICK j \in ItemIds : j # cur.item /\ TellsOfDelete(j, cur.cid)
      BY <1>1, <3>1 DEF DeletesInv, LaterDeleteIsQueued
    <3>3. queue'[j] = queue[j]
      BY <1>1, <3>2
    <3> QED
      BY <3>1, <3>2, <3>3 DEF TellsOfDelete, Readable
  <2>5. CASE i = cur.item /\ queue'[cur.item].status = "NONE" /\ queue' # queue
    <3>1. cur.act \in {"DROP", "CONFIRM", "DELETE"}
      BY <1>1, <2>5
    <3>2. l = cur.local /\ cur.cid = meta[l].entity
      <4>1. meta[l].entity = cur.cid /\ meta[l].entity # None
        BY <1>1, <2>1, <2>5, RemoteFacts, IdsAssumption DEF TellsOfDelete
      <4> QED
        BY <1>1, <4>1 DEF IdentityInv, IdentityAgrees, EntitiesAreUnique
    <3>3. cur.remote = meta[l].remote
      BY <1>1, <3>2 DEF IdentityInv, CurrentResolves
    <3>4. CASE cur.act = "DROP"
      <4>1. queue[cur.item].op # "delete" /\ rows[cur.cid].state = "absent"
        BY <1>1, <3>4 DEF DeletesInv, ActionFits
      <4>2. queue[i].op = "delete"
        BY <2>1, <3>2, <4>1 DEF TellsOfDelete
      <4> QED
        BY <2>5, <4>1, <4>2
    <3>5. CASE cur.act = "CONFIRM"
      BY <1>1, <3>3, <3>5 DEF DeletesInv, ActionFits
    <3>6. CASE cur.act = "DELETE"
      <4>1. pc = "apply"
        BY <1>1, <2>5, <3>6
      <4>2. server[cur.cid].state # "live"
        BY <3>6, <4>1 DEF DeletesInv, DeleteIsConfirmed, DeleteIsAnswered
      <4> QED
        BY <3>2, <4>2, RemoteFacts
    <3> QED
      BY <3>1, <3>4, <3>5, <3>6
  <2> QED
    BY <1>1, <2>2, <2>3, <2>5, <2>4
<1> QED
  BY <1>3, <1>4 DEF DeletesInv

\* A failed item still tells of what it told of.
LEMMA ItemFailedDeletes ==
  ASSUME IdentityInv, DeletesInv, BodyFails \/ RequestFails
  PROVE  DeletesInv'
<1>1. ItemFailed
  BY ItemFailedFacts DEF IdentityInv
<1>2. /\ UNCHANGED <<rows, meta, server, cur>> /\ Busy /\ pc' = "failed"
      /\ \A i \in ItemIds : queue'[i].ent = queue[i].ent /\ queue'[i].op = queue[i].op
      /\ \A i \in ItemIds : queue[i].status \in {"PENDING", "FAILED"}
                           => queue'[i].status \in {"PENDING", "FAILED"}
      /\ cur.item \in ItemIds
  BY <1>1 DEF ItemFailed
<1>3. \A i \in ItemIds : \A pk : TellsOfDelete(i, pk) =>
        /\ queue'[i].status \in {"PENDING", "FAILED"} /\ queue'[i].ent = pk
        /\ rows'[pk].state = "absent" => queue'[i].op = "delete"
  BY <1>2 DEF TellsOfDelete, Readable
<1>4. DeletesAreQueued' /\ LaterDeleteIsQueued'
  BY <1>2, <1>3 DEF DeletesInv, DeletesAreQueued, LaterDeleteIsQueued, TellsOfDelete, Readable, Busy
<1>5. ActionFits' /\ DeleteIsAnswered' /\ DeleteIsConfirmed'
  BY <1>2 DEF DeletesInv, ActionFits, DeleteIsAnswered, DeleteIsConfirmed
<1> QED
  BY <1>4, <1>5 DEF DeletesInv

LEMMA BeginApplyDeletes == ASSUME IdentityInv, DeletesInv, BeginApply PROVE DeletesInv'
<1>1. /\ UNCHANGED <<rows, queue, meta, server, cur, reply>> /\ Busy /\ pc' = "apply"
  BY DEF BeginApply, NeedsApply, Busy, serverVars
<1>2. DeletesAreQueued' /\ LaterDeleteIsQueued' /\ ActionFits'
  BY <1>1, DeletesKept
<1>3. DeleteIsConfirmed'
  BY <1>1 DEF BeginApply, NeedsApply, DeleteIsConfirmed
<1>4. DeleteIsAnswered'
  BY <1>1 DEF BeginApply, NeedsApply, DeletesInv, DeleteIsAnswered
<1> QED
  BY <1>2, <1>3, <1>4 DEF DeletesInv

\* A row deleted while its request was under way takes the item of the delete
\* along to its new id.
LEMMA ReplaceDeletes == ASSUME IdentityInv, DeletesInv, ApplyWrite PROVE DeletesInv'
<1> DEFINE old == OldEntity
           new == ResolvedEntity
           L == cur.local
<1>1. /\ Replaced(old, new, L) /\ Busy /\ cur.act \in {"POST", "PATCH"}
      /\ pc' = "items"
  BY ReplaceFacts DEF ApplyWrite, EndApply, NextItem, Busy
<1> HIDE DEF old, new, L
<1> USE DEF Replaced
<1>2. LaterDeleteIsQueued' /\ ActionFits' /\ DeleteIsAnswered' /\ DeleteIsConfirmed'
  BY <1>1 DEF LaterDeleteIsQueued, ActionFits, DeleteIsAnswered, DeleteIsConfirmed, Busy
<1>3. DeletesAreQueued'
  <2> SUFFICES ASSUME NEW l \in Id, meta'[l].remote # None,
                      server[meta'[l].remote].state = "live",
                      rows'[meta'[l].entity].state # "live"
               PROVE  \E i \in ItemIds :
                        /\ queue'[i].status \in {"PENDING", "FAILED"} /\ queue'[i].ent = meta'[l].entity
                        /\ rows'[meta'[l].entity].state = "absent" => queue'[i].op = "delete"
    BY <1>1 DEF DeletesAreQueued, TellsOfDelete, Readable, Queued
  <2>1. CASE l = L
    <3>1. meta'[l].entity = new /\ rows'[new] = rows[old] /\ rows[old].state # "live"
      BY <1>1, <2>1
    <3>2. PICK i \in ItemIds : i # cur.item /\ TellsOfDelete(i, old)
      BY <1>1, <3>1 DEF DeletesInv, LaterDeleteIsQueued
    <3>3. /\ queue'[i].status \in {"PENDING", "FAILED"} /\ queue'[i].ent = new /\ queue'[i].op = queue[i].op
      BY <1>1, <3>2 DEF TellsOfDelete, Readable, Queued
    <3> QED
      BY <3>1, <3>2, <3>3 DEF TellsOfDelete
  <2>2. CASE l # L
    <3>1. meta'[l] = meta[l] /\ meta[l].entity # old /\ meta[l].entity # new
      BY <1>1, <2>2
    <3>2. meta[l].entity \in Id
      BY <3>1, RemoteFacts
    <3>3. rows'[meta[l].entity] = rows[meta[l].entity]
      BY <1>1, <3>1, <3>2
    <3>4. PICK i \in ItemIds : TellsOfDelete(i, meta[l].entity)
      BY <3>1, <3>3 DEF DeletesInv, DeletesAreQueued
    <3>5. /\ queue'[i].status \in {"PENDING", "FAILED"} /\ queue'[i].ent = queue[i].ent
          /\ queue'[i].op = queue[i].op
      BY <1>1, <3>1, <3>4 DEF TellsOfDelete, Readable, Queued
    <3> QED
      BY <3>1, <3>3, <3>4, <3>5 DEF TellsOfDelete
  <2> QED
    BY <2>1, <2>2
<1> QED
  BY <1>2, <1>3 DEF DeletesInv

\* The server answers a DELETE when it no longer shows the row; a row it creates
\* is nobody's yet.
LEMMA ServerDeletes == ASSUME IdentityInv, DeletesInv, Server PROVE DeletesInv'
<1>1. /\ pc = "call" /\ pc' = "reply" /\ UNCHANGED <<rows, queue, meta, cur>> /\ Busy /\ Busy'
  BY DEF Server, ServerCreate, ServerUpdate, ServerRemove, ServerNotFound, CreateNotFound,
         ServerError, Answer,
         storeVars, Busy
<1>2. server \in [ServerIds -> ServerRow]
  BY DEF IdentityInv, TypeInv, TypeOK
<1>3. cur.act = "DELETE" => cur.cid \in ServerIds
  <2>1. /\ cur.local \in Id /\ cur.remote = meta[cur.local].remote
        /\ meta[cur.local].entity = cur.cid /\ cur.cid \in Id
    BY <1>1 DEF IdentityInv, TypeInv, ItemsAreQueued, CurrentResolves
  <2>2. cur.act = "DELETE" => cur.remote = cur.cid /\ cur.cid # None
    BY <1>1, <2>1, IdsAssumption DEF DeletesInv, ActionFits
  <2> QED
    BY <2>1, <2>2, RemoteFacts
<1>5. DeletesAreQueued' /\ LaterDeleteIsQueued' /\ ActionFits'
  <2>1. \A l \in Id : meta[l].remote # None /\ server'[meta[l].remote].state = "live"
          => server[meta[l].remote].state = "live"
    BY RemoteFacts, ServerRevivesNone DEF IdentityInv
  <2> QED
    BY <1>1, <2>1, DeletesKept
<1>6. DeleteIsAnswered'
  <2> SUFFICES ASSUME cur.act = "DELETE", reply'.code \in {"ok", "notfound"}
               PROVE  cur.cid \in ServerIds /\ server'[cur.cid].state # "live"
    BY <1>1 DEF DeleteIsAnswered
  <2>1. CASE ServerRemove
    BY <1>2, <1>3, <2>1 DEF ServerRemove, ServerRow
  <2>2. CASE ServerNotFound
    BY <1>3, <2>2 DEF ServerNotFound, Alive, serverVars
  <2>3. ServerRemove \/ ServerNotFound
    BY DEF Server, ServerCreate, ServerUpdate, CreateNotFound, ServerError, Answer
  <2> QED
    BY <2>1, <2>2, <2>3
<1>7. DeleteIsConfirmed'
  BY <1>1 DEF DeleteIsConfirmed
<1> QED
  BY <1>5, <1>6, <1>7 DEF DeletesInv

LEMMA EnvironmentDeletes == ASSUME IdentityInv, DeletesInv, Environment PROVE DeletesInv'
<1>1. CASE NetworkFailure \/ Crash
  <2>1. /\ UNCHANGED <<rows, queue, meta, server>> /\ reply' = NoReply /\ pc' \in {"idle", "call"}
    <3>1. CASE NetworkFailure
      BY <3>1 DEF NetworkFailure, storeVars, serverVars
    <3>2. CASE Crash
      BY <3>2 DEF Crash, serverVars, IdentityInv, LockIsApply
    <3> QED
      BY <1>1, <3>1, <3>2
  <2>2. ~Busy' \/ (Busy /\ cur'.item = cur.item /\ cur'.cid = cur.cid /\ cur'.act = cur.act
                        /\ cur'.remote = cur.remote)
    <3>1. cur \in Current
      BY DEF IdentityInv, TypeInv, TypeOK
    <3>2. \/ pc' = "idle"
          \/ pc \in {"call", "reply"} /\ cur' = [cur EXCEPT !.tries = @ + 1]
      BY <1>1 DEF NetworkFailure, Crash
    <3> QED
      BY <3>1, <3>2 DEF Busy, Current
  <2>3. DeletesAreQueued' /\ LaterDeleteIsQueued' /\ ActionFits'
    BY <2>1, <2>2, DeletesKept
  <2>4. DeleteIsAnswered' /\ DeleteIsConfirmed'
    BY <2>1 DEF DeleteIsAnswered, DeleteIsConfirmed
  <2> QED
    BY <2>3, <2>4 DEF DeletesInv
<1>2. ASSUME NEW s \in ServerIds, ForeignDelete(s)
      PROVE  DeletesInv'
  <2>1. UNCHANGED <<rows, queue, meta, pc, cur, reply>>
    BY <1>2 DEF ForeignDelete, storeVars, sessionVars
  <2>2. server \in [ServerIds -> ServerRow]
    BY DEF IdentityInv, TypeInv, TypeOK
  <2>3. \A t \in ServerIds : server'[t].state = "live" => server[t].state = "live"
    BY <1>2, <2>2 DEF ForeignDelete, ServerRow
  <2>4. DeletesAreQueued' /\ LaterDeleteIsQueued' /\ ActionFits'
    BY <2>1, <2>3, RemoteFacts, DeletesKept DEF Busy
  <2>5. DeleteIsAnswered' /\ DeleteIsConfirmed'
    BY <2>1, <2>3 DEF DeletesInv, DeleteIsAnswered, DeleteIsConfirmed
  <2> QED
    BY <2>4, <2>5 DEF DeletesInv
<1> QED
  BY <1>1, <1>2 DEF Environment

LEMMA StepDeletes ==
  ASSUME Isolated
  PROVE  IdentityInv /\ DeletesInv /\ [Next]_vars => DeletesInv'
<1> SUFFICES ASSUME IdentityInv, DeletesInv, [Next]_vars PROVE DeletesInv'
  OBVIOUS
<1>1. CASE App
  BY <1>1, AppDeletes
<1>2. CASE Session
  <2>1. \A moved \in BOOLEAN : ~ApplyWriteFails(moved)
    BY DEF Isolated, ApplyWriteFails
  <2> QED
    BY <1>2, <2>1, ReadingDeletes, SettledDeletes, ItemFailedDeletes, BeginApplyDeletes,
       ReplaceDeletes DEF Session
<1>3. CASE Server
  BY <1>3, ServerDeletes
<1>4. CASE Environment
  BY <1>4, EnvironmentDeletes
<1>5. CASE UNCHANGED vars
  BY <1>5 DEF DeletesInv, DeletesAreQueued, LaterDeleteIsQueued, ActionFits, DeleteIsAnswered,
              DeleteIsConfirmed, TellsOfDelete, Readable, Queued, Busy, vars, storeVars,
              sessionVars, serverVars
<1> QED
  BY <1>1, <1>2, <1>3, <1>4, <1>5 DEF Next

\* No delete is lost, for any number of rows, writes, faults and sessions: while
\* the server still shows a row whose id the device knows and whose row the device
\* has deleted, an item is queued to delete it.
THEOREM QuietDeletesCorrect == ASSUME Isolated PROVE Spec => []QuietDeletesAgree
<1>1. Init => IdentityInv /\ DeletesInv
  BY InitIdentity, InitDeletes
<1>2. IdentityInv /\ DeletesInv /\ [Next]_vars => (IdentityInv /\ DeletesInv)'
  BY StepIdentity, StepDeletes
<1>3. DeletesInv => QuietDeletesAgree
  BY DEF DeletesInv, DeletesAreQueued, TellsOfDelete, QuietDeletesAgree, Quiet, Readable
<1> QED
  BY <1>1, <1>2, <1>3, PTL DEF Spec

=============================================================================
