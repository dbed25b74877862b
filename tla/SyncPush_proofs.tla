-------------------------- MODULE SyncPush_proofs ---------------------------
(***************************************************************************)
(* Theorems about SyncPush, for every set of ids, every bound and every    *)
(* number of faults.                                                       *)
(***************************************************************************)
EXTENDS SyncPushInvariant, TLAPS

-----------------------------------------------------------------------------
(* Type correctness.                                                       *)

\* The triggers' upsert leaves a well-typed metadata table in which nothing
\* about remote ids has changed.
LEMMA UpsertTyped ==
  ASSUME meta \in [Id -> MetaRow], NEW pk \in Id,
         NEW st \in {"PENDING", "DELETED"}
  PROVE  MetaUpsert(pk, st) \in [Id -> MetaRow]
BY DEF MetaUpsert, MetaRow, Id

LEMMA InitTyped == Init => TypeInv
<1> SUFFICES ASSUME Init PROVE TypeInv
  OBVIOUS
<1> USE DEF Init, StoreInit
<1>1. StoreTypeOK
  <2>1. rows \in [Id -> Row]
    BY DEF AbsentRow, Row
  <2>2. queue \in [ItemIds -> Item]
    BY DEF NoItem, Item
  <2>3. meta \in [Id -> MetaRow]
    BY DEF NoMeta, MetaRow
  <2>4. applyLock \in BOOLEAN
    OBVIOUS
  <2>5. nextItem \in Nat \ {0} /\ writes \in Nat \ {0} /\ clock \in Nat
    OBVIOUS
  <2> QED
    BY <2>1, <2>2, <2>3, <2>4, <2>5, Zenon DEF StoreTypeOK
<1>2. TypeOK
  BY <1>1 DEF Init, TypeOK, AbsentServerRow, ServerRow, EmptyBatch, NotPending, Pending,
              NoCurrent, Current, Action, NoReply, Reply, AbsentRow, Row
<1> QED
  BY <1>2 DEF Init, StoreInit, TypeInv, RemoteIsEntity, EchoHasId, PatchIsKnown,
              PostIsEchoed, ItemsAreQueued, Queued, Busy, NoMeta, NoReply,
              NoItem, EmptyBatch, NotPending

\* A statement of the application, with its trigger, keeps the store's
\* bookkeeping well typed and every recorded remote id where it is.
LEMMA WriteTyped ==
  ASSUME TypeInv, NEW pk \in Id,
         NEW op \in {"insert", "update", "delete"},
         NEW st \in {"PENDING", "DELETED"},
         Write(op, pk, st)
  PROVE  /\ queue' \in [ItemIds -> Item]
         /\ nextItem' \in Nat \ {0}
         /\ meta' \in [Id -> MetaRow]
         /\ applyLock' = applyLock
         /\ writes' \in Nat \ {0}
         /\ \A l \in Id : /\ meta'[l].remote = meta[l].remote
                          /\ meta[l].remote # None => meta'[l].entity = meta[l].entity
         /\ \A i \in ItemIds : Queued(i) => Queued(i)'
         /\ \A i \in ItemIds : Queued(i)' => queue'[i].ent \in Id
<1> USE DEF TypeInv, TypeOK, StoreTypeOK, Write, ItemsAreQueued
<1>1. applyLock' = applyLock /\ writes' \in Nat \ {0}
  OBVIOUS
<1>2. CASE applyLock
  <2>1. UNCHANGED <<queue, nextItem, meta>>
    BY <1>2 DEF Triggered
  <2> QED
    BY <1>1, <2>1 DEF Queued
<1>3. CASE ~applyLock
  <2>1. queue' \in [ItemIds -> Item]
    BY <1>3 DEF Triggered, Item
  <2>2. nextItem' \in Nat \ {0}
    BY <1>3 DEF Triggered
  <2>3. meta' = MetaUpsert(pk, st)
    BY <1>3 DEF Triggered
  <2>4. meta' \in [Id -> MetaRow]
    BY <2>3, UpsertTyped
  <2>5. ASSUME NEW l \in Id
        PROVE  /\ meta'[l].remote = meta[l].remote
               /\ meta[l].remote # None => meta'[l].entity = meta[l].entity
    <3>1. meta[pk].entity = None => meta[pk].remote = None
      BY IdsAssumption DEF RemoteIsEntity, Id
    <3>2. CASE \E m \in Id : meta[m].entity = pk
      BY <2>3, <3>2 DEF MetaUpsert
    <3>3. CASE ~\E m \in Id : meta[m].entity = pk
      BY <1>3, <2>3, <3>1, <3>3 DEF MetaUpsert, TriggerAccepts
    <3> QED
      BY <3>2, <3>3
  <2>6. \A i \in ItemIds : /\ Queued(i) => Queued(i)'
                           /\ Queued(i)' => queue'[i].ent \in Id
    BY <1>3 DEF Triggered, Queued
  <2> QED
    BY <1>1, <2>1, <2>2, <2>4, <2>5, <2>6
<1> QED
  BY <1>2, <1>3

LEMMA RowStamped ==
  ASSUME NEW r \in Row, NEW v \in Nat, NEW t \in Nat
  PROVE  [r EXCEPT !.ver = v, !.ts = t] \in Row
BY DEF Row

\* One statement of the application.
LEMMA AppTyped == TypeInv /\ App => TypeInv'
<1> SUFFICES ASSUME TypeInv, App PROVE TypeInv'
  OBVIOUS
<1> PICK pk \in Id : Insert(pk) \/ Update(pk) \/ SoftDelete(pk) \/ HardDelete(pk)
  BY DEF App, AppWrite
<1>1. PICK o \in {"insert", "update", "delete"}, st \in {"PENDING", "DELETED"} : Write(o, pk, st)
  <2>1. CASE Insert(pk)
    BY <2>1 DEF Insert
  <2>2. CASE Update(pk)
    <3>1. CASE rows[pk].state = "tombstoned"
      BY <2>2, <3>1 DEF Update
    <3>2. CASE rows[pk].state # "tombstoned"
      BY <2>2, <3>2 DEF Update
    <3> QED
      BY <3>1, <3>2
  <2>3. CASE SoftDelete(pk)
    BY <2>3 DEF SoftDelete
  <2>4. CASE HardDelete(pk)
    BY <2>4 DEF HardDelete
  <2> QED
    BY <2>1, <2>2, <2>3, <2>4
<1>2. /\ queue' \in [ItemIds -> Item] /\ nextItem' \in Nat \ {0}
      /\ meta' \in [Id -> MetaRow] /\ applyLock' = applyLock /\ writes' \in Nat \ {0}
      /\ \A l \in Id : /\ meta'[l].remote = meta[l].remote
                       /\ meta[l].remote # None => meta'[l].entity = meta[l].entity
      /\ \A i \in ItemIds : Queued(i) => Queued(i)'
      /\ \A i \in ItemIds : Queued(i)' => queue'[i].ent \in Id
  BY <1>1, WriteTyped
<1>3. clock' \in Nat /\ rows' \in [Id -> Row]
  <2> USE DEF TypeInv, TypeOK, StoreTypeOK
  <2>1. CASE Insert(pk)
    <3>1. clock' \in Nat
      BY <2>1 DEF Insert, Stamp
    <3> QED
      BY <2>1, <3>1 DEF Insert, Row
  <2>2. CASE Update(pk)
    <3>1. clock' \in Nat
      BY <2>2 DEF Update, Stamp
    <3>2. CASE rows' = [rows EXCEPT ![pk].ver = writes, ![pk].ts = clock']
      <4>1. rows \in [Id -> Row] /\ writes \in Nat
        OBVIOUS
      <4>2. [rows[pk] EXCEPT !.ver = writes, !.ts = clock'] \in Row
        BY <3>1, <4>1, RowStamped
      <4>3. rows' = [rows EXCEPT ![pk] = [rows[pk] EXCEPT !.ver = writes, !.ts = clock']]
        BY <3>2, <4>1
      <4> QED
        BY <3>1, <4>1, <4>2, <4>3
    <3>3. CASE rows' = [rows EXCEPT ![pk].ver = writes]
      BY <3>1, <3>3 DEF Row
    <3> QED
      BY <2>2, <3>2, <3>3 DEF Update
  <2>3. CASE SoftDelete(pk)
    BY <2>3 DEF SoftDelete, Row
  <2>4. CASE HardDelete(pk)
    BY <2>4 DEF HardDelete, Row, AbsentRow
  <2> QED
    BY <2>1, <2>2, <2>3, <2>4
<1>4. UNCHANGED <<sessionVars, serverVars, disturbances, uncertain>>
  BY DEF App
<1>5. StoreTypeOK'
  BY <1>2, <1>3 DEF StoreTypeOK, TypeInv, TypeOK
<1>6. TypeOK'
  BY <1>4, <1>5 DEF TypeInv, TypeOK, sessionVars, serverVars
<1> QED
  BY <1>2, <1>4, <1>6 DEF TypeInv, TypeOK, Current, RemoteIsEntity, EchoHasId, PatchIsKnown,
     PostIsEchoed, ItemsAreQueued, Busy, sessionVars

\* Reading the queue and ending a session.
LEMMA ReadingTyped ==
  ASSUME TypeInv,
         StartSession \/ EndSession \/ \E i \in ItemIds : TakeItem(i)
  PROVE  TypeInv'
<1> USE DEF TypeInv, TypeOK
<1>1. CASE StartSession
  <2>1. UNCHANGED <<storeVars, serverVars, cur, reply, saved, disturbances, uncertain>> /\ pc' = "items"
    BY <1>1 DEF StartSession
  <2>2. batch' \in [ItemIds -> Pending]
    BY <1>1 DEF StartSession, StoreTypeOK, LocalIdOf, Item, Pending, NotPending
  <2>3. TypeOK'
    BY <2>1, <2>2 DEF StoreTypeOK, storeVars, serverVars
  <2>4. ItemsAreQueued'
    <3>1. ASSUME NEW i \in ItemIds, batch'[i].todo
          PROVE  Queued(i) /\ batch'[i].ent \in Id
      <4>1. i \in FirstReadable(PushLimit) /\ batch'[i].ent = queue[i].ent
        BY <1>1, <3>1 DEF StartSession, NotPending
      <4>2. Queued(i)
        BY <4>1 DEF FirstReadable, Readable, Queued
      <4> QED
        BY <4>1, <4>2 DEF ItemsAreQueued
    <3> QED
      BY <2>1, <3>1 DEF ItemsAreQueued, Queued, Busy, storeVars
  <2> QED
    BY <2>1, <2>3, <2>4 DEF RemoteIsEntity, EchoHasId, PatchIsKnown, PostIsEchoed, Busy, storeVars
<1>2. CASE EndSession
  <2>1. UNCHANGED <<storeVars, serverVars, batch, cur, reply, saved, disturbances, uncertain>> /\ pc' = "idle"
    BY <1>2 DEF EndSession
  <2>2. TypeOK'
    BY <2>1 DEF StoreTypeOK, storeVars, serverVars
  <2> QED
    BY <2>1, <2>2 DEF RemoteIsEntity, EchoHasId, PatchIsKnown, PostIsEchoed, ItemsAreQueued,
       Queued, Busy, storeVars
<1>3. ASSUME NEW i \in ItemIds, TakeItem(i)
      PROVE  TypeInv'
  <2> DEFINE remote == RemoteOf(i)
             cid == IF remote = None THEN batch[i].ent ELSE remote
             act == ActionFor(queue[i].op, rows[cid], remote)
  <2>1. /\ UNCHANGED <<storeVars, serverVars, reply, saved, disturbances, uncertain>>
        /\ batch' = [batch EXCEPT ![i] = NotPending]
        /\ pc' = IF act \in {"POST", "PATCH", "DELETE"} THEN "call" ELSE "local"
        /\ cur' = [item |-> i,
                   local |-> IF batch[i].local = None THEN batch[i].ent ELSE batch[i].local,
                   cid |-> cid, remote |-> remote, act |-> act,
                   ver |-> rows[cid].ver, tries |-> 0]
    BY <1>3 DEF TakeItem
  <2>2. batch[i].local \in Id \cup {None} /\ batch[i].ent \in Id /\ Queued(i)
    BY <1>3 DEF Pending, TakeItem, ItemsAreQueued
  <2>3. remote \in ServerIds \cup {None}
    BY <2>2 DEF RemoteOf, StoreTypeOK, MetaRow
  <2>4. remote # None => batch[i].local \in Id /\ meta[batch[i].local].remote # None
    BY <2>2 DEF RemoteOf
  <2>5. act \in {"POST", "PATCH", "DELETE", "CONFIRM", "DROP", "FAIL"}
        /\ (act = "PATCH" => remote # None)
    BY DEF ActionFor
  <2>6. cid \in Id /\ rows[cid].ver \in Nat
    BY <2>2, <2>3 DEF Id, StoreTypeOK, Row
  <2> HIDE DEF remote, cid, act
  <2>7. cur' \in Current
    BY <2>1, <2>2, <2>3, <2>5, <2>6 DEF Current, Action, Id
  <2>8. batch' \in [ItemIds -> Pending]
    BY <2>1 DEF Pending, NotPending
  <2>9. TypeOK'
    BY <2>1, <2>7, <2>8 DEF StoreTypeOK, storeVars, serverVars
  <2>10. RemoteIsEntity' /\ EchoHasId' /\ PostIsEchoed'
    BY <2>1 DEF RemoteIsEntity, EchoHasId, PostIsEchoed, storeVars
  <2>11. PatchIsKnown'
    BY <2>1, <2>2, <2>4, <2>5, IdsAssumption DEF PatchIsKnown, storeVars
  <2>12. ItemsAreQueued'
    BY <2>1, <2>2 DEF ItemsAreQueued, Queued, storeVars, NotPending
  <2> QED
    BY <2>9, <2>10, <2>11, <2>12
<1> QED
  BY <1>1, <1>2, <1>3

\* Finishing the current item: what is left to show of a step that does.
LEMMA NextItemTyped ==
  ASSUME TypeInv, Busy, NextItem,
         UNCHANGED <<nextItem, writes, clock, batch, serverVars>>,
         rows' \in [Id -> Row], applyLock' \in BOOLEAN, saved' \in [Id -> Row],
         disturbances' \in Nat, uncertain' \subseteq Id \cup {None},
         queue' \in [ItemIds -> Item],
         \A i \in ItemIds : i # cur.item /\ Queued(i) => Queued(i)',
         \A i \in ItemIds : Queued(i)' => queue'[i].ent \in Id,
         meta' \in [Id -> MetaRow], RemoteIsEntity'
  PROVE  TypeInv'
<1> USE DEF TypeInv, TypeOK
<1>1. pc' = "items" /\ cur' = NoCurrent /\ reply' = NoReply
  BY DEF NextItem
<1>2. cur' \in Current /\ reply' \in Reply
  BY <1>1 DEF NoCurrent, NoReply, Current, Reply, Action
<1>3. StoreTypeOK'
  BY DEF StoreTypeOK
<1>4. TypeOK'
  BY <1>1, <1>2, <1>3 DEF serverVars
<1>5. ItemsAreQueued'
  BY <1>1 DEF ItemsAreQueued, Busy
<1> QED
  BY <1>1, <1>4, <1>5 DEF EchoHasId, PatchIsKnown, PostIsEchoed, NoReply, Busy

\* Removing an item, or giving it another status, disturbs no other item.
LEMMA ItemEdits ==
  ASSUME TypeInv, NEW i \in ItemIds, Queued(i), NEW st \in {"FAILED", "BLOCKED"}
  PROVE  /\ WithoutItem(queue, i) \in [ItemIds -> Item]
         /\ WithStatus(queue, i, st) \in [ItemIds -> Item]
         /\ \A j \in ItemIds \ {i} : /\ WithoutItem(queue, i)[j] = queue[j]
                                     /\ WithStatus(queue, i, st)[j] = queue[j]
         /\ WithoutItem(queue, i)[i].status = "NONE"
         /\ WithStatus(queue, i, st)[i].status = st
         /\ WithStatus(queue, i, st)[i].ent = queue[i].ent
BY DEF TypeInv, TypeOK, StoreTypeOK, WithoutItem, WithStatus, NoItem, Item

LEMMA MarkFailedTyped ==
  ASSUME TypeInv, NEW l \in Id \cup {None}
  PROVE  /\ MarkFailed(l) \in [Id -> MetaRow]
         /\ \A m \in Id : /\ MarkFailed(l)[m].remote = meta[m].remote
                          /\ MarkFailed(l)[m].entity = meta[m].entity
<1>1. meta \in [Id -> MetaRow]
  BY DEF TypeInv, TypeOK, StoreTypeOK
<1>2. MarkFailed(l) \in {meta, [meta EXCEPT ![l].status = "FAILED"]}
  BY DEF MarkFailed
<1>3. [meta EXCEPT ![l].status = "FAILED"] \in [Id -> MetaRow]
  BY <1>1 DEF MetaRow
<1>4. ASSUME NEW m \in Id
      PROVE  /\ [meta EXCEPT ![l].status = "FAILED"][m].remote = meta[m].remote
             /\ [meta EXCEPT ![l].status = "FAILED"][m].entity = meta[m].entity
  BY <1>1 DEF MetaRow
<1> QED
  BY <1>1, <1>2, <1>3, <1>4

\* An item that fails keeps its place in the queue and the session's hold on it.
ItemFailed ==
  /\ Busy /\ pc' = "failed"
  /\ cur.item \in ItemIds /\ Queued(cur.item)
  /\ \A i \in ItemIds : i # cur.item => queue'[i] = queue[i]
  /\ queue' \in [ItemIds -> Item]
  /\ queue'[cur.item].status = "FAILED"
  /\ queue'[cur.item].ent = queue[cur.item].ent /\ queue'[cur.item].op = queue[cur.item].op
  /\ UNCHANGED <<rows, nextItem, meta, applyLock, writes, clock, server, lastTick,
                 batch, cur, reply, saved, disturbances>>
  /\ UNCHANGED uncertain \/ Unsure
  /\ PostUnanswered => Unsure
  /\ pc \in {"local", "reply"}

LEMMA ItemFailedFacts == ASSUME TypeInv, BodyFails \/ RequestFails PROVE ItemFailed
<1>1. /\ pc' = "failed" /\ pc \in {"local", "reply"}
      /\ queue' = WithStatus(queue, cur.item, "FAILED")
      /\ UNCHANGED <<rows, nextItem, meta, applyLock, writes, clock, server, lastTick,
                     batch, cur, reply, saved, disturbances>>
      /\ UNCHANGED uncertain \/ Unsure
      /\ PostUnanswered => Unsure
  BY DEF BodyFails, RequestFails, FailItem, serverVars, PostUnanswered
<1>2. Busy /\ cur.item \in ItemIds /\ Queued(cur.item)
  BY <1>1 DEF TypeInv, ItemsAreQueued, Busy
<1>3. queue \in [ItemIds -> Item]
  BY DEF TypeInv, TypeOK, StoreTypeOK
<1>4. /\ queue' \in [ItemIds -> Item]
      /\ queue'[cur.item].status = "FAILED" /\ queue'[cur.item].ent = queue[cur.item].ent
      /\ \A i \in ItemIds : i # cur.item => queue'[i] = queue[i]
  BY <1>1, <1>2, ItemEdits
<1>5. queue'[cur.item].op = queue[cur.item].op
  BY <1>1, <1>2, <1>3 DEF WithStatus, Item
<1> QED
  BY <1>1, <1>2, <1>4, <1>5 DEF ItemFailed

LEMMA ItemFailedTyped == ASSUME TypeInv, BodyFails \/ RequestFails PROVE TypeInv'
<1>1. ItemFailed
  BY ItemFailedFacts
<1>2. /\ StoreTypeOK /\ cur \in Current /\ uncertain \subseteq Id \cup {None}
      /\ server \in [ServerIds -> ServerRow] /\ lastTick \in Nat /\ batch \in [ItemIds -> Pending]
      /\ reply \in Reply /\ saved \in [Id -> Row] /\ disturbances \in Nat
  BY DEF TypeInv, TypeOK
<1>3. uncertain' \subseteq Id \cup {None}
  <2>1. cur.local \in Id \cup {None}
    BY <1>2 DEF Current
  <2> QED
    BY <1>1, <1>2, <2>1 DEF ItemFailed, Unsure
<1>4. StoreTypeOK'
  BY <1>1, <1>2 DEF ItemFailed, StoreTypeOK
<1>5. TypeOK'
  BY <1>1, <1>2, <1>3, <1>4 DEF ItemFailed, TypeOK
<1>6. \A i \in ItemIds : Queued(i)' <=> Queued(i)
  BY <1>1 DEF ItemFailed, Queued
<1>7. \A i \in ItemIds : queue'[i].ent = queue[i].ent
  BY <1>1 DEF ItemFailed
<1>8. ItemsAreQueued'
  BY <1>1, <1>6, <1>7 DEF ItemFailed, TypeInv, ItemsAreQueued, Busy
<1> QED
  BY <1>1, <1>5, <1>8
     DEF ItemFailed, TypeInv, RemoteIsEntity, EchoHasId, PatchIsKnown, PostIsEchoed, Busy

\* Items settled without the apply transaction.
LEMMA SettledTyped ==
  ASSUME TypeInv, DropItem \/ MetadataFails \/ WriteNotFound
  PROVE  TypeInv'
<1>0. /\ rows \in [Id -> Row] /\ applyLock \in BOOLEAN /\ saved \in [Id -> Row]
      /\ disturbances \in Nat /\ uncertain \subseteq Id \cup {None}
      /\ meta \in [Id -> MetaRow] /\ queue \in [ItemIds -> Item]
      /\ RemoteIsEntity /\ ItemsAreQueued
  BY DEF TypeInv, TypeOK, StoreTypeOK
<1>1. cur.item \in ItemIds /\ Queued(cur.item) /\ queue[cur.item].ent \in Id /\ Busy
  BY <1>0 DEF DropItem, MetadataFails, WriteNotFound, ItemsAreQueued, Busy
<1>2. cur.local \in Id \cup {None}
  BY DEF TypeInv, TypeOK, Current
<1>3. CASE DropItem
  <2>1. queue' = WithoutItem(queue, cur.item) /\ UNCHANGED <<rows, meta, applyLock, saved, disturbances, uncertain>>
        /\ NextItem /\ UNCHANGED <<nextItem, writes, clock, batch, serverVars>>
    BY <1>3 DEF DropItem
  <2>2. /\ queue' \in [ItemIds -> Item]
        /\ \A i \in ItemIds : i # cur.item /\ Queued(i) => Queued(i)'
        /\ \A i \in ItemIds : Queued(i)' => queue'[i].ent \in Id
    BY <1>0, <1>1, <2>1, ItemEdits DEF Queued, ItemsAreQueued
  <2>3. RemoteIsEntity'
    BY <1>0, <2>1 DEF RemoteIsEntity
  <2>4. /\ rows' \in [Id -> Row] /\ applyLock' \in BOOLEAN /\ saved' \in [Id -> Row]
        /\ disturbances' \in Nat /\ uncertain' \subseteq Id \cup {None}
        /\ meta' \in [Id -> MetaRow]
    BY <1>0, <2>1
  <2> QED
    BY <1>1, <2>1, <2>2, <2>3, <2>4, NextItemTyped
<1>4. CASE MetadataFails
  <2>1. meta' = MarkFailed(cur.local)
        /\ NextItem /\ UNCHANGED <<rows, queue, applyLock, saved, disturbances, uncertain,
                                   nextItem, writes, clock, batch, serverVars>>
    BY <1>4 DEF MetadataFails
  <2>2. /\ queue' \in [ItemIds -> Item]
        /\ \A i \in ItemIds : Queued(i)' <=> Queued(i)
        /\ \A i \in ItemIds : Queued(i)' => queue'[i].ent \in Id
    BY <1>0, <2>1 DEF Queued, ItemsAreQueued
  <2>3. meta' \in [Id -> MetaRow] /\ RemoteIsEntity'
    BY <1>0, <1>2, <2>1, MarkFailedTyped DEF RemoteIsEntity
  <2>4. /\ rows' \in [Id -> Row] /\ applyLock' \in BOOLEAN /\ saved' \in [Id -> Row]
        /\ disturbances' \in Nat /\ uncertain' \subseteq Id \cup {None}
    BY <1>0, <2>1
  <2> QED
    BY <1>1, <2>1, <2>2, <2>3, <2>4, NextItemTyped
<1>5. CASE WriteNotFound
  <2>1. queue' = WithStatus(queue, cur.item, "BLOCKED") /\ UNCHANGED <<rows, meta, applyLock, saved, disturbances, uncertain>>
        /\ NextItem /\ UNCHANGED <<nextItem, writes, clock, batch, serverVars>>
    BY <1>5 DEF WriteNotFound
  <2>2. /\ queue' \in [ItemIds -> Item]
        /\ \A i \in ItemIds : i # cur.item /\ Queued(i) => Queued(i)'
        /\ \A i \in ItemIds : Queued(i)' => queue'[i].ent \in Id
    BY <1>0, <1>1, <2>1, ItemEdits DEF Queued, ItemsAreQueued
  <2>3. RemoteIsEntity'
    BY <1>0, <2>1 DEF RemoteIsEntity
  <2>4. /\ rows' \in [Id -> Row] /\ applyLock' \in BOOLEAN /\ saved' \in [Id -> Row]
        /\ disturbances' \in Nat /\ uncertain' \subseteq Id \cup {None}
        /\ meta' \in [Id -> MetaRow]
    BY <1>0, <2>1
  <2> QED
    BY <1>1, <2>1, <2>2, <2>3, <2>4, NextItemTyped
<1> QED
  BY <1>3, <1>4, <1>5

\* The row ids and data that a replace transaction moves about.
LEMMA ReplaceTyped ==
  ASSUME TypeInv, pc = "apply", cur.act \in {"POST", "PATCH"}, OldEntity # None
  PROVE  /\ OldEntity \in Id /\ ResolvedEntity \in ServerIds
         /\ Moved(OldEntity, ResolvedEntity) \in [Id -> Row]
         /\ WithEcho(Moved(OldEntity, ResolvedEntity), ResolvedEntity) \in [Id -> Row]
         /\ MarkReplaced(cur.local, ResolvedEntity) \in [Id -> MetaRow]
         /\ \A l \in Id : MarkReplaced(cur.local, ResolvedEntity)[l].remote # None =>
              MarkReplaced(cur.local, ResolvedEntity)[l].entity
                = MarkReplaced(cur.local, ResolvedEntity)[l].remote
<1>1. cur.local \in Id /\ Busy
  BY DEF TypeInv, ItemsAreQueued, Busy
<1>2. /\ rows \in [Id -> Row] /\ meta \in [Id -> MetaRow] /\ reply \in Reply
      /\ RemoteIsEntity /\ PatchIsKnown /\ PostIsEchoed /\ EchoHasId
  BY DEF TypeInv, TypeOK, StoreTypeOK
<1>3. OldEntity \in Id
  BY <1>1, <1>2 DEF OldEntity, MetaRow
<1>4. ResolvedEntity \in ServerIds
  <2>1. CASE reply.echo
    BY <1>2, <2>1 DEF ResolvedEntity, EchoHasId
  <2>2. CASE ~reply.echo
    <3>1. cur.act = "PATCH"
      BY <1>2, <2>2 DEF PostIsEchoed
    <3>2. meta[cur.local].remote # None
      BY <1>1, <1>2, <3>1 DEF PatchIsKnown
    <3>3. OldEntity = meta[cur.local].remote
      BY <1>1, <1>2, <3>2 DEF RemoteIsEntity, OldEntity
    <3> QED
      BY <1>1, <1>2, <2>2, <3>2, <3>3 DEF ResolvedEntity, MetaRow
  <2> QED
    BY <2>1, <2>2
<1>5. ResolvedEntity \in Id
  BY <1>4 DEF Id
<1>6. Moved(OldEntity, ResolvedEntity) \in [Id -> Row]
  BY <1>2, <1>3, <1>5 DEF Moved, AbsentRow, Row
<1>7. WithEcho(Moved(OldEntity, ResolvedEntity), ResolvedEntity) \in [Id -> Row]
  <2> DEFINE m == Moved(OldEntity, ResolvedEntity)
  <2>1. reply.ver \in Nat /\ reply.ts \in Nat
    BY <1>2 DEF Reply
  <2> HIDE DEF m
  <2>2. m \in [Id -> Row] => WithEcho(m, ResolvedEntity) \in [Id -> Row]
    BY <1>5, <2>1 DEF WithEcho, Row
  <2> QED
    BY <1>6, <2>2 DEF m
<1>8. MarkReplaced(cur.local, ResolvedEntity) \in [Id -> MetaRow]
  BY <1>1, <1>2, <1>4, <1>5 DEF MarkReplaced, MetaRow
<1> QED
  BY <1>1, <1>2, <1>3, <1>4, <1>6, <1>7, <1>8 DEF MarkReplaced, RemoteIsEntity

\* Opening the apply transaction.
LEMMA BeginApplyTyped == ASSUME TypeInv, BeginApply PROVE TypeInv'
<1>1. /\ pc' = "apply" /\ applyLock' = TRUE /\ saved' = rows /\ Busy
      /\ UNCHANGED <<rows, queue, nextItem, meta, writes, clock,
                     serverVars, batch, cur, reply, disturbances, uncertain>>
  BY DEF BeginApply, NeedsApply, Busy
<1>2. TypeOK'
  BY <1>1 DEF TypeInv, TypeOK, StoreTypeOK, serverVars
<1>3. PostIsEchoed'
  BY <1>1 DEF PostIsEchoed, BeginApply, NeedsApply
<1> QED
  BY <1>1, <1>2, <1>3 DEF TypeInv, RemoteIsEntity, EchoHasId, PatchIsKnown, ItemsAreQueued,
     Queued, Busy

\* Closing it, whatever became of the row.
LEMMA EndApplyTyped ==
  ASSUME TypeInv, ApplyDelete \/ ApplyWrite \/ \E moved \in BOOLEAN : ApplyWriteFails(moved)
  PROVE  TypeInv'
<1>1. /\ cur.item \in ItemIds /\ Queued(cur.item) /\ queue[cur.item].ent \in Id
      /\ cur.local \in Id /\ Busy
  BY DEF TypeInv, ItemsAreQueued, ApplyDelete, ApplyWrite, ApplyWriteFails, Busy
<1>2. /\ rows \in [Id -> Row] /\ meta \in [Id -> MetaRow] /\ disturbances \in Nat
      /\ queue \in [ItemIds -> Item]
      /\ uncertain \subseteq Id \cup {None} /\ RemoteIsEntity /\ ItemsAreQueued
  BY DEF TypeInv, TypeOK, StoreTypeOK
<1>3. EndApply
  BY DEF ApplyDelete, ApplyWrite, ApplyWriteFails
<1>4. /\ applyLock' \in BOOLEAN /\ saved' \in [Id -> Row] /\ NextItem
      /\ disturbances' \in Nat /\ uncertain' \subseteq Id \cup {None}
      /\ UNCHANGED <<nextItem, writes, clock, batch, serverVars>>
  BY <1>2, <1>3 DEF EndApply, AbsentRow, Row
<1>5. CASE ApplyDelete
  <2>1. queue' = WithoutItem(queue, cur.item) /\ UNCHANGED <<rows, meta>>
    BY <1>5 DEF ApplyDelete
  <2>2. /\ queue' \in [ItemIds -> Item]
        /\ \A i \in ItemIds : i # cur.item /\ Queued(i) => Queued(i)'
        /\ \A i \in ItemIds : Queued(i)' => queue'[i].ent \in Id
    BY <1>1, <1>2, <2>1, ItemEdits DEF Queued, ItemsAreQueued
  <2>3. rows' \in [Id -> Row] /\ meta' \in [Id -> MetaRow] /\ RemoteIsEntity'
    BY <1>2, <2>1 DEF RemoteIsEntity
  <2> QED
    BY <1>1, <1>4, <2>2, <2>3, NextItemTyped
<1>6. CASE ApplyWrite
  <2>1. /\ pc = "apply" /\ cur.act \in {"POST", "PATCH"} /\ OldEntity # None
        /\ meta' = MarkReplaced(cur.local, ResolvedEntity)
        /\ rows' = WithEcho(Moved(OldEntity, ResolvedEntity), ResolvedEntity)
        /\ queue' = EntityRewritten(WithoutItem(queue, cur.item), OldEntity, ResolvedEntity)
    BY <1>6 DEF ApplyWrite
  <2>2. rows' \in [Id -> Row] /\ meta' \in [Id -> MetaRow] /\ ResolvedEntity \in Id
    BY <2>1, ReplaceTyped DEF Id
  <2>3. RemoteIsEntity'
    BY <2>1, ReplaceTyped DEF RemoteIsEntity
  <2> DEFINE q == WithoutItem(queue, cur.item)
  <2>4. /\ q \in [ItemIds -> Item]
        /\ \A i \in ItemIds \ {cur.item} : q[i] = queue[i]
        /\ q[cur.item].status = "NONE"
    BY <1>1, ItemEdits
  <2> HIDE DEF q
  <2>5. /\ queue' \in [ItemIds -> Item]
        /\ \A i \in ItemIds : queue'[i].status = q[i].status
        /\ \A i \in ItemIds : queue'[i].ent \in {q[i].ent, ResolvedEntity}
    BY <2>1, <2>2, <2>4 DEF EntityRewritten, Item, q
  <2>6. /\ \A i \in ItemIds : i # cur.item /\ Queued(i) => Queued(i)'
        /\ \A i \in ItemIds : Queued(i)' => queue'[i].ent \in Id
    BY <1>2, <2>2, <2>4, <2>5 DEF Queued, ItemsAreQueued
  <2> QED
    BY <1>1, <1>4, <2>2, <2>3, <2>5, <2>6, NextItemTyped
<1>7. ASSUME NEW moved \in BOOLEAN, ApplyWriteFails(moved)
      PROVE  TypeInv'
  <2>1. /\ pc = "apply" /\ cur.act \in {"POST", "PATCH"} /\ OldEntity # None
        /\ meta' = MarkReplaced(cur.local, ResolvedEntity)
        /\ rows' = IF moved THEN Moved(OldEntity, ResolvedEntity) ELSE rows
        /\ queue' = WithStatus(queue, cur.item, "BLOCKED")
    BY <1>7 DEF ApplyWriteFails
  <2>2. rows' \in [Id -> Row] /\ meta' \in [Id -> MetaRow]
    BY <1>2, <2>1, ReplaceTyped
  <2>3. RemoteIsEntity'
    BY <2>1, ReplaceTyped DEF RemoteIsEntity
  <2>4. /\ queue' \in [ItemIds -> Item]
        /\ \A i \in ItemIds : i # cur.item /\ Queued(i) => Queued(i)'
        /\ \A i \in ItemIds : Queued(i)' => queue'[i].ent \in Id
    BY <1>1, <1>2, <2>1, ItemEdits DEF Queued, ItemsAreQueued
  <2> QED
    BY <1>1, <1>4, <2>2, <2>3, <2>4, NextItemTyped
<1> QED
  BY <1>5, <1>6, <1>7

\* The server's half of a round trip.
LEMMA ServerTyped == ASSUME TypeInv, Server PROVE TypeInv'
<1>1. /\ server \in [ServerIds -> ServerRow] /\ lastTick \in Nat /\ clock \in Nat
      /\ cur \in Current /\ cur.local \in Id /\ cur.cid \in Id \cup {None} /\ disturbances \in Nat
      /\ ItemsAreQueued /\ pc = "call"
  <2>1. pc = "call"
    BY DEF Server, ServerCreate, ServerUpdate, ServerRemove, ServerNotFound, CreateNotFound,
           ServerError
  <2> QED
    BY <2>1 DEF TypeInv, TypeOK, StoreTypeOK, ItemsAreQueued, Busy, Current
<1>2. ASSUME NEW code \in {"ok", "notfound", "error"}, NEW echo \in BOOLEAN,
             NEW id \in ServerIds \cup {None}, echo => id \in ServerIds,
             NEW v \in Nat, NEW t \in Nat, Answer(code, echo, id, v, t),
             server' \in [ServerIds -> ServerRow], lastTick' \in Nat, disturbances' \in Nat
      PROVE  TypeInv'
  <2>1. /\ reply' = [code |-> code, echo |-> echo, id |-> id, ver |-> v, ts |-> t]
        /\ pc' = "reply"
        /\ UNCHANGED <<storeVars, batch, cur, saved, uncertain>>
    BY <1>2 DEF Answer
  <2>2. reply' \in Reply
    BY <2>1 DEF Reply
  <2>3. TypeOK'
    BY <1>2, <2>1, <2>2 DEF TypeInv, TypeOK, StoreTypeOK, storeVars
  <2>4. EchoHasId'
    BY <1>2, <2>1 DEF EchoHasId
  <2> QED
    BY <1>1, <2>1, <2>3, <2>4 DEF TypeInv, RemoteIsEntity, PatchIsKnown, PostIsEchoed,
       ItemsAreQueued, Queued, Busy, storeVars
<1>3. Tick => lastTick' \in Nat
  BY <1>1 DEF Tick
<1>4. ASSUME NEW s \in ServerIds, NEW echo \in BOOLEAN, ServerCreate(s, echo)
      PROVE  TypeInv'
  <2>1. lastTick' \in Nat
    BY <1>3, <1>4 DEF ServerCreate
  <2>2. server' \in [ServerIds -> ServerRow]
    BY <1>1, <1>4, <2>1 DEF ServerCreate, ServerRow, Current
  <2>3. disturbances' \in Nat /\ cur.ver \in Nat
    BY <1>1, <1>4 DEF ServerCreate, Disturb, Current
  <2>4. Answer("ok", echo, s, cur.ver, lastTick')
    BY <1>4 DEF ServerCreate
  <2> QED
    BY <1>2, <2>1, <2>2, <2>3, <2>4
<1>5. ASSUME NEW echo \in BOOLEAN, ServerUpdate(echo)
      PROVE  TypeInv'
  <2>1. lastTick' \in Nat /\ cur.cid \in ServerIds
    BY <1>3, <1>5 DEF ServerUpdate, Alive
  <2>2. cur.ver \in Nat /\ disturbances' \in Nat
    BY <1>1, <1>5 DEF Current, ServerUpdate
  <2>3. server' \in [ServerIds -> ServerRow]
    BY <1>1, <1>5, <2>1, <2>2 DEF ServerUpdate, ServerRow
  <2>4. Answer("ok", echo, cur.cid, cur.ver, lastTick')
    BY <1>5 DEF ServerUpdate
  <2> QED
    BY <1>2, <2>1, <2>2, <2>3, <2>4
<1>6. CASE ServerRemove
  <2>1. lastTick' \in Nat /\ cur.cid \in ServerIds /\ disturbances' \in Nat
    BY <1>1, <1>3, <1>6 DEF ServerRemove, Alive
  <2>2. server' \in [ServerIds -> ServerRow]
    BY <1>1, <1>6, <2>1 DEF ServerRemove, ServerRow
  <2>3. Answer("ok", FALSE, None, 0, 0)
    BY <1>6 DEF ServerRemove
  <2> QED
    BY <1>2, <2>1, <2>2, <2>3
<1>7. CASE ServerNotFound
  <2>1. UNCHANGED <<serverVars, disturbances>> /\ Answer("notfound", FALSE, None, 0, 0)
    BY <1>7 DEF ServerNotFound
  <2>2. server' \in [ServerIds -> ServerRow] /\ lastTick' \in Nat /\ disturbances' \in Nat
    BY <1>1, <2>1 DEF serverVars
  <2> QED
    BY <1>2, <2>1, <2>2
<1>8. CASE ServerError
  <2>1. UNCHANGED serverVars /\ Disturb /\ Answer("error", FALSE, None, 0, 0)
    BY <1>8 DEF ServerError
  <2>2. server' \in [ServerIds -> ServerRow] /\ lastTick' \in Nat /\ disturbances' \in Nat
    BY <1>1, <2>1 DEF serverVars, Disturb
  <2> QED
    BY <1>2, <2>1, <2>2
<1>9. CASE CreateNotFound
  <2>1. UNCHANGED serverVars /\ Disturb /\ Answer("notfound", FALSE, None, 0, 0)
    BY <1>9 DEF CreateNotFound
  <2>2. server' \in [ServerIds -> ServerRow] /\ lastTick' \in Nat /\ disturbances' \in Nat
    BY <1>1, <2>1 DEF serverVars, Disturb
  <2> QED
    BY <1>2, <2>1, <2>2
<1> QED
  BY <1>4, <1>5, <1>6, <1>7, <1>8, <1>9 DEF Server

\* Lost messages, crashes and other clients.
LEMMA EnvironmentTyped == ASSUME TypeInv, Environment PROVE TypeInv'
<1> USE PushAssumption
<1>1. CASE NetworkFailure
  <2>1. /\ cur.local \in Id /\ cur \in Current /\ disturbances \in Nat
        /\ uncertain \subseteq Id \cup {None}
    BY <1>1 DEF NetworkFailure, TypeInv, TypeOK, ItemsAreQueued, Busy
  <2>2. disturbances' \in Nat /\ uncertain' \subseteq Id \cup {None}
    BY <1>1, <2>1 DEF NetworkFailure, Disturb, Unsure
  <2>3. reply' = NoReply /\ UNCHANGED <<storeVars, serverVars, saved>>
    BY <1>1 DEF NetworkFailure
  <2>4. CASE cur.tries + 1 < HttpAttempts
    <3>1. /\ cur' = [cur EXCEPT !.tries = @ + 1] /\ pc' = "call"
          /\ pc \in {"call", "reply"} /\ UNCHANGED batch
      BY <1>1, <2>4 DEF NetworkFailure
    <3>2. cur' \in Current
      BY <2>1, <3>1 DEF Current
    <3>3. /\ cur'.item = cur.item /\ cur'.local = cur.local /\ cur'.act = cur.act
      BY <2>1, <3>1 DEF Current
    <3>4. TypeOK'
      BY <2>2, <2>3, <3>1, <3>2
         DEF TypeInv, TypeOK, StoreTypeOK, storeVars, serverVars, NoReply, Reply
    <3> QED
      BY <2>3, <3>1, <3>3, <3>4 DEF TypeInv, RemoteIsEntity, EchoHasId, PatchIsKnown,
         PostIsEchoed, ItemsAreQueued, Queued, Busy, NoReply, storeVars
  <2>5. CASE ~(cur.tries + 1 < HttpAttempts)
    <3>1. cur' = NoCurrent /\ pc' = "idle" /\ batch' = EmptyBatch
      BY <1>1, <2>5 DEF NetworkFailure
    <3>2. cur' \in Current /\ batch' \in [ItemIds -> Pending] /\ reply' \in Reply
      BY <2>3, <3>1 DEF NoCurrent, Current, Action, EmptyBatch, NotPending, Pending, NoReply, Reply
    <3>3. TypeOK'
      BY <2>2, <2>3, <3>1, <3>2 DEF TypeInv, TypeOK, StoreTypeOK, storeVars, serverVars
    <3> QED
      BY <2>3, <3>1, <3>3 DEF TypeInv, RemoteIsEntity, EchoHasId, PatchIsKnown, PostIsEchoed,
         ItemsAreQueued, Queued, Busy, NoReply, EmptyBatch, NotPending, storeVars
  <2> QED
    BY <2>4, <2>5
<1>2. CASE Crash
  <2>1. /\ cur \in Current /\ rows \in [Id -> Row] /\ saved \in [Id -> Row] /\ disturbances \in Nat
        /\ uncertain \subseteq Id \cup {None} /\ applyLock \in BOOLEAN
    BY DEF TypeInv, TypeOK, StoreTypeOK
  <2>2. /\ rows' = IF applyLock THEN saved ELSE rows
        /\ applyLock' = FALSE /\ saved' = [k \in Id |-> AbsentRow] /\ pc' = "idle"
        /\ batch' = EmptyBatch /\ cur' = NoCurrent /\ reply' = NoReply
        /\ UNCHANGED <<queue, nextItem, meta, writes, clock, serverVars>>
    BY <1>2 DEF Crash
  <2>3. disturbances' \in Nat /\ uncertain' \subseteq Id \cup {None}
    BY <1>2, <2>1 DEF Crash, Disturb, Unsure, Current
  <2>4. cur' \in Current /\ batch' \in [ItemIds -> Pending] /\ reply' \in Reply
    BY <2>2 DEF NoCurrent, Current, Action, EmptyBatch, NotPending, Pending, NoReply, Reply
  <2>5. rows' \in [Id -> Row] /\ saved' \in [Id -> Row] /\ applyLock' \in BOOLEAN
    BY <2>1, <2>2 DEF AbsentRow, Row
  <2>6. TypeOK'
    BY <2>2, <2>3, <2>4, <2>5 DEF TypeInv, TypeOK, StoreTypeOK, serverVars
  <2> QED
    BY <2>2, <2>6 DEF TypeInv, RemoteIsEntity, EchoHasId, PatchIsKnown, PostIsEchoed,
       ItemsAreQueued, Queued, Busy, NoReply, EmptyBatch, NotPending
<1>3. ASSUME NEW s \in ServerIds, ForeignDelete(s)
      PROVE  TypeInv'
  <2>1. /\ server \in [ServerIds -> ServerRow] /\ lastTick \in Nat /\ clock \in Nat
        /\ disturbances \in Nat
    BY DEF TypeInv, TypeOK, StoreTypeOK
  <2>2. lastTick' \in Nat /\ disturbances' \in Nat
    BY <1>3, <2>1 DEF ForeignDelete, Tick, Disturb
  <2>3. server' \in [ServerIds -> ServerRow]
    BY <1>3, <2>1, <2>2 DEF ForeignDelete, ServerRow
  <2>4. UNCHANGED <<storeVars, sessionVars, uncertain>>
    BY <1>3 DEF ForeignDelete
  <2>5. TypeOK'
    BY <2>2, <2>3, <2>4 DEF TypeInv, TypeOK, StoreTypeOK, storeVars, sessionVars
  <2> QED
    BY <2>4, <2>5 DEF TypeInv, RemoteIsEntity, EchoHasId, PatchIsKnown, PostIsEchoed,
       ItemsAreQueued, Queued, Busy, storeVars, sessionVars
<1> QED
  BY <1>1, <1>2, <1>3 DEF Environment

LEMMA StutterTyped == ASSUME TypeInv, UNCHANGED vars PROVE TypeInv'
BY DEF TypeInv, TypeOK, StoreTypeOK, RemoteIsEntity, EchoHasId, PatchIsKnown, PostIsEchoed,
   ItemsAreQueued, Queued, Busy, vars, storeVars, sessionVars, serverVars

LEMMA StepTyped == TypeInv /\ [Next]_vars => TypeInv'
<1> SUFFICES ASSUME TypeInv, [Next]_vars PROVE TypeInv'
  OBVIOUS
<1>1. CASE App
  BY <1>1, AppTyped
<1>2. CASE Session
  BY <1>2, ReadingTyped, SettledTyped, ItemFailedTyped, BeginApplyTyped, EndApplyTyped DEF Session
<1>3. CASE Server
  BY <1>3, ServerTyped
<1>4. CASE Environment
  BY <1>4, EnvironmentTyped
<1>5. CASE UNCHANGED vars
  BY <1>5, StutterTyped
<1> QED
  BY <1>1, <1>2, <1>3, <1>4, <1>5 DEF Next

\* Every step of the store, the session, the server and the environment keeps
\* every variable in its type; in particular a remote id is always one the
\* server assigned, even when applying a response fails half way and writes
\* land inside the apply transaction.
THEOREM TypeCorrect == Spec => []TypeOK
<1>1. TypeInv => TypeOK
  BY DEF TypeInv
<1> QED
  BY <1>1, InitTyped, StepTyped, PTL DEF Spec

-----------------------------------------------------------------------------
(* Blocked items, and rows newer than an answer, whatever lands inside the *)
(* apply transaction and however it fails.                                 *)

\* A step that ends an item changes that item's status and no other's.
LEMMA SettledItem ==
  ASSUME TypeInv,
         \/ DropItem \/ MetadataFails \/ WriteNotFound \/ ApplyDelete \/ ApplyWrite
         \/ \E moved \in BOOLEAN : ApplyWriteFails(moved)
  PROVE  /\ Busy /\ pc' = "items" /\ cur' = NoCurrent /\ reply' = NoReply
         /\ UNCHANGED <<nextItem, batch, server>>
         /\ cur.item \in ItemIds /\ Queued(cur.item) /\ ~batch[cur.item].todo
         /\ \A j \in ItemIds : j # cur.item => queue'[j].status = queue[j].status
<1> USE DEF NextItem, EndApply, serverVars
<1>1. /\ Busy /\ pc' = "items" /\ cur' = NoCurrent /\ reply' = NoReply
      /\ UNCHANGED <<nextItem, batch, server>>
  BY DEF Busy, DropItem, MetadataFails, WriteNotFound, ApplyDelete, ApplyWrite,
         ApplyWriteFails
<1>2. cur.item \in ItemIds /\ Queued(cur.item) /\ ~batch[cur.item].todo
  BY <1>1 DEF TypeInv, ItemsAreQueued
<1>3. queue \in [ItemIds -> Item]
  BY DEF TypeInv, TypeOK, StoreTypeOK
<1>4. ASSUME NEW j \in ItemIds, j # cur.item
      PROVE  queue'[j].status = queue[j].status
  <2>1. WithoutItem(queue, cur.item)[j] = queue[j]
    BY <1>3, <1>4 DEF WithoutItem
  <2>2. \A st : WithStatus(queue, cur.item, st)[j] = queue[j]
    BY <1>3, <1>4 DEF WithStatus
  <2>3. CASE DropItem \/ ApplyDelete
    BY <2>1, <2>3 DEF DropItem, ApplyDelete
  <2>4. CASE MetadataFails
    BY <2>4 DEF MetadataFails
  <2>5. CASE WriteNotFound \/ \E moved \in BOOLEAN : ApplyWriteFails(moved)
    BY <2>2, <2>5 DEF WriteNotFound, ApplyWriteFails
  <2>6. CASE ApplyWrite
    <3> DEFINE q == WithoutItem(queue, cur.item)
    <3>1. q[j] = queue[j] /\ q[j] \in Item
      BY <1>3, <2>1
    <3>2. queue' = EntityRewritten(q, OldEntity, ResolvedEntity)
      BY <2>6 DEF ApplyWrite
    <3> HIDE DEF q
    <3>3. queue'[j].status = q[j].status
      BY <3>1, <3>2 DEF EntityRewritten, Item
    <3> QED
      BY <3>1, <3>3
  <2> QED
    BY <2>3, <2>4, <2>5, <2>6
<1> QED
  BY <1>1, <1>2, <1>4

\* A statement of the application writes an item under a free number.
LEMMA WrittenItem ==
  ASSUME TypeInv, App
  PROVE  /\ UNCHANGED <<pc, batch, cur>>
         /\ \/ UNCHANGED <<queue, nextItem>>
            \/ /\ nextItem' = nextItem + 1
               /\ \A i \in ItemIds : i # nextItem => queue'[i] = queue[i]
               /\ nextItem \in ItemIds => queue'[nextItem].status = "PENDING"
<1>1. queue \in [ItemIds -> Item]
  BY DEF TypeInv, TypeOK, StoreTypeOK
<1>2. PICK pk \in Id, o \in {"insert", "update", "delete"}, st \in {"PENDING", "DELETED"} :
        Write(o, pk, st)
  <2>1. PICK pk \in Id : Insert(pk) \/ Update(pk) \/ SoftDelete(pk) \/ HardDelete(pk)
    BY DEF App, AppWrite
  <2>2. CASE Update(pk)
    <3>1. CASE rows[pk].state = "tombstoned"
      BY <2>2, <3>1 DEF Update
    <3>2. CASE rows[pk].state # "tombstoned"
      BY <2>2, <3>2 DEF Update
    <3> QED
      BY <3>1, <3>2
  <2> QED
    BY <2>1, <2>2 DEF Insert, SoftDelete, HardDelete
<1>3. CASE applyLock
  BY <1>2, <1>3 DEF Write, Triggered, App, sessionVars
<1>4. CASE ~applyLock
  <2>1. /\ queue' = [queue EXCEPT ![nextItem] = [op |-> o, ent |-> pk, status |-> "PENDING"]]
        /\ nextItem' = nextItem + 1
    BY <1>2, <1>4 DEF Write, Triggered
  <2> QED
    BY <1>1, <2>1 DEF App, sessionVars
<1> QED
  BY <1>3, <1>4

\* What else changes an item's status or the session's hold on one: nothing.
LEMMA HeldKeeps == ASSUME TypeInv, HeldAreOpen, [Next]_vars PROVE HeldAreOpen'
<1>1. /\ queue \in [ItemIds -> Item] /\ nextItem \in Nat /\ cur \in Current
      /\ batch \in [ItemIds -> Pending]
  BY DEF TypeInv, TypeOK, StoreTypeOK
<1>2. Busy => cur.item \in ItemIds
  BY DEF TypeInv, ItemsAreQueued
<1>3. CASE App
  <2>1. CASE UNCHANGED <<queue, nextItem>>
    BY <1>3, <2>1, WrittenItem DEF HeldAreOpen, Queued, Busy
  <2>2. CASE /\ nextItem' = nextItem + 1
             /\ \A i \in ItemIds : i # nextItem => queue'[i] = queue[i]
             /\ nextItem \in ItemIds => queue'[nextItem].status = "PENDING"
    <3>1. \A i \in ItemIds : nextItem + 1 <= i => i # nextItem /\ nextItem <= i
      BY <1>1 DEF ItemIds
    <3>2. \A i \in ItemIds : nextItem' <= i => ~Queued(i)'
      BY <2>2, <3>1 DEF HeldAreOpen, Queued
    <3>3. \A i \in ItemIds : queue[i].status \in {"PENDING", "FAILED"}
                             => queue'[i].status \in {"PENDING", "FAILED"}
      BY <2>2
    <3>4. UNCHANGED <<pc, batch, cur>>
      BY <1>3, WrittenItem
    <3> QED
      BY <1>2, <3>2, <3>3, <3>4 DEF HeldAreOpen, Busy
  <2> QED
    BY <1>3, <2>1, <2>2, WrittenItem
<1>4. CASE StartSession
  <2>1. ASSUME NEW i \in ItemIds, batch'[i].todo PROVE queue[i].status \in {"PENDING", "FAILED"}
    <3>1. i \in FirstReadable(PushLimit)
      BY <1>4, <2>1 DEF StartSession, NotPending
    <3> QED
      BY <3>1 DEF FirstReadable, Readable
  <2> QED
    BY <1>4, <2>1 DEF StartSession, HeldAreOpen, Queued, Busy, storeVars
<1>5. ASSUME NEW i \in ItemIds, TakeItem(i) PROVE HeldAreOpen'
  <2>1. /\ UNCHANGED storeVars /\ batch[i].todo /\ batch' = [batch EXCEPT ![i] = NotPending]
        /\ cur'.item = i
    BY <1>5 DEF TakeItem
  <2> QED
    BY <1>1, <2>1 DEF HeldAreOpen, Queued, Busy, storeVars, NotPending, Pending
<1>6. CASE EndSession
  BY <1>6 DEF EndSession, HeldAreOpen, Queued, Busy, storeVars
<1>7. CASE \/ DropItem \/ MetadataFails \/ WriteNotFound \/ ApplyDelete \/ ApplyWrite
           \/ \E moved \in BOOLEAN : ApplyWriteFails(moved)
  BY <1>7, SettledItem DEF HeldAreOpen, Queued, Busy
<1>8. CASE BeginApply
  BY <1>8 DEF BeginApply, NeedsApply, HeldAreOpen, Queued, Busy
<1>9. CASE Server
  <2>1. UNCHANGED <<storeVars, batch, cur>> /\ Busy
    BY <1>9 DEF Server, ServerCreate, ServerUpdate, ServerRemove, ServerNotFound, CreateNotFound,
                ServerError,
                Answer, Busy
  <2> QED
    BY <2>1 DEF HeldAreOpen, Queued, Busy, storeVars
<1>10. CASE NetworkFailure
  <2>1. UNCHANGED storeVars /\ Busy
    BY <1>10 DEF NetworkFailure, Busy
  <2>2. CASE UNCHANGED batch /\ cur' = [cur EXCEPT !.tries = @ + 1]
    <3>1. cur'.item = cur.item
      BY <1>1, <2>2 DEF Current
    <3> QED
      BY <2>1, <2>2, <3>1 DEF HeldAreOpen, Queued, Busy, storeVars
  <2>3. CASE pc' = "idle" /\ batch' = EmptyBatch
    BY <2>1, <2>3 DEF HeldAreOpen, Queued, Busy, storeVars, EmptyBatch, NotPending
  <2> QED
    BY <1>10, <2>2, <2>3 DEF NetworkFailure
<1>11. CASE Crash
  BY <1>11 DEF Crash, HeldAreOpen, Queued, Busy, EmptyBatch, NotPending
<1>12. CASE \E s \in ServerIds : ForeignDelete(s)
  BY <1>12 DEF ForeignDelete, HeldAreOpen, Queued, Busy, storeVars, sessionVars
<1>13. CASE UNCHANGED vars
  BY <1>13 DEF vars, HeldAreOpen, Queued, Busy, storeVars, sessionVars
<1>14. CASE BodyFails \/ RequestFails
  BY <1>14, ItemFailedFacts DEF ItemFailed, HeldAreOpen, Queued, Busy
<1> QED
  BY <1>3, <1>4, <1>5, <1>6, <1>7, <1>8, <1>9, <1>10, <1>11, <1>12, <1>13, <1>14
     DEF Next, Session, Environment

LEMMA InitHeld == Init => HeldAreOpen
BY DEF Init, StoreInit, HeldAreOpen, Queued, Busy, NoItem, EmptyBatch, NotPending

\* An item runPushPhase has blocked stays blocked: no session reads it, and
\* neither the replace nor a failure of another item touches its status.
THEOREM BlockedStaysCorrect == Spec => BlockedStays
<1> DEFINE Stays == \A i \in ItemIds : queue[i].status = "BLOCKED" => queue'[i].status = "BLOCKED"
<1>1. Init => HeldAreOpen
  BY InitHeld
<1>2. ASSUME TypeInv, HeldAreOpen, [Next]_vars PROVE Stays
  <2>1. CASE App
    <3>1. nextItem <= nextItem
      BY <1>2 DEF TypeInv, TypeOK, StoreTypeOK
    <3>2. nextItem \in ItemIds => queue[nextItem].status = "NONE"
      BY <1>2, <3>1 DEF HeldAreOpen, Queued
    <3>3. CASE UNCHANGED queue
      BY <3>3
    <3>4. CASE \A i \in ItemIds : i # nextItem => queue'[i] = queue[i]
      BY <3>2, <3>4
    <3> QED
      BY <1>2, <2>1, <3>3, <3>4, WrittenItem
  <2>2. CASE \/ DropItem \/ MetadataFails \/ WriteNotFound \/ ApplyDelete \/ ApplyWrite
             \/ \E moved \in BOOLEAN : ApplyWriteFails(moved)
    <3>1. queue[cur.item].status # "BLOCKED"
      BY <1>2, <2>2, SettledItem DEF HeldAreOpen
    <3> QED
      BY <1>2, <2>2, <3>1, SettledItem
  <2>3. CASE \/ StartSession \/ EndSession \/ (\E i \in ItemIds : TakeItem(i)) \/ BeginApply
             \/ Server \/ Environment \/ UNCHANGED vars
    <3>1. UNCHANGED queue
      BY <2>3 DEF StartSession, EndSession, TakeItem, BeginApply, Server, ServerCreate,
                  ServerUpdate,
                  ServerRemove, ServerNotFound, CreateNotFound, ServerError, Answer, Environment,
                  NetworkFailure,
                  Crash, ForeignDelete, vars, storeVars
    <3> QED
      BY <3>1
  <2>4. CASE BodyFails \/ RequestFails
    <3>1. queue[cur.item].status # "BLOCKED"
      BY <1>2, <2>4, ItemFailedFacts DEF ItemFailed, HeldAreOpen
    <3> QED
      BY <1>2, <2>4, <3>1, ItemFailedFacts DEF ItemFailed
  <2> QED
    BY <1>2, <2>1, <2>2, <2>3, <2>4 DEF Next, Session
<1>3. TypeInv /\ HeldAreOpen /\ [Next]_vars => HeldAreOpen' /\ [Stays]_vars
  BY <1>2, HeldKeeps
<1> HIDE DEF Stays
<1> QED
  BY <1>1, <1>3, InitTyped, StepTyped, PTL DEF Spec, BlockedStays, Stays

\* A replace keeps the primary key, or moves the row to a new server id under
\* which there is none yet.
LEMMA ReplaceMoves ==
  ASSUME TypeInv, NewIdsAreFree, pc = "apply", cur.act \in {"POST", "PATCH"}, OldEntity # None
  PROVE  /\ OldEntity \in Id /\ ResolvedEntity \in Id
         /\ \/ ResolvedEntity = OldEntity
            \/ /\ ResolvedEntity \in ServerIds /\ rows[ResolvedEntity].state = "absent"
               /\ server[ResolvedEntity].state # "absent"
<1>1. Busy /\ cur.local \in Id
  BY DEF Busy, TypeInv, ItemsAreQueued
<1>2. OldEntity \in Id
  BY <1>1 DEF OldEntity, TypeInv, TypeOK, StoreTypeOK, MetaRow
<1>3. reply.echo => reply.id \in ServerIds
  BY DEF TypeInv, EchoHasId
<1>4. CASE cur.act = "PATCH"
  <2>1. meta[cur.local].remote = cur.cid /\ meta[cur.local].remote # None
    BY <1>1, <1>4 DEF NewIdsAreFree, TypeInv, PatchIsKnown
  <2>2. OldEntity = cur.cid
    BY <1>1, <2>1 DEF OldEntity, TypeInv, RemoteIsEntity
  <2> QED
    BY <1>2, <1>4, <2>2 DEF ResolvedEntity, NewIdsAreFree, Answered
<1>5. CASE cur.act = "POST"
  <2>1. reply.echo
    BY <1>5 DEF TypeInv, PostIsEchoed
  <2> QED
    BY <1>2, <1>3, <1>5, <2>1 DEF ResolvedEntity, NewIdsAreFree, Answered, Id
<1> QED
  BY <1>4, <1>5

\* What the move of a primary key does to the rows.
LEMMA MovedRows ==
  ASSUME rows \in [Id -> Row], NEW old \in Id, NEW new \in Id,
         new = old \/ rows[new].state = "absent"
  PROVE  /\ Moved(old, new) \in [Id -> Row]
         /\ Moved(old, new)[new] = rows[old]
         /\ \A k \in Id : k # old /\ k # new => Moved(old, new)[k] = rows[k]
         /\ new # old => Moved(old, new)[old].state = "absent"
BY DEF Moved, AbsentRow, Row

LEMMA EchoedRows ==
  ASSUME NEW t \in [Id -> Row], NEW pk \in Id, reply.ver \in Nat, reply.ts \in Nat
  PROVE  /\ WithEcho(t, pk) \in [Id -> Row]
         /\ \A k \in Id : k # pk => WithEcho(t, pk)[k] = t[k]
         /\ t[pk].state = "absent" \/ t[pk].ts > reply.ts => WithEcho(t, pk)[pk] = t[pk]
BY DEF WithEcho, EchoWins, Row

\* The rows a replace, whole or not, leaves behind: a server id that has none
\* gets one only if the server knows it, and the newer rows survive.
LEMMA ReplacedRows ==
  ASSUME TypeInv, NewIdsAreFree,
         ApplyWrite \/ \E moved \in BOOLEAN : ApplyWriteFails(moved)
  PROVE  /\ \A s \in ServerIds : rows'[s].state # "absent" => server[s].state # "absent"
         /\ \A pk \in Id : rows[pk].state # "absent" /\ rows[pk].ts > reply.ts
                           => \E k \in Id : rows'[k] = rows[pk]
<1> DEFINE old == OldEntity
           new == ResolvedEntity
           m == Moved(old, new)
<1>1. /\ old \in Id /\ new \in Id
      /\ new = old \/ (new \in ServerIds /\ rows[new].state = "absent" /\ server[new].state # "absent")
  BY ReplaceMoves DEF ApplyWrite, ApplyWriteFails
<1>2. /\ rows \in [Id -> Row] /\ reply.ver \in Nat /\ reply.ts \in Nat
      /\ \A s \in ServerIds : s \in Id /\ (rows[s].state # "absent" => server[s].state # "absent")
  BY DEF TypeInv, TypeOK, StoreTypeOK, Reply, NewIdsAreFree, Id
<1>3. rows' \in {rows, m, WithEcho(m, new)}
  BY DEF ApplyWrite, ApplyWriteFails
<1> HIDE DEF old, new
<1>4. /\ m \in [Id -> Row] /\ m[new] = rows[old]
      /\ \A k \in Id : k # old /\ k # new => m[k] = rows[k]
      /\ new # old => m[old].state = "absent"
  BY <1>1, <1>2, MovedRows
<1> HIDE DEF m
<1>5. /\ \A k \in Id : k # new => WithEcho(m, new)[k] = m[k]
      /\ m[new].state = "absent" \/ m[new].ts > reply.ts => WithEcho(m, new)[new] = m[new]
  BY <1>1, <1>2, <1>4, EchoedRows
<1>6. ASSUME NEW s \in ServerIds, rows'[s].state # "absent" PROVE server[s].state # "absent"
  <2>1. CASE s = new /\ new # old
    BY <1>1, <2>1
  <2>2. CASE s = new /\ new = old
    BY <1>2, <1>3, <1>4, <1>5, <1>6, <2>2
  <2>3. CASE s # new
    BY <1>2, <1>3, <1>4, <1>5, <1>6, <2>3
  <2> QED
    BY <2>1, <2>2, <2>3
<1>7. ASSUME NEW pk \in Id, rows[pk].state # "absent", rows[pk].ts > reply.ts
      PROVE  \E k \in Id : rows'[k] = rows[pk]
  <2>1. CASE rows' = rows
    BY <2>1
  <2>2. CASE pk = old
    <3>1. m[new] = rows[pk] /\ WithEcho(m, new)[new] = rows[pk]
      BY <1>4, <1>5, <1>7, <2>2
    <3> QED
      BY <1>1, <1>3, <2>1, <3>1
  <2>3. CASE pk # old
    <3>1. pk # new
      BY <1>1, <1>7, <2>3
    <3>2. m[pk] = rows[pk] /\ WithEcho(m, new)[pk] = rows[pk]
      BY <1>4, <1>5, <2>3, <3>1
    <3> QED
      BY <1>3, <2>1, <3>2
  <2> QED
    BY <2>2, <2>3
<1> QED
  BY <1>6, <1>7

\* An application statement brings no row under a server id, and changes no
\* remote id.
LEMMA AppKeepsIds == ASSUME TypeInv, NewIdsAreFree, App PROVE NewIdsAreFree'
<1>1. PICK pk \in Id : Insert(pk) \/ Update(pk) \/ SoftDelete(pk) \/ HardDelete(pk)
  BY DEF App, AppWrite
<1>2. PICK o \in {"insert", "update", "delete"}, st \in {"PENDING", "DELETED"} : Write(o, pk, st)
  <2>1. CASE Update(pk)
    <3>1. CASE rows[pk].state = "tombstoned"
      BY <2>1, <3>1 DEF Update
    <3>2. CASE rows[pk].state # "tombstoned"
      BY <2>1, <3>2 DEF Update
    <3> QED
      BY <3>1, <3>2
  <2> QED
    BY <1>1, <2>1 DEF Insert, SoftDelete, HardDelete
<1>3. \A l \in Id : meta'[l].remote = meta[l].remote
  BY <1>2, WriteTyped
<1>4. ASSUME NEW s \in ServerIds, rows[s].state = "absent" PROVE rows'[s].state = "absent"
  <2>1. rows \in [Id -> Row] /\ s \in Id /\ s \notin LocalIds
    BY IdsAssumption DEF TypeInv, TypeOK, StoreTypeOK, Id
  <2>2. CASE Insert(pk)
    BY <1>4, <2>1, <2>2 DEF Insert
  <2>3. CASE Update(pk)
    BY <1>4, <2>1, <2>3 DEF Update
  <2>4. CASE SoftDelete(pk)
    BY <1>4, <2>1, <2>4 DEF SoftDelete
  <2>5. CASE HardDelete(pk)
    BY <1>4, <2>1, <2>5 DEF HardDelete, AbsentRow
  <2> QED
    BY <1>1, <2>2, <2>3, <2>4, <2>5
<1>5. UNCHANGED <<pc, batch, cur, reply, saved, server>>
  BY DEF App, sessionVars, serverVars
<1>6. Busy => cur.local \in Id
  BY DEF TypeInv, ItemsAreQueued
<1> QED
  BY <1>3, <1>4, <1>5, <1>6 DEF NewIdsAreFree, Answered, Busy

LEMMA IdsKeep == ASSUME TypeInv, NewIdsAreFree, [Next]_vars PROVE NewIdsAreFree'
<1>1. /\ cur \in Current /\ server \in [ServerIds -> ServerRow] /\ reply \in Reply
      /\ Busy => cur.local \in Id
  BY DEF TypeInv, TypeOK, ItemsAreQueued
<1>2. CASE App
  BY <1>2, AppKeepsIds
<1>3. CASE StartSession \/ EndSession
  BY <1>3 DEF StartSession, EndSession, NewIdsAreFree, Answered, Busy, storeVars, serverVars
<1>4. ASSUME NEW i \in ItemIds, TakeItem(i) PROVE NewIdsAreFree'
  <2>1. /\ UNCHANGED <<storeVars, serverVars, reply, saved>> /\ pc' \in {"call", "local"}
    BY <1>4 DEF TakeItem
  <2>2. cur'.act = "PATCH" => meta[cur'.local].remote = cur'.cid
    <3> DEFINE remote == RemoteOf(i)
               cid == IF remote = None THEN batch[i].ent ELSE remote
               act == ActionFor(queue[i].op, rows[cid], remote)
    <3>1. act = "PATCH" => remote # None
      BY DEF ActionFor
    <3>2. remote # None => batch[i].local # None /\ remote = meta[batch[i].local].remote
      BY DEF RemoteOf
    <3>3. /\ cur'.act = act /\ cur'.cid = cid
          /\ cur'.local = IF batch[i].local = None THEN batch[i].ent ELSE batch[i].local
      BY <1>4 DEF TakeItem
    <3> HIDE DEF remote, act
    <3> QED
      BY <3>1, <3>2, <3>3
  <2> QED
    BY <2>1, <2>2 DEF NewIdsAreFree, Answered, storeVars, serverVars
<1>5. CASE DropItem \/ MetadataFails \/ WriteNotFound
  <2>1. UNCHANGED <<rows, saved, server>> /\ pc' = "items" /\ ~reply'.echo
    BY <1>5 DEF DropItem, MetadataFails, WriteNotFound, NextItem, serverVars, NoReply
  <2> QED
    BY <2>1 DEF NewIdsAreFree, Answered, Busy
<1>6. CASE ApplyDelete \/ ApplyWrite \/ \E moved \in BOOLEAN : ApplyWriteFails(moved)
  <2>1. EndApply
    BY <1>6 DEF ApplyDelete, ApplyWrite, ApplyWriteFails
  <2>2. /\ \A s \in ServerIds : saved'[s].state = "absent"
        /\ UNCHANGED server /\ pc' = "items" /\ ~reply'.echo
    BY <2>1 DEF EndApply, NextItem, serverVars, NoReply, AbsentRow, Id
  <2>3. \A s \in ServerIds : rows'[s].state # "absent" => server[s].state # "absent"
    BY <1>6, ReplacedRows DEF ApplyDelete, NewIdsAreFree
  <2> QED
    BY <2>2, <2>3 DEF NewIdsAreFree, Answered, Busy
<1>7. CASE BeginApply
  <2>1. /\ UNCHANGED <<rows, meta, cur, reply, server>> /\ saved' = rows /\ pc' = "apply"
        /\ pc \in {"local", "reply"} /\ (pc = "local" => cur.act = "CONFIRM")
    BY <1>7 DEF BeginApply, NeedsApply, serverVars
  <2> QED
    BY <2>1 DEF NewIdsAreFree, Answered, Busy
<1>8. CASE Server
  <2>1. /\ UNCHANGED <<storeVars, cur, saved>> /\ pc = "call" /\ pc' = "reply"
    BY <1>8 DEF Server, ServerCreate, ServerUpdate, ServerRemove, ServerNotFound, CreateNotFound,
                ServerError, Answer
  <2>2. ASSUME NEW s \in ServerIds, NEW echo \in BOOLEAN, ServerCreate(s, echo)
        PROVE  NewIdsAreFree'
    <3>1. /\ cur.act = "POST" /\ server[s].state = "absent" /\ server'[s].state = "live"
          /\ \A r \in ServerIds : r # s => server'[r] = server[r]
          /\ reply'.id = s /\ reply'.code = "ok"
      BY <1>1, <2>2 DEF ServerCreate, Answer
    <3>2. rows[s].state = "absent"
      BY <3>1 DEF NewIdsAreFree
    <3> QED
      BY <2>1, <3>1, <3>2 DEF NewIdsAreFree, Answered, Busy, storeVars
  <2>3. ASSUME NEW echo \in BOOLEAN, ServerUpdate(echo)
        PROVE  NewIdsAreFree'
    <3>1. /\ cur.act = "PATCH" /\ reply'.id = cur.cid /\ reply'.code = "ok"
          /\ \A r \in ServerIds : server'[r].state = server[r].state
      BY <1>1, <2>3 DEF ServerUpdate, Answer, ServerRow
    <3> QED
      BY <2>1, <3>1 DEF NewIdsAreFree, Answered, Busy, storeVars
  <2>4. CASE ServerRemove
    <3>1. /\ cur.act = "DELETE" /\ ~reply'.echo
          /\ \A r \in ServerIds : server[r].state # "absent" => server'[r].state # "absent"
      BY <1>1, <2>4 DEF ServerRemove, Answer, ServerRow
    <3> QED
      BY <2>1, <3>1 DEF NewIdsAreFree, Answered, Busy, storeVars
  <2>5. CASE ServerNotFound \/ CreateNotFound \/ ServerError
    <3>1. UNCHANGED server /\ ~reply'.echo /\ reply'.code # "ok"
      BY <2>5 DEF ServerNotFound, CreateNotFound, ServerError, Answer, serverVars
    <3> QED
      BY <2>1, <3>1 DEF NewIdsAreFree, Answered, Busy, storeVars
  <2> QED
    BY <1>8, <2>2, <2>3, <2>4, <2>5 DEF Server
<1>9. CASE NetworkFailure
  <2>1. UNCHANGED <<storeVars, server, saved>> /\ ~reply'.echo /\ reply'.code # "ok"
    BY <1>9 DEF NetworkFailure, NoReply, serverVars
  <2>2. /\ Busy
        /\ Busy' => cur'.act = cur.act /\ cur'.local = cur.local /\ cur'.cid = cur.cid
    BY <1>1, <1>9 DEF NetworkFailure, Busy, Current
  <2> QED
    BY <2>1, <2>2 DEF NewIdsAreFree, Answered, storeVars
<1>10. CASE Crash
  <2>1. /\ rows' \in {saved, rows} /\ \A s \in ServerIds : saved'[s].state = "absent"
        /\ UNCHANGED server /\ pc' = "idle" /\ ~reply'.echo
    BY <1>10 DEF Crash, serverVars, NoReply, AbsentRow, Id
  <2>2. \A s \in ServerIds : rows'[s].state # "absent" => server[s].state # "absent"
    BY <2>1 DEF NewIdsAreFree
  <2> QED
    BY <2>1, <2>2 DEF NewIdsAreFree, Answered, Busy
<1>11. ASSUME NEW s \in ServerIds, ForeignDelete(s) PROVE NewIdsAreFree'
  <2>1. /\ UNCHANGED <<storeVars, sessionVars>>
        /\ \A r \in ServerIds : server[r].state # "absent" => server'[r].state # "absent"
    BY <1>1, <1>11 DEF ForeignDelete, ServerRow
  <2> QED
    BY <2>1 DEF NewIdsAreFree, Answered, Busy, storeVars, sessionVars
<1>12. CASE UNCHANGED vars
  BY <1>12 DEF vars, NewIdsAreFree, Answered, Busy, storeVars, sessionVars, serverVars
<1>13. CASE BodyFails \/ RequestFails
  BY <1>13, ItemFailedFacts DEF ItemFailed, NewIdsAreFree, Answered, Busy
<1> QED
  BY <1>2, <1>3, <1>4, <1>5, <1>6, <1>7, <1>8, <1>9, <1>10, <1>11, <1>12, <1>13
     DEF Next, Session, Environment

\* rewriteLocalRow never replaces a row the application wrote after the server
\* had stamped its answer, also when the replace fails half way and writes of
\* the application land inside its transaction.
THEOREM NewerEditSurvivesCorrect == Spec => NewerEditSurvives
<1> DEFINE Survives ==
      \A pk \in Id :
        (/\ pc = "apply" /\ pc' = "items"
         /\ rows[pk].state # "absent" /\ rows[pk].ts > reply.ts)
        => \E k \in Id : rows'[k] = rows[pk]
<1>1. Init => NewIdsAreFree
  BY DEF Init, StoreInit, NewIdsAreFree, Answered, Busy, AbsentRow, NoReply, Id
<1>2. ASSUME TypeInv, NewIdsAreFree, [Next]_vars PROVE Survives
  <2> SUFFICES ASSUME NEW pk \in Id, pc = "apply", pc' = "items",
                      rows[pk].state # "absent", rows[pk].ts > reply.ts
               PROVE  \E k \in Id : rows'[k] = rows[pk]
    OBVIOUS
  <2>1. ~App /\ ~Server /\ ~Environment /\ ~UNCHANGED vars
    BY DEF App, Server, ServerCreate, ServerUpdate, ServerRemove, ServerNotFound, CreateNotFound,
           ServerError,
           Environment, NetworkFailure, Crash, ForeignDelete, vars, sessionVars
  <2>2. ApplyDelete \/ ApplyWrite \/ \E moved \in BOOLEAN : ApplyWriteFails(moved)
    BY <1>2, <2>1 DEF Next, Session, StartSession, TakeItem, EndSession, DropItem, BodyFails,
                      RequestFails, FailItem, MetadataFails, WriteNotFound, BeginApply
  <2>3. CASE ApplyDelete
    BY <2>3 DEF ApplyDelete
  <2> QED
    BY <1>2, <2>2, <2>3, ReplacedRows
<1>3. TypeInv /\ NewIdsAreFree /\ [Next]_vars => NewIdsAreFree' /\ [Survives]_vars
  BY <1>2, IdsKeep
<1> HIDE DEF Survives
<1> QED
  BY <1>1, <1>3, InitTyped, StepTyped, PTL DEF Spec, NewerEditSurvives, Survives

=============================================================================
