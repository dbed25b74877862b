----------------------- MODULE SyncPushIdentity_proofs ----------------------
(***************************************************************************)
(* IdentityAgrees as a theorem: the queue, the metadata, the table and the *)
(* server agree on who is who, whatever the interleaving of writes, faults *)
(* and sessions, if the apply transaction is isolated and does not fail.   *)
(***************************************************************************)
EXTENDS SyncPush_proofs

\* No step but an upsert of a new row and a replace changes who is who.
SameIdentity ==
  \A l \in Id : meta'[l].entity = meta[l].entity /\ meta'[l].remote = meta[l].remote

ServerRowsStay ==
  \A s \in ServerIds : server[s].state # "absent" =>
    server'[s].state # "absent" /\ server'[s].origin = server[s].origin

\* Items stay resolvable when no item changes its entity.
LEMMA SameIdentityKeeps ==
  ASSUME TypeInv, TypeInv', EntitiesAreUnique, RemotesAgree, LocalsAreTracked, RowsAreTracked,
         SameIdentity, ServerRowsStay,
         \A pk \in Id : rows'[pk].state # "absent" => rows[pk].state # "absent"
  PROVE  EntitiesAreUnique' /\ RemotesAgree' /\ LocalsAreTracked' /\ RowsAreTracked'
<1>1. EntitiesAreUnique'
  BY DEF EntitiesAreUnique, SameIdentity
<1>2. RemotesAgree'
  <2> SUFFICES ASSUME NEW l \in Id, meta'[l].remote # None
               PROVE  /\ meta'[l].entity = meta'[l].remote
                      /\ server'[meta'[l].remote].state # "absent"
                      /\ server'[meta'[l].remote].origin = l
    BY DEF RemotesAgree
  <2>1. meta[l].remote = meta'[l].remote /\ meta[l].entity = meta'[l].entity
    BY DEF SameIdentity
  <2>2. meta[l].remote \in ServerIds
    BY <2>1 DEF TypeInv, TypeOK, StoreTypeOK, MetaRow
  <2> QED
    BY <2>1, <2>2 DEF RemotesAgree, ServerRowsStay
<1>3. LocalsAreTracked'
  BY DEF LocalsAreTracked, SameIdentity
<1>4. RowsAreTracked'
  BY DEF RowsAreTracked, SameIdentity
<1> QED
  BY <1>1, <1>2, <1>3, <1>4

LEMMA InitIdentity == Init => IdentityInv
<1> SUFFICES ASSUME Init PROVE IdentityInv
  OBVIOUS
<1>1. TypeInv
  BY InitTyped
<1>2. IdentityAgrees
  BY DEF Init, StoreInit, IdentityAgrees, QueueResolves, EntitiesAreUnique, RemotesAgree,
         Queued, NoItem, NoMeta
<1>3. LocalsAreTracked /\ RowsAreTracked /\ QueueIsBounded
  BY DEF Init, StoreInit, LocalsAreTracked, RowsAreTracked, QueueIsBounded, Queued,
         NoItem, NoMeta, AbsentRow
<1>4. BatchResolves /\ CurrentResolves /\ AnswerMatches /\ ApplyHasAnswer /\ LockIsApply
  BY DEF Init, StoreInit, BatchResolves, CurrentResolves, AnswerMatches, ApplyHasAnswer,
         LockIsApply, Busy, Answered, EmptyBatch, NotPending
<1> QED
  BY <1>1, <1>2, <1>3, <1>4 DEF IdentityInv

-----------------------------------------------------------------------------
(* The application's writes.                                               *)

\* A write outside the apply window adds one item, under a number no item
\* has yet, for the entity it wrote.
LEMMA WriteAddsItem ==
  ASSUME Isolated, IdentityInv, NEW pk \in Id,
         NEW op \in {"insert", "update", "delete"}, NEW st \in {"PENDING", "DELETED"},
         Write(op, pk, st)
  PROVE  /\ ~applyLock /\ ~applyLock'
         /\ nextItem \in ItemIds /\ ~Queued(nextItem)
         /\ queue'[nextItem] = [op |-> op, ent |-> pk, status |-> "PENDING"]
         /\ \A i \in ItemIds : i # nextItem => queue'[i] = queue[i]
         /\ nextItem' = nextItem + 1 /\ writes' = writes + 1
         /\ meta' = MetaUpsert(pk, st)
<1>1. /\ applyLock \in BOOLEAN /\ nextItem \in Nat \ {0} /\ writes \in Nat \ {0}
      /\ queue \in [ItemIds -> Item]
  BY DEF IdentityInv, TypeInv, TypeOK, StoreTypeOK
<1>2. ~applyLock
  BY DEF Isolated, Write
<1>3. ~applyLock'
  BY <1>2 DEF Write
<1>4. nextItem \in ItemIds /\ ~Queued(nextItem)
  <2>1. nextItem <= writes /\ writes <= MaxWrites
    BY DEF IdentityInv, QueueIsBounded, Write
  <2>2. nextItem \in ItemIds
    BY <1>1, <2>1, BoundsAssumption DEF ItemIds
  <2> QED
    BY <1>1, <2>2 DEF IdentityInv, QueueIsBounded
<1>5. /\ queue' = [queue EXCEPT ![nextItem] = [op |-> op, ent |-> pk, status |-> "PENDING"]]
      /\ nextItem' = nextItem + 1 /\ writes' = writes + 1
      /\ meta' = MetaUpsert(pk, st)
  BY <1>2 DEF Write, Triggered
<1> QED
  BY <1>1, <1>2, <1>3, <1>4, <1>5

\* A primary key the application has just generated is nobody's entity.
LEMMA FreshIsUntracked ==
  ASSUME IdentityInv, NEW pk \in LocalIds, meta[pk].entity = None
  PROVE  \A l \in Id : meta[l].entity # pk
<1> SUFFICES ASSUME NEW l \in Id, meta[l].entity = pk PROVE FALSE
  OBVIOUS
<1>1. pk \in Id /\ pk # None /\ pk \notin ServerIds
  BY IdsAssumption DEF Id
<1>2. meta[l].remote # None \/ l = pk
  BY <1>1 DEF IdentityInv, LocalsAreTracked
<1>3. meta[l].remote # None => pk \in ServerIds
  BY DEF IdentityInv, IdentityAgrees, RemotesAgree, TypeInv, TypeOK, StoreTypeOK, MetaRow
<1> QED
  BY <1>1, <1>2, <1>3

\* The four statements come down to two cases: a new row that gets metadata
\* of its own, and a row that is tracked already and stays so.
AppWrites(pk, op) ==
  /\ ~applyLock /\ ~applyLock'
  /\ nextItem \in ItemIds /\ ~Queued(nextItem)
  /\ queue'[nextItem] = [op |-> op, ent |-> pk, status |-> "PENDING"]
  /\ \A i \in ItemIds : i # nextItem => queue'[i] = queue[i]
  /\ nextItem' = nextItem + 1 /\ writes' = writes + 1
  /\ \/ /\ pk \in LocalIds /\ op = "insert"
        /\ rows[pk].state = "absent"
        /\ \A l \in Id : meta[l].entity # pk
        /\ meta[pk].entity = None
        /\ meta' = [meta EXCEPT ![pk] =
                      [entity |-> pk, remote |-> None, status |-> "PENDING"]]
     \/ /\ \E l \in Id : meta[l].entity = pk
        /\ rows[pk].state # "absent"
        /\ SameIdentity
        /\ \A l \in Id : meta[l].entity # pk => meta'[l] = meta[l]
        /\ rows'[pk].state = "live" => rows[pk].state = "live"
  /\ \A k \in Id \ {pk} : rows'[k] = rows[k]
  /\ op = "delete" <=> rows'[pk].state = "absent"

LEMMA AppIdentityCases ==
  ASSUME Isolated, IdentityInv, App
  PROVE  \E pk \in Id, op \in {"insert", "update", "delete"} : AppWrites(pk, op)
<1>1. meta \in [Id -> MetaRow] /\ rows \in [Id -> Row]
  BY DEF IdentityInv, TypeInv, TypeOK, StoreTypeOK
<1>2. PICK pk \in Id : Insert(pk) \/ Update(pk) \/ SoftDelete(pk) \/ HardDelete(pk)
  BY DEF App, AppWrite
<1>3. CASE Insert(pk)
  <2>1. pk \in LocalIds /\ meta[pk].entity = None /\ Write("insert", pk, "PENDING")
    BY <1>3 DEF Insert
  <2>2. \A l \in Id : meta[l].entity # pk
    BY <2>1, FreshIsUntracked
  <2>3. meta' = [meta EXCEPT ![pk] = [entity |-> pk, remote |-> None, status |-> "PENDING"]]
    BY <2>1, <2>2, WriteAddsItem DEF MetaUpsert
  <2>4. rows[pk].state = "absent" /\ \A k \in Id \ {pk} : rows'[k] = rows[k]
    BY <1>1, <1>3 DEF Insert
  <2>5. rows'[pk].state # "absent"
    BY <1>1, <1>3 DEF Insert
  <2> QED
    BY <2>1, <2>2, <2>3, <2>4, <2>5, WriteAddsItem DEF AppWrites
<1>4. ASSUME NEW op \in {"update", "delete"}, NEW st \in {"PENDING", "DELETED"},
             Write(op, pk, st), rows[pk].state # "absent",
             \A k \in Id \ {pk} : rows'[k] = rows[k],
             op = "delete" <=> rows'[pk].state = "absent",
             rows'[pk].state = "live" => rows[pk].state = "live"
      PROVE  AppWrites(pk, op)
  <2>1. \E l \in Id : meta[l].entity = pk
    BY <1>4 DEF IdentityInv, RowsAreTracked
  <2>2. meta' = MetaUpsert(pk, st)
    BY <1>4, WriteAddsItem
  <2>3. SameIdentity /\ \A l \in Id : meta[l].entity # pk => meta'[l] = meta[l]
    BY <1>1, <2>1, <2>2 DEF MetaUpsert, SameIdentity, MetaRow
  <2> QED
    BY <1>4, <2>1, <2>3, WriteAddsItem DEF AppWrites
<1>5. CASE Update(pk)
  <2>1. /\ rows[pk].state # "absent" /\ \A k \in Id \ {pk} : rows'[k] = rows[k]
        /\ rows'[pk].state = rows[pk].state
    BY <1>1, <1>5 DEF Update, Row
  <2>2. PICK st \in {"PENDING", "DELETED"} : Write("update", pk, st)
    <3>1. CASE rows[pk].state = "tombstoned"
      BY <1>5, <3>1 DEF Update
    <3>2. CASE rows[pk].state # "tombstoned"
      BY <1>5, <3>2 DEF Update
    <3> QED
      BY <3>1, <3>2
  <2> QED
    BY <1>4, <2>1, <2>2
<1>6. CASE SoftDelete(pk)
  <2>1. /\ rows[pk].state # "absent" /\ \A k \in Id \ {pk} : rows'[k] = rows[k]
        /\ Write("update", pk, "DELETED") /\ rows'[pk].state = "tombstoned"
    BY <1>1, <1>6 DEF SoftDelete, Row
  <2> QED
    BY <1>4, <2>1
<1>7. CASE HardDelete(pk)
  <2>1. /\ rows[pk].state # "absent" /\ \A k \in Id \ {pk} : rows'[k] = rows[k]
        /\ Write("delete", pk, "DELETED") /\ rows'[pk].state = "absent"
    BY <1>1, <1>7 DEF HardDelete, AbsentRow
  <2> QED
    BY <1>4, <2>1
<1> QED
  BY <1>2, <1>3, <1>5, <1>6, <1>7

LEMMA AppIdentity ==
  ASSUME Isolated, IdentityInv, App
  PROVE  IdentityInv'
<1> PICK pk \in Id, op \in {"insert", "update", "delete"} : AppWrites(pk, op)
  BY AppIdentityCases
<1> USE DEF AppWrites
<1>0. TypeInv /\ TypeInv'
  BY AppTyped DEF IdentityInv
<1>1. /\ meta \in [Id -> MetaRow] /\ meta' \in [Id -> MetaRow] /\ rows \in [Id -> Row]
      /\ nextItem \in Nat /\ writes \in Nat
  BY <1>0 DEF TypeInv, TypeOK, StoreTypeOK
<1>2. UNCHANGED <<pc, batch, cur, reply, saved, server>>
  BY DEF App, sessionVars, serverVars
<1>3. pc # "apply"
  BY DEF IdentityInv, LockIsApply
<1>4. /\ \A l \in Id : l # pk => meta'[l].entity = meta[l].entity /\ meta'[l].remote = meta[l].remote
      /\ meta[pk].entity # None =>
           meta'[pk].entity = meta[pk].entity /\ meta'[pk].remote = meta[pk].remote
      /\ \A l \in Id : meta'[l].remote = meta[l].remote
      /\ \A l \in Id : meta[l].entity # None => meta'[l].entity = meta[l].entity
  <2>1. meta[pk].entity = None => meta[pk].remote = None
    BY <1>0, <1>1, IdsAssumption DEF TypeInv, RemoteIsEntity, Id
  <2> QED
    BY <1>1, <2>1 DEF SameIdentity
<1>5. /\ EntitiesAreUnique' /\ RemotesAgree' /\ LocalsAreTracked' /\ RowsAreTracked'
  <2>1. CASE SameIdentity /\ rows[pk].state # "absent"
    <3>1. ServerRowsStay
      BY <1>2 DEF ServerRowsStay
    <3>2. \A k \in Id : rows'[k].state # "absent" => rows[k].state # "absent"
      BY <2>1
    <3> QED
      BY <1>0, <2>1, <3>1, <3>2, SameIdentityKeeps DEF IdentityInv, IdentityAgrees
  <2>2. CASE /\ pk \in LocalIds
             /\ \A l \in Id : meta[l].entity # pk
             /\ meta[pk].entity = None
             /\ meta' = [meta EXCEPT ![pk] =
                           [entity |-> pk, remote |-> None, status |-> "PENDING"]]
    <3>1. meta'[pk].entity = pk /\ meta'[pk].remote = None
      BY <1>1, <2>2
    <3>2. EntitiesAreUnique'
      BY <1>4, <2>2, <3>1 DEF EntitiesAreUnique, IdentityInv, IdentityAgrees
    <3>3. RemotesAgree'
      BY <1>2, <1>4, <3>1 DEF RemotesAgree, IdentityInv, IdentityAgrees
    <3>4. LocalsAreTracked'
      BY <1>4, <2>2, <3>1 DEF LocalsAreTracked, IdentityInv
    <3>5. RowsAreTracked'
      <4>1. ASSUME NEW k \in Id, rows'[k].state # "absent", k # pk
            PROVE  \E l \in Id : meta'[l].entity = k
        <5>1. PICK l \in Id : meta[l].entity = k
          BY <4>1 DEF RowsAreTracked, IdentityInv
        <5> QED
          BY <1>4, <5>1, <4>1, IdsAssumption
      <4> QED
        BY <3>1, <4>1 DEF RowsAreTracked
    <3> QED
      BY <3>2, <3>3, <3>4, <3>5
  <2> QED
    BY <2>1, <2>2
<1>6. \E l \in Id : meta'[l].entity = pk
  BY <1>1 DEF SameIdentity
<1>7. QueueResolves'
  <2> SUFFICES ASSUME NEW i \in ItemIds, Queued(i)'
               PROVE  \E l \in Id : meta'[l].entity = queue'[i].ent
    BY DEF QueueResolves
  <2>1. CASE i = nextItem
    BY <1>6, <2>1
  <2>2. CASE i # nextItem
    <3>1. Queued(i) /\ queue'[i].ent = queue[i].ent
      BY <2>2 DEF Queued
    <3>2. queue[i].ent \in Id
      BY <1>0, <3>1 DEF TypeInv, ItemsAreQueued
    <3>3. PICK l \in Id : meta[l].entity = queue[i].ent
      BY <3>1 DEF IdentityInv, IdentityAgrees, QueueResolves
    <3> QED
      BY <1>4, <3>1, <3>2, <3>3, IdsAssumption
  <2> QED
    BY <2>1, <2>2
<1>8. QueueIsBounded'
  BY <1>1 DEF IdentityInv, QueueIsBounded, Queued, ItemIds
<1>9. BatchResolves'
  <2> SUFFICES ASSUME NEW i \in ItemIds, batch[i].todo
               PROVE  /\ batch[i].local \in Id
                      /\ meta'[batch[i].local].entity = queue'[i].ent
                      /\ meta'[batch[i].local].remote = None => batch[i].ent = queue'[i].ent
    BY <1>2 DEF BatchResolves
  <2>1. Queued(i) /\ queue'[i] = queue[i] /\ queue[i].ent \in Id
    BY <1>0 DEF TypeInv, ItemsAreQueued
  <2> QED
    BY <1>4, <2>1, IdsAssumption DEF IdentityInv, BatchResolves
<1>10. CurrentResolves'
  <2> SUFFICES ASSUME Busy
               PROVE  /\ meta'[cur.local].entity = queue'[cur.item].ent
                      /\ cur.cid = queue'[cur.item].ent
                      /\ cur.remote = meta'[cur.local].remote
                      /\ cur.act = "POST" => cur.remote = None
                      /\ cur.act = "PATCH" => cur.remote # None
    BY <1>2 DEF CurrentResolves, Busy
  <2>1. /\ cur.item \in ItemIds /\ Queued(cur.item) /\ cur.local \in Id
        /\ queue'[cur.item] = queue[cur.item] /\ queue[cur.item].ent \in Id
    BY <1>0 DEF TypeInv, ItemsAreQueued
  <2> QED
    BY <1>4, <2>1, IdsAssumption DEF IdentityInv, CurrentResolves
<1>11. AnswerMatches' /\ ApplyHasAnswer' /\ LockIsApply'
  BY <1>2, <1>3 DEF IdentityInv, AnswerMatches, Answered, ApplyHasAnswer, LockIsApply
<1> QED
  BY <1>0, <1>5, <1>7, <1>8, <1>9, <1>10, <1>11 DEF IdentityInv, IdentityAgrees

-----------------------------------------------------------------------------
(* The session.                                                            *)

\* A step that changes neither the store nor the server only has to keep
\* what the session knows about its items.
LEMMA StoreUntouched ==
  ASSUME IdentityInv, TypeInv', UNCHANGED <<rows, queue, nextItem, meta, writes>>, ServerRowsStay,
         BatchResolves', CurrentResolves', AnswerMatches', ApplyHasAnswer', LockIsApply'
  PROVE  IdentityInv'
<1>1. SameIdentity
  BY DEF SameIdentity
<1>2. EntitiesAreUnique' /\ RemotesAgree' /\ LocalsAreTracked' /\ RowsAreTracked'
  BY <1>1, SameIdentityKeeps DEF IdentityInv, IdentityAgrees
<1>3. QueueResolves' /\ QueueIsBounded'
  BY DEF IdentityInv, IdentityAgrees, QueueResolves, QueueIsBounded, Queued
<1> QED
  BY <1>2, <1>3 DEF IdentityInv, IdentityAgrees

LEMMA ReadingIdentity ==
  ASSUME IdentityInv, StartSession \/ EndSession \/ \E i \in ItemIds : TakeItem(i)
  PROVE  IdentityInv'
<1>0. TypeInv /\ TypeInv'
  BY ReadingTyped DEF IdentityInv
<1>1. UNCHANGED <<storeVars, serverVars, reply, saved>>
  BY DEF StartSession, EndSession, TakeItem
<1>2. UNCHANGED <<rows, queue, nextItem, meta, applyLock, writes, server>>
  BY <1>1 DEF storeVars, serverVars
<1>3. pc \in {"idle", "items"} /\ pc' \in {"idle", "items", "call", "local"}
  BY DEF StartSession, EndSession, TakeItem
<1>4. AnswerMatches' /\ ApplyHasAnswer' /\ LockIsApply'
  BY <1>1, <1>2, <1>3 DEF AnswerMatches, Answered, ApplyHasAnswer, LockIsApply, IdentityInv
<1>5. CASE StartSession
  <2>1. CurrentResolves'
    BY <1>5 DEF StartSession, CurrentResolves, Busy
  <2>2. BatchResolves'
    <3> SUFFICES ASSUME NEW i \in ItemIds, batch'[i].todo
                 PROVE  /\ meta[batch'[i].local].entity = queue[i].ent
                        /\ batch'[i].local \in Id
                        /\ batch'[i].ent = queue[i].ent
      BY <1>2 DEF BatchResolves
    <3>1. /\ i \in FirstReadable(PushLimit)
          /\ batch'[i] = [todo |-> TRUE, ent |-> queue[i].ent, local |-> LocalIdOf(queue[i].ent)]
      BY <1>5 DEF StartSession, NotPending
    <3>2. Queued(i)
      BY <3>1 DEF FirstReadable, Readable, Queued
    <3>3. \E l \in Id : meta[l].entity = queue[i].ent
      BY <3>2 DEF IdentityInv, IdentityAgrees, QueueResolves
    <3>4. LocalIdOf(queue[i].ent) \in Id /\ meta[LocalIdOf(queue[i].ent)].entity = queue[i].ent
      BY <3>3 DEF LocalIdOf
    <3> QED
      BY <3>1, <3>4
  <2> QED
    BY <1>0, <1>2, <1>4, <2>1, <2>2, StoreUntouched DEF IdentityInv, ServerRowsStay
<1>6. CASE EndSession
  <2>1. CurrentResolves' /\ BatchResolves'
    BY <1>2, <1>6 DEF EndSession, CurrentResolves, BatchResolves, Busy
  <2> QED
    BY <1>0, <1>2, <1>4, <2>1, StoreUntouched DEF IdentityInv, ServerRowsStay
<1>7. ASSUME NEW i \in ItemIds, TakeItem(i)
      PROVE  IdentityInv'
  <2> DEFINE remote == RemoteOf(i)
             cid == IF remote = None THEN batch[i].ent ELSE remote
             act == ActionFor(queue[i].op, rows[cid], remote)
  <2>1. /\ batch[i].todo /\ batch' = [batch EXCEPT ![i] = NotPending]
        /\ cur' = [item |-> i,
                   local |-> IF batch[i].local = None THEN batch[i].ent ELSE batch[i].local,
                   cid |-> cid, remote |-> remote, act |-> act,
                   ver |-> rows[cid].ver, tries |-> 0]
    BY <1>7 DEF TakeItem
  <2>2. /\ batch[i].local \in Id /\ batch[i].local # None /\ meta[batch[i].local].entity = queue[i].ent
        /\ meta[batch[i].local].remote = None => batch[i].ent = queue[i].ent
    BY <2>1, IdsAssumption DEF IdentityInv, BatchResolves
  <2>3. remote = meta[batch[i].local].remote
    BY <2>2 DEF RemoteOf
  <2>4. cid = queue[i].ent
    BY <2>2, <2>3 DEF IdentityInv, IdentityAgrees, RemotesAgree
  <2>5. (act = "POST" => remote = None) /\ (act = "PATCH" => remote # None)
    BY DEF ActionFor
  <2> HIDE DEF remote, cid, act
  <2>6. CurrentResolves'
    BY <1>2, <2>1, <2>2, <2>3, <2>4, <2>5 DEF CurrentResolves
  <2>7. batch \in [ItemIds -> Pending]
    BY <1>0 DEF TypeInv, TypeOK
  <2>8. BatchResolves'
    BY <1>2, <2>1, <2>7 DEF IdentityInv, BatchResolves, NotPending
  <2> QED
    BY <1>0, <1>2, <1>4, <2>6, <2>8, StoreUntouched DEF IdentityInv, ServerRowsStay
<1> QED
  BY <1>5, <1>6, <1>7

\* Settling the current item without touching identities.
LEMMA SettledIdentity ==
  ASSUME IdentityInv, DropItem \/ MetadataFails \/ WriteNotFound \/ ApplyDelete
  PROVE  IdentityInv'
<1>0. TypeInv /\ TypeInv'
  BY SettledTyped, EndApplyTyped DEF IdentityInv
<1>1. /\ cur.item \in ItemIds /\ Queued(cur.item) /\ queue[cur.item].ent \in Id /\ Busy
      /\ cur.local \in Id /\ ~batch[cur.item].todo
  BY <1>0 DEF TypeInv, ItemsAreQueued, Busy, DropItem, MetadataFails, WriteNotFound, ApplyDelete
<1>2. /\ UNCHANGED <<rows, nextItem, writes, server, batch>>
      /\ NextItem
      /\ meta' = meta \/ meta' = MarkFailed(cur.local)
      /\ \/ queue' = WithoutItem(queue, cur.item)
         \/ queue' = WithStatus(queue, cur.item, "BLOCKED")
         \/ queue' = queue
  BY DEF DropItem, MetadataFails, WriteNotFound, ApplyDelete, EndApply, serverVars
<1>3. SameIdentity
  BY <1>0, <1>1, <1>2, MarkFailedTyped DEF SameIdentity
<1>4. /\ \A i \in ItemIds : i # cur.item => queue'[i] = queue[i]
      /\ queue'[cur.item].status = "NONE" \/ queue'[cur.item].ent = queue[cur.item].ent
  BY <1>0, <1>1, <1>2, ItemEdits
<1>5. LockIsApply'
  <2>1. pc' = "items"
    BY <1>2 DEF NextItem
  <2>2. applyLock' \in BOOLEAN
    BY <1>0 DEF TypeInv, TypeOK, StoreTypeOK
  <2>3. applyLock' = FALSE
    BY DEF DropItem, MetadataFails, WriteNotFound, ApplyDelete, EndApply, IdentityInv, LockIsApply
  <2> QED
    BY <2>1, <2>3 DEF LockIsApply
<1>6. EntitiesAreUnique' /\ RemotesAgree' /\ LocalsAreTracked' /\ RowsAreTracked'
  <2>1. ServerRowsStay /\ \A k \in Id : rows'[k].state # "absent" => rows[k].state # "absent"
    BY <1>2 DEF ServerRowsStay
  <2> QED
    BY <1>0, <1>3, <2>1, SameIdentityKeeps DEF IdentityInv, IdentityAgrees
<1>7. QueueResolves' /\ QueueIsBounded'
  BY <1>1, <1>2, <1>3, <1>4
     DEF IdentityInv, IdentityAgrees, QueueResolves, QueueIsBounded, Queued, SameIdentity
<1>8. BatchResolves'
  <2>1. \A i \in ItemIds : batch[i].todo => i # cur.item
    BY <1>1
  <2> QED
    BY <1>2, <1>3, <1>4, <2>1 DEF IdentityInv, BatchResolves, SameIdentity
<1>9. CurrentResolves' /\ AnswerMatches' /\ ApplyHasAnswer'
  BY <1>2 DEF NextItem, CurrentResolves, AnswerMatches, Answered, ApplyHasAnswer, Busy
<1> QED
  BY <1>0, <1>5, <1>6, <1>7, <1>8, <1>9 DEF IdentityInv, IdentityAgrees

\* A failed item changes its status and nothing else.
LEMMA ItemFailedIdentity == ASSUME IdentityInv, BodyFails \/ RequestFails PROVE IdentityInv'
<1>0. TypeInv /\ TypeInv'
  BY ItemFailedTyped DEF IdentityInv
<1>1. ItemFailed
  BY <1>0, ItemFailedFacts
<1>2. /\ UNCHANGED <<rows, nextItem, meta, applyLock, writes, server, batch, cur, reply, saved>>
      /\ pc' = "failed" /\ Busy /\ pc # "apply"
      /\ \A i \in ItemIds : queue'[i].ent = queue[i].ent /\ (Queued(i)' <=> Queued(i))
      /\ cur.item \in ItemIds
  BY <1>1 DEF ItemFailed, Queued
<1>3. SameIdentity /\ ServerRowsStay
  BY <1>2 DEF SameIdentity, ServerRowsStay
<1>4. EntitiesAreUnique' /\ RemotesAgree' /\ LocalsAreTracked' /\ RowsAreTracked'
  <2>1. \A k \in Id : rows'[k].state # "absent" => rows[k].state # "absent"
    BY <1>2
  <2> QED
    BY <1>0, <1>3, <2>1, SameIdentityKeeps DEF IdentityInv, IdentityAgrees
<1>5. QueueResolves' /\ QueueIsBounded'
  BY <1>2 DEF IdentityInv, IdentityAgrees, QueueResolves, QueueIsBounded
<1>6. BatchResolves' /\ CurrentResolves'
  BY <1>2 DEF IdentityInv, BatchResolves, CurrentResolves, Busy
<1>7. AnswerMatches' /\ ApplyHasAnswer' /\ LockIsApply'
  BY <1>2 DEF IdentityInv, AnswerMatches, Answered, ApplyHasAnswer, LockIsApply
<1> QED
  BY <1>0, <1>4, <1>5, <1>6, <1>7 DEF IdentityInv, IdentityAgrees

LEMMA BeginApplyIdentity == ASSUME IdentityInv, BeginApply PROVE IdentityInv'
<1>0. TypeInv /\ TypeInv'
  BY BeginApplyTyped DEF IdentityInv
<1>1. /\ pc' = "apply" /\ applyLock' = TRUE /\ saved' = rows /\ Busy
      /\ UNCHANGED <<rows, queue, nextItem, meta, writes, clock,
                     serverVars, batch, cur, reply, disturbances, uncertain>>
  BY DEF BeginApply, NeedsApply, Busy
<1>2. UNCHANGED server
  BY <1>1 DEF serverVars
<1>3. pc = "reply" \/ (pc = "local" /\ cur.act = "CONFIRM")
  BY DEF BeginApply, NeedsApply
<1>4. BatchResolves' /\ CurrentResolves' /\ LockIsApply'
  BY <1>1 DEF IdentityInv, BatchResolves, CurrentResolves, LockIsApply, Busy
<1>5. ApplyHasAnswer'
  BY <1>1 DEF BeginApply, NeedsApply, ApplyHasAnswer
<1>6. AnswerMatches'
  <2>1. CASE pc = "reply"
    BY <1>1, <1>2, <2>1 DEF IdentityInv, AnswerMatches, Answered
  <2>2. CASE pc = "local" /\ cur.act = "CONFIRM"
    BY <1>1, <1>2, <2>2 DEF IdentityInv, AnswerMatches, Answered
  <2> QED
    BY <1>3, <2>1, <2>2
<1> QED
  BY <1>0, <1>1, <1>2, <1>4, <1>5, <1>6, StoreUntouched DEF ServerRowsStay

\* The replace: row, metadata and queue move to the new primary key together.
LEMMA ReplaceIdentity == ASSUME IdentityInv, ApplyWrite PROVE IdentityInv'
<1> DEFINE old == OldEntity
           new == ResolvedEntity
           L == cur.local
<1>0. TypeInv /\ TypeInv'
  BY EndApplyTyped DEF IdentityInv
<1>1. /\ pc = "apply" /\ cur.act \in {"POST", "PATCH"} /\ old # None
      /\ meta' = MarkReplaced(L, new)
      /\ rows' = WithEcho(Moved(old, new), new)
      /\ queue' = EntityRewritten(WithoutItem(queue, cur.item), old, new)
      /\ UNCHANGED <<nextItem, writes, server, batch>>
      /\ applyLock' = FALSE /\ NextItem
  BY DEF ApplyWrite, EndApply, serverVars
<1>2. /\ old \in Id /\ new \in ServerIds /\ new \in Id /\ new # None
      /\ L \in Id /\ old = meta[L].entity /\ Busy /\ Answered
      /\ cur.item \in ItemIds /\ Queued(cur.item)
      /\ old = cur.cid /\ old = queue[cur.item].ent
  <2>1. old \in Id /\ new \in ServerIds
    BY <1>0, <1>1, ReplaceTyped
  <2>2. Busy /\ Answered
    BY <1>1 DEF IdentityInv, ApplyHasAnswer, Busy, Answered
  <2> QED
    BY <1>0, <2>1, <2>2, IdsAssumption
       DEF IdentityInv, CurrentResolves, TypeInv, ItemsAreQueued, OldEntity, Id
<1>3. /\ meta \in [Id -> MetaRow] /\ rows \in [Id -> Row] /\ queue \in [ItemIds -> Item]
  BY <1>0 DEF TypeInv, TypeOK, StoreTypeOK
\* The new id is either the old one or a row this POST has just created.
<1>4. /\ server[new].state # "absent" /\ server[new].origin = L
      /\ new = old \/ \A l \in Id : meta[l].entity # new
  <2>1. CASE cur.act = "PATCH"
    <3>1. meta[L].remote # None
      BY <1>2, <2>1 DEF IdentityInv, CurrentResolves
    <3>2. old = meta[L].remote /\ server[old].state # "absent" /\ server[old].origin = L
      <4>1. RemotesAgree /\ cur.local \in Id
        BY <1>2 DEF IdentityInv, IdentityAgrees
      <4>2. /\ meta[cur.local].entity = meta[cur.local].remote
            /\ server[meta[cur.local].remote].state # "absent"
            /\ server[meta[cur.local].remote].origin = cur.local
        BY <3>1, <4>1 DEF RemotesAgree
      <4> QED
        BY <1>2, <4>2
    <3>3. new = old
      BY <1>2, <2>1 DEF IdentityInv, AnswerMatches, ResolvedEntity
    <3> QED
      BY <3>2, <3>3
  <2>2. CASE cur.act = "POST"
    <3>1. new = reply.id
      BY <1>0, <1>1, <2>2 DEF TypeInv, PostIsEchoed, ResolvedEntity
    <3>2. server[new].state # "absent" /\ server[new].origin = L
      BY <1>2, <2>2, <3>1 DEF IdentityInv, AnswerMatches
    <3>3. ASSUME NEW l \in Id, meta[l].entity = new
          PROVE  FALSE
      <4>1. l \in LocalIds /\ (meta[l].remote # None \/ new = l)
        BY <1>2, <3>3 DEF IdentityInv, LocalsAreTracked
      <4>2. meta[l].remote # None
        BY <1>2, <4>1, IdsAssumption
      <4>3. meta[l].remote = new /\ server[new].origin = l
        BY <3>3, <4>2 DEF IdentityInv, IdentityAgrees, RemotesAgree
      <4>4. meta[L].remote = new
        BY <3>2, <4>3
      <4>5. meta[L].remote = None
        BY <1>2, <2>2 DEF IdentityInv, CurrentResolves
      <4> QED
        BY <1>2, <4>4, <4>5
    <3> QED
      BY <3>2, <3>3
  <2> QED
    BY <1>1, <2>1, <2>2
<1> HIDE DEF old, new, L
<1>5. /\ meta'[L].entity = new /\ meta'[L].remote = new
      /\ \A l \in Id : l # L => meta'[l].entity = meta[l].entity /\ meta'[l].remote = meta[l].remote
  BY <1>1, <1>2, <1>3 DEF MarkReplaced
<1>6. EntitiesAreUnique'
  <2> SUFFICES ASSUME NEW l \in Id, NEW m \in Id, meta'[l].entity = meta'[m].entity, l # m
               PROVE  meta'[l].entity = None
    BY DEF EntitiesAreUnique
  <2>1. \A k \in Id : k # L => meta[k].entity # new
    <3>1. CASE new = old
      BY <1>2, <3>1 DEF IdentityInv, IdentityAgrees, EntitiesAreUnique
    <3>2. CASE \A k \in Id : meta[k].entity # new
      BY <3>2
    <3> QED
      BY <1>4, <3>1, <3>2
  <2> QED
    BY <1>5, <2>1 DEF IdentityInv, IdentityAgrees, EntitiesAreUnique
<1>7. RemotesAgree'
  BY <1>1, <1>4, <1>5 DEF IdentityInv, IdentityAgrees, RemotesAgree
<1>8. LocalsAreTracked'
  BY <1>1, <1>2, <1>5 DEF IdentityInv, LocalsAreTracked
<1>9. \A k \in Id : rows'[k].state # "absent" => k = new \/ (k # old /\ rows[k].state # "absent")
  <2>1. Moved(old, new) \in [Id -> Row]
    BY <1>0, <1>1, ReplaceTyped DEF old, new
  <2>2. \A k \in Id : k # new => rows'[k] = Moved(old, new)[k]
    BY <1>1, <1>2, <2>1 DEF WithEcho
  <2>3. \A k \in Id : k # new => Moved(old, new)[k] = IF k = old THEN AbsentRow ELSE rows[k]
    BY <1>2, <1>3 DEF Moved
  <2> QED
    BY <2>2, <2>3 DEF AbsentRow
<1>10. RowsAreTracked'
  <2> SUFFICES ASSUME NEW k \in Id, rows'[k].state # "absent"
               PROVE  \E l \in Id : meta'[l].entity = k
    BY DEF RowsAreTracked
  <2>1. CASE k = new
    BY <1>2, <1>5, <2>1
  <2>2. CASE k # old /\ rows[k].state # "absent"
    <3>1. PICK l \in Id : meta[l].entity = k
      BY <2>2 DEF IdentityInv, RowsAreTracked
    <3>2. l # L
      BY <1>2, <2>2, <3>1
    <3> QED
      BY <1>5, <3>1, <3>2
  <2> QED
    BY <1>9, <2>1, <2>2
<1> DEFINE q == WithoutItem(queue, cur.item)
<1>11. /\ q \in [ItemIds -> Item]
       /\ \A i \in ItemIds \ {cur.item} : q[i] = queue[i]
       /\ q[cur.item].status = "NONE"
  BY <1>0, <1>2, ItemEdits
<1> HIDE DEF q
<1>12. \A i \in ItemIds :
         /\ Queued(i)' <=> i # cur.item /\ Queued(i)
         /\ Queued(i)' => queue'[i].ent = (IF queue[i].ent = old THEN new ELSE queue[i].ent)
  BY <1>1, <1>11 DEF EntityRewritten, Item, Queued, q
<1>13. QueueResolves'
  <2> SUFFICES ASSUME NEW i \in ItemIds, Queued(i)'
               PROVE  \E l \in Id : meta'[l].entity = queue'[i].ent
    BY DEF QueueResolves
  <2>1. Queued(i)
    BY <1>12
  <2>2. PICK l \in Id : meta[l].entity = queue[i].ent
    BY <2>1 DEF IdentityInv, IdentityAgrees, QueueResolves
  <2>3. CASE l = L
    BY <1>2, <1>5, <1>12, <2>2, <2>3
  <2>4. CASE l # L
    <3>1. queue[i].ent # old
      BY <1>2, <2>2, <2>4, IdsAssumption DEF IdentityInv, IdentityAgrees, EntitiesAreUnique
    <3> QED
      BY <1>5, <1>12, <2>2, <2>4, <3>1
  <2> QED
    BY <2>3, <2>4
<1>14. QueueIsBounded'
  BY <1>1, <1>12 DEF IdentityInv, QueueIsBounded
<1>15. BatchResolves'
  <2> SUFFICES ASSUME NEW i \in ItemIds, batch[i].todo
               PROVE  /\ batch[i].local \in Id
                      /\ meta'[batch[i].local].entity = queue'[i].ent
                      /\ meta'[batch[i].local].remote = None => batch[i].ent = queue'[i].ent
    BY <1>1 DEF BatchResolves
  <2>1. /\ Queued(i) /\ i # cur.item /\ batch[i].local \in Id
        /\ meta[batch[i].local].entity = queue[i].ent /\ queue[i].ent \in Id
        /\ meta[batch[i].local].remote = None => batch[i].ent = queue[i].ent
    BY <1>0, <1>2 DEF TypeInv, ItemsAreQueued, IdentityInv, BatchResolves
  <2>2. CASE batch[i].local = L
    BY <1>2, <1>5, <1>12, <2>1, <2>2
  <2>3. CASE batch[i].local # L
    <3>1. queue[i].ent # old
      BY <1>2, <2>1, <2>3, IdsAssumption DEF IdentityInv, IdentityAgrees, EntitiesAreUnique
    <3> QED
      BY <1>5, <1>12, <2>1, <2>3, <3>1
  <2> QED
    BY <2>2, <2>3
<1>16. CurrentResolves' /\ AnswerMatches' /\ ApplyHasAnswer' /\ LockIsApply'
  BY <1>1 DEF NextItem, CurrentResolves, AnswerMatches, Answered, ApplyHasAnswer, LockIsApply, Busy
<1> QED
  BY <1>0, <1>6, <1>7, <1>8, <1>10, <1>13, <1>14, <1>15, <1>16 DEF IdentityInv, IdentityAgrees

-----------------------------------------------------------------------------
(* The server, the network and the device's process.                       *)

\* The server's answer is about the row the request was built from; a new row
\* takes an id no metadata points at.
LEMMA ServerIdentity == ASSUME IdentityInv, Server PROVE IdentityInv'
<1>0. TypeInv /\ TypeInv'
  BY ServerTyped DEF IdentityInv
<1>1. /\ pc = "call" /\ pc' = "reply"
      /\ UNCHANGED <<storeVars, batch, cur, saved>>
  BY DEF Server, ServerCreate, ServerUpdate, ServerRemove, ServerNotFound, CreateNotFound,
         ServerError, Answer
<1>2. UNCHANGED <<rows, queue, nextItem, meta, writes, applyLock>>
  BY <1>1 DEF storeVars
<1>3. BatchResolves' /\ CurrentResolves' /\ ApplyHasAnswer' /\ LockIsApply'
  BY <1>1, <1>2 DEF IdentityInv, BatchResolves, CurrentResolves, ApplyHasAnswer, LockIsApply, Busy
<1>4. /\ server \in [ServerIds -> ServerRow] /\ cur.local \in Id /\ Busy
      /\ cur.act = "PATCH" => cur.cid \in ServerIds
  <2>1. Busy /\ cur.local \in Id /\ server \in [ServerIds -> ServerRow]
    BY <1>0, <1>1 DEF TypeInv, TypeOK, ItemsAreQueued, Busy
  <2>2. ASSUME cur.act = "PATCH" PROVE cur.cid \in ServerIds
    <3>1. meta[cur.local].remote # None /\ meta[cur.local].entity = cur.cid
      BY <2>1, <2>2 DEF IdentityInv, CurrentResolves
    <3>2. meta[cur.local].remote = cur.cid
      BY <2>1, <3>1 DEF IdentityInv, IdentityAgrees, RemotesAgree
    <3> QED
      BY <1>0, <2>1, <3>1, <3>2 DEF TypeInv, TypeOK, StoreTypeOK, MetaRow
  <2> QED
    BY <2>1, <2>2
<1>5. ServerRowsStay /\ AnswerMatches'
  <2>1. ASSUME NEW s \in ServerIds, NEW echo \in BOOLEAN, ServerCreate(s, echo)
        PROVE  ServerRowsStay /\ AnswerMatches'
    <3>1. /\ cur.act = "POST" /\ server[s].state = "absent"
          /\ server' = [server EXCEPT ![s] = [state |-> "live", ver |-> cur.ver,
                                              ts |-> lastTick', origin |-> cur.local]]
          /\ reply' = [code |-> "ok", echo |-> echo, id |-> s, ver |-> cur.ver, ts |-> lastTick']
      BY <2>1 DEF ServerCreate, Answer
    <3>2. ServerRowsStay
      BY <1>4, <3>1 DEF ServerRowsStay
    <3>3. AnswerMatches'
      BY <1>1, <1>4, <3>1 DEF AnswerMatches
    <3> QED
      BY <3>2, <3>3
  <2>2. ASSUME NEW echo \in BOOLEAN, ServerUpdate(echo)
        PROVE  ServerRowsStay /\ AnswerMatches'
    <3>1. /\ cur.act = "PATCH" /\ server[cur.cid].state = "live"
          /\ server' = [server EXCEPT ![cur.cid].ver = cur.ver, ![cur.cid].ts = lastTick']
          /\ reply' = [code |-> "ok", echo |-> echo, id |-> cur.cid, ver |-> cur.ver,
                       ts |-> lastTick']
      BY <2>2 DEF ServerUpdate, Answer, Alive
    <3>2. /\ server'[cur.cid].ver = cur.ver
          /\ \A s \in ServerIds : /\ server'[s].state = server[s].state
                                  /\ server'[s].origin = server[s].origin
      BY <1>4, <3>1 DEF ServerRow
    <3>3. ServerRowsStay
      BY <3>2 DEF ServerRowsStay
    <3>4. AnswerMatches'
      BY <1>1, <1>4, <3>1, <3>2 DEF AnswerMatches
    <3> QED
      BY <3>3, <3>4
  <2>3. CASE ServerRemove
    <3>1. /\ cur.act = "DELETE"
          /\ server' = [server EXCEPT ![cur.cid].state = "tombstoned", ![cur.cid].ts = lastTick']
      BY <2>3 DEF ServerRemove
    <3>2. \A s \in ServerIds : /\ server[s].state # "absent" => server'[s].state # "absent"
                               /\ server'[s].origin = server[s].origin
      BY <1>4, <3>1 DEF ServerRow
    <3> QED
      BY <1>1, <3>1, <3>2 DEF AnswerMatches, ServerRowsStay
  <2>4. CASE ServerNotFound \/ CreateNotFound \/ ServerError
    <3>1. reply'.code # "ok" /\ server' = server
      BY <2>4 DEF ServerNotFound, CreateNotFound, ServerError, Answer, serverVars
    <3> QED
      BY <3>1 DEF AnswerMatches, Answered, ServerRowsStay
  <2> QED
    BY <2>1, <2>2, <2>3, <2>4 DEF Server
<1> QED
  BY <1>0, <1>2, <1>3, <1>5, StoreUntouched

LEMMA EnvironmentIdentity == ASSUME IdentityInv, Environment PROVE IdentityInv'
<1>0. TypeInv /\ TypeInv'
  BY EnvironmentTyped DEF IdentityInv
<1>1. CASE NetworkFailure
  <2>1. /\ UNCHANGED <<storeVars, serverVars, saved>> /\ reply' = NoReply
        /\ pc \in {"call", "reply"} /\ pc' \in {"call", "idle"}
    BY <1>1 DEF NetworkFailure
  <2>2. UNCHANGED <<rows, queue, nextItem, meta, writes, applyLock>> /\ server' = server
    BY <2>1 DEF storeVars, serverVars
  <2>3. AnswerMatches' /\ ApplyHasAnswer' /\ LockIsApply'
    BY <2>1, <2>2 DEF IdentityInv, AnswerMatches, Answered, ApplyHasAnswer, LockIsApply, NoReply
  <2>4. BatchResolves' /\ CurrentResolves'
    <3>1. CASE pc' = "idle" /\ batch' = EmptyBatch
      BY <2>2, <3>1 DEF BatchResolves, CurrentResolves, Busy, EmptyBatch, NotPending
    <3>2. CASE pc' = "call" /\ cur' = [cur EXCEPT !.tries = @ + 1] /\ UNCHANGED batch
      <4>1. /\ cur'.local = cur.local /\ cur'.cid = cur.cid /\ cur'.remote = cur.remote
            /\ cur'.act = cur.act /\ cur'.item = cur.item
        BY <1>0, <3>2 DEF TypeInv, TypeOK, Current
      <4> QED
        BY <2>1, <2>2, <3>2, <4>1 DEF IdentityInv, BatchResolves, CurrentResolves, Busy
    <3> QED
      BY <1>1, <3>1, <3>2 DEF NetworkFailure
  <2> QED
    BY <1>0, <2>2, <2>3, <2>4, StoreUntouched DEF ServerRowsStay
<1>2. CASE Crash
  <2>1. /\ rows' = IF applyLock THEN saved ELSE rows
        /\ applyLock' = FALSE /\ pc' = "idle" /\ batch' = EmptyBatch /\ reply' = NoReply
        /\ UNCHANGED <<queue, nextItem, meta, writes, clock, serverVars>>
    BY <1>2 DEF Crash
  <2>2. rows' = rows
    BY <2>1 DEF IdentityInv, LockIsApply
  <2>3. AnswerMatches' /\ ApplyHasAnswer' /\ LockIsApply' /\ BatchResolves' /\ CurrentResolves'
    BY <2>1 DEF AnswerMatches, Answered, ApplyHasAnswer, LockIsApply, BatchResolves,
                CurrentResolves,
                Busy, EmptyBatch, NotPending
  <2> QED
    BY <1>0, <2>1, <2>2, <2>3, StoreUntouched DEF ServerRowsStay, serverVars
<1>3. ASSUME NEW s \in ServerIds, ForeignDelete(s)
      PROVE  IdentityInv'
  <2>1. UNCHANGED <<storeVars, sessionVars>>
    BY <1>3 DEF ForeignDelete
  <2>2. UNCHANGED <<rows, queue, nextItem, meta, writes, applyLock, pc, batch, cur, reply, saved>>
    BY <2>1 DEF storeVars, sessionVars
  <2>3. server \in [ServerIds -> ServerRow]
    BY <1>0 DEF TypeInv, TypeOK
  <2>4. \A t \in ServerIds : /\ server[t].state # "absent" => server'[t].state # "absent"
                             /\ server'[t].origin = server[t].origin
                             /\ server'[t].ver = server[t].ver
    BY <1>3, <2>3 DEF ForeignDelete, ServerRow
  <2>5. Answered /\ cur.act = "PATCH" => cur.cid \in ServerIds
    <3> SUFFICES ASSUME Answered, cur.act = "PATCH" PROVE cur.cid \in ServerIds
      OBVIOUS
    <3>1. cur.local \in Id /\ Busy
      BY <1>0 DEF TypeInv, ItemsAreQueued, Busy, Answered
    <3>2. meta[cur.local].remote # None /\ meta[cur.local].entity = cur.cid
      BY <3>1 DEF IdentityInv, CurrentResolves
    <3>3. meta[cur.local].remote = cur.cid
      BY <3>1, <3>2 DEF IdentityInv, IdentityAgrees, RemotesAgree
    <3> QED
      BY <1>0, <3>1, <3>2, <3>3 DEF TypeInv, TypeOK, StoreTypeOK, MetaRow
  <2>6. AnswerMatches'
    BY <2>2, <2>4, <2>5 DEF IdentityInv, AnswerMatches, Answered
  <2>7. BatchResolves' /\ CurrentResolves' /\ ApplyHasAnswer' /\ LockIsApply'
    BY <2>2 DEF IdentityInv, BatchResolves, CurrentResolves, ApplyHasAnswer, LockIsApply, Busy
  <2> QED
    BY <1>0, <2>2, <2>4, <2>6, <2>7, StoreUntouched DEF ServerRowsStay
<1> QED
  BY <1>1, <1>2, <1>3 DEF Environment

LEMMA StutterIdentity == ASSUME IdentityInv, UNCHANGED vars PROVE IdentityInv'
BY StutterTyped
   DEF IdentityInv, IdentityAgrees, QueueResolves, EntitiesAreUnique, RemotesAgree,
       LocalsAreTracked, RowsAreTracked, QueueIsBounded, BatchResolves, CurrentResolves,
       AnswerMatches, ApplyHasAnswer, LockIsApply, Queued, Busy, Answered,
       vars, storeVars, sessionVars, serverVars

LEMMA StepIdentity == ASSUME Isolated PROVE IdentityInv /\ [Next]_vars => IdentityInv'
<1> SUFFICES ASSUME IdentityInv, [Next]_vars PROVE IdentityInv'
  OBVIOUS
<1>1. CASE App
  BY <1>1, AppIdentity
<1>2. CASE Session
  <2>1. \A moved \in BOOLEAN : ~ApplyWriteFails(moved)
    BY DEF Isolated, ApplyWriteFails
  <2> QED
    BY <1>2, <2>1, ReadingIdentity, SettledIdentity, ItemFailedIdentity, BeginApplyIdentity,
       ReplaceIdentity DEF Session
<1>3. CASE Server
  BY <1>3, ServerIdentity
<1>4. CASE Environment
  BY <1>4, EnvironmentIdentity
<1>5. CASE UNCHANGED vars
  BY <1>5, StutterIdentity
<1> QED
  BY <1>1, <1>2, <1>3, <1>4, <1>5 DEF Next

\* Whatever the application writes during a round trip, whatever the network
\* loses and whenever the process dies, each queued item resolves to one
\* metadata row, and a recorded remote id is the row's primary key and names
\* the server row its own POST created.
THEOREM IdentityCorrect == ASSUME Isolated PROVE Spec => []IdentityAgrees
<1>1. IdentityInv => IdentityAgrees
  BY DEF IdentityInv
<1>2. IdentityInv /\ [Next]_vars => IdentityInv'
  BY StepIdentity
<1> QED
  BY <1>1, <1>2, InitIdentity, PTL DEF Spec

=============================================================================
