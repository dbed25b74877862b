----------------------------- MODULE LocalStore -----------------------------
(***************************************************************************)
(* One sync-enabled table of the device's SQLite database, with the        *)
(* bookkeeping the migration engine attaches to it: the AFTER INSERT /     *)
(* UPDATE / DELETE triggers, the sync_queue they fill, and the             *)
(* _salve_sync_metadata row that follows each entity from its temporary    *)
(* local id to the id the server assigns.                                  *)
(*                                                                         *)
(* The application writes through Database.insert/update/delete or raw     *)
(* SQL; each write is one SQLite statement, atomic with its trigger.       *)
(***************************************************************************)
EXTENDS Naturals, FiniteSets

CONSTANTS
  LocalIds,         \* temporary primary keys the application generates
  ServerIds,        \* primary keys the server assigns
  None,             \* SQL NULL in an id column
  MaxWrites,        \* bound: statements the application runs
  MaxClock,         \* bound: how far the wall clock advances
  JsInApplyWindow   \* may a write land while _sync_apply_lock is set?

Id == LocalIds \cup ServerIds

ASSUME IdsAssumption ==
  /\ LocalIds \cap ServerIds = {}
  /\ None \notin Id

ASSUME BoundsAssumption ==
  /\ MaxWrites \in Nat
  /\ MaxClock \in Nat
  /\ JsInApplyWindow \in BOOLEAN

VARIABLES
  rows,       \* the table: what each primary key holds
  queue,      \* sync_queue, indexed by its AUTOINCREMENT id
  nextItem,   \* the next sync_queue id
  meta,       \* _salve_sync_metadata of this table, indexed by localId
  applyLock,  \* is there a row in _sync_apply_lock?
  writes,     \* number of the next application write: the identity of its data
  clock       \* the wall clock, in milliseconds

storeVars == <<rows, queue, nextItem, meta, applyLock, writes, clock>>

ItemIds == 1..MaxWrites

Row == [state : {"absent", "live", "tombstoned"}, ver : Nat, ts : Nat]

AbsentRow == [state |-> "absent", ver |-> 0, ts |-> 0]

Item == [op : {"none", "insert", "update", "delete"},
         ent : Id \cup {None},
         status : {"NONE", "PENDING", "FAILED", "BLOCKED"}]

NoItem == [op |-> "none", ent |-> None, status |-> "NONE"]

MetaRow == [entity : Id \cup {None},
            remote : ServerIds \cup {None},
            status : {"NONE", "PENDING", "SYNCED", "FAILED", "DELETED"}]

NoMeta == [entity |-> None, remote |-> None, status |-> "NONE"]

StoreTypeOK ==
  /\ rows \in [Id -> Row]
  /\ queue \in [ItemIds -> Item]
  /\ nextItem \in Nat \ {0}
  /\ meta \in [Id -> MetaRow]
  /\ applyLock \in BOOLEAN
  /\ writes \in Nat \ {0}
  /\ clock \in Nat

StoreInit ==
  /\ rows = [k \in Id |-> AbsentRow]
  /\ queue = [i \in ItemIds |-> NoItem]
  /\ nextItem = 1
  /\ meta = [l \in Id |-> NoMeta]
  /\ applyLock = FALSE
  /\ writes = 1
  /\ clock = 1

-----------------------------------------------------------------------------
(* The triggers.                                                           *)

\* INSERT ... ON CONFLICT(tableName, entityId) DO UPDATE SET status: the row
\* that already follows this entity keeps its localId, entityId and remoteId.
MetaUpsert(pk, st) ==
  IF \E l \in Id : meta[l].entity = pk
  THEN [l \in Id |-> IF meta[l].entity = pk THEN [meta[l] EXCEPT !.status = st]
                                            ELSE meta[l]]
  ELSE [meta EXCEPT ![pk] = [entity |-> pk, remote |-> None, status |-> st]]

\* Only entityId is an upsert target: an entity with no metadata whose localId
\* is already taken violates the primary key and aborts the statement.
TriggerAccepts(pk) ==
  \/ applyLock
  \/ \E l \in Id : meta[l].entity = pk
  \/ meta[pk].entity = None

\* WHEN NOT EXISTS (SELECT 1 FROM _sync_apply_lock): one item and one upsert.
Triggered(op, pk, st) ==
  IF applyLock
  THEN UNCHANGED <<queue, nextItem, meta>>
  ELSE /\ queue' = [queue EXCEPT ![nextItem] =
                      [op |-> op, ent |-> pk, status |-> "PENDING"]]
       /\ nextItem' = nextItem + 1
       /\ meta' = MetaUpsert(pk, st)

\* An application statement on row pk: the trigger fires with it, and the
\* write gets a number of its own. Nothing but the connection's per-statement
\* mutex keeps it out of a window in which the lock row is set.
Write(op, pk, st) ==
  /\ writes <= MaxWrites
  /\ applyLock => JsInApplyWindow
  /\ TriggerAccepts(pk)
  /\ Triggered(op, pk, st)
  /\ writes' = writes + 1
  /\ UNCHANGED applyLock

\* The Date.now() an application puts in a write's updatedAt: it may fall in
\* the same millisecond as the last one.
Stamp == clock' \in {t \in {clock, clock + 1} : t <= MaxClock}

-----------------------------------------------------------------------------
(* The application's writes. A primary key is never generated twice.       *)

Insert(pk) ==
  /\ pk \in LocalIds
  /\ rows[pk].state = "absent"
  /\ meta[pk].entity = None
  /\ Stamp
  /\ rows' = [rows EXCEPT ![pk] = [state |-> "live", ver |-> writes, ts |-> clock']]
  /\ Write("insert", pk, "PENDING")

\* set(patch): the row's data changes. The builder stamps nothing: updatedAt
\* moves only if the patch names it, as the documentation's examples do. Nor
\* does it filter on deletedAt, so a tombstoned row may be updated too.
Update(pk) ==
  /\ rows[pk].state # "absent"
  /\ \/ /\ Stamp
        /\ rows' = [rows EXCEPT ![pk].ver = writes, ![pk].ts = clock']
     \/ /\ rows' = [rows EXCEPT ![pk].ver = writes]
        /\ UNCHANGED clock
  /\ Write("update", pk, IF rows[pk].state = "tombstoned" THEN "DELETED" ELSE "PENDING")

\* Database.delete(): stamps deletedAt and nothing else; updatedAt keeps its value.
SoftDelete(pk) ==
  /\ rows[pk].state # "absent"
  /\ rows' = [rows EXCEPT ![pk].state = "tombstoned"]
  /\ Write("update", pk, "DELETED")
  /\ UNCHANGED clock

\* A raw SQL DELETE (Database.execute, or the Studio's delete-rows command).
HardDelete(pk) ==
  /\ rows[pk].state # "absent"
  /\ rows' = [rows EXCEPT ![pk] = AbsentRow]
  /\ Write("delete", pk, "DELETED")
  /\ UNCHANGED clock

AppWrite == \E pk \in Id : Insert(pk) \/ Update(pk) \/ SoftDelete(pk) \/ HardDelete(pk)

-----------------------------------------------------------------------------
(* The statements SyncQueueStore runs on the queue.                        *)

Queued(i) == queue[i].status # "NONE"

\* Two slips of the query: FAILED items forgotten, BLOCKED ones included.
ReadablePendingOnly == {i \in ItemIds : queue[i].status = "PENDING"}
ReadableBlockedToo == {i \in ItemIds : Queued(i)}

Readable == {i \in ItemIds : queue[i].status \in {"PENDING", "FAILED"}}

\* ORDER BY id ASC LIMIT ?
FirstReadable(limit) ==
  {i \in Readable : Cardinality({j \in Readable : j < i}) < limit}

\* LEFT JOIN _salve_sync_metadata ON entity_id = entityId
LocalIdOf(entity) ==
  IF \E l \in Id : meta[l].entity = entity
  THEN CHOOSE l \in Id : meta[l].entity = entity
  ELSE None

\* A slip: DELETE by entity_id instead of by id.
WithoutEntity(q, i) == [j \in ItemIds |-> IF q[j].ent = q[i].ent THEN NoItem ELSE q[j]]

WithoutItem(q, i) == [q EXCEPT ![i] = NoItem]

WithStatus(q, i, st) == [q EXCEPT ![i].status = st]

\* A slip: the replace forgets the items queued under the old id.
EntityKept(q, old, new) == q

EntityRewritten(q, old, new) ==
  [i \in ItemIds |-> IF q[i].ent = old /\ q[i].status # "NONE"
                     THEN [q[i] EXCEPT !.ent = new] ELSE q[i]]

-----------------------------------------------------------------------------
(* The statements SalveMetadataManager runs on the metadata.               *)

\* A slip: the primary key is recorded and the remote id is not.
MarkReplacedEntityOnly(l, e) == [meta EXCEPT ![l].entity = e, ![l].status = "SYNCED"]

MarkReplaced(l, e) == [meta EXCEPT ![l] = [entity |-> e, remote |-> e, status |-> "SYNCED"]]

MarkFailed(l) ==
  IF meta[l].status \in {"NONE", "DELETED"} THEN meta
  ELSE [meta EXCEPT ![l].status = "FAILED"]

=============================================================================
