---------------------- MODULE SchemaRegistration_proofs ----------------------
(***************************************************************************)
(* What registration promises, for any columns, versions and rows, any     *)
(* number of resets and faults, and whatever was registered before.        *)
(***************************************************************************)
EXTENDS SchemaRegistration, TLAPS

(***************************************************************************)
(* The inductive invariant. Each part speaks of a database d: what is       *)
(* there, and, while a registration runs, what a rollback would restore.    *)
(***************************************************************************)

HasTriggers(d) == d.triggers # NoTriggers

\* Triggers exist exactly for the schemas a session would sync.
Captures(d) == d.version # 0 => (d.definition # NoSchema <=> HasTriggers(d))

\* The triggers name each column of the table but the retired ones, and no other.
TriggersFit(d) ==
  HasTriggers(d) =>
    /\ d.table # NoTable
    /\ d.table \subseteq d.triggers \cup d.retired
    /\ ~d.makeshift => d.triggers \subseteq d.table

\* The last release's columns and relations are the table's.
DeclaredFits(d) ==
  d.version # 0 /\ ~d.reused =>
    /\ d.table # NoTable
    /\ d.declared.columns \subseteq d.table
    /\ d.relations \subseteq d.table

\* The triggers name its columns.
NamesFit(d) ==
  d.version # 0 /\ HasTriggers(d) => d.declared.columns \subseteq d.triggers \cup d.retired

\* Metadata that has begun to exist misses no row.
RowsFit(d) == d.rows \ d.missed \subseteq d.known

CursorFits(d) == d.engine => d.cursor # "old"

\* A database between two registrations.
Settled(d) ==
  /\ Captures(d) /\ TriggersFit(d) /\ DeclaredFits(d) /\ NamesFit(d) /\ CursorFits(d)
  /\ d.known # {} \/ HasTriggers(d) => RowsFit(d)

Migrated == step \in {"drop", "create", "backfill", "record", "commit"}

\* The table has the columns of the schema, unless CREATE TABLE found a table.
MigratedFits ==
  Migrated =>
    /\ store.table # NoTable
    /\ ~store.reused => schema.columns \subseteq store.table

\* The triggers are on their way from the ones of the last release to the ones
\* of this one. They are kept when the table has not changed.
TriggerStepFits ==
  /\ step = "table" => TriggersFit(store)
  /\ step = "drop" /\ ~changed => TriggersFit(store) /\ schema.columns \subseteq store.table
  /\ step = "create" =>
       /\ TriggersFit(store)
       /\ HasTriggers(store) => schema.synced /\ schema.columns \subseteq store.table
  /\ step \in {"backfill", "record"} =>
       /\ TriggersFit(store)
       /\ schema.synced <=> HasTriggers(store)
       /\ HasTriggers(store) => schema.columns \subseteq store.triggers \cup store.retired

RowStepFits ==
  /\ Open /\ store.known # {} => RowsFit(store)
  /\ step \in {"table", "drop", "create", "record"} /\ HasTriggers(store) => RowsFit(store)

RegistrationInv ==
  /\ TypeOK
  /\ Open => Settled(saved)
  /\ ~Open \/ step = "commit" => Settled(store)
  /\ MigratedFits /\ TriggerStepFits /\ RowStepFits
  /\ CursorFits(store)
  /\ Open => store.engine /\ (saved.engine /\ saved.cursor = "current" => store.cursor = "current")

LEMMA SchemaFacts ==
  ASSUME NEW s \in Schemas
  PROVE  /\ s.columns \in SUBSET Columns /\ s.foreign \subseteq s.columns
         /\ s.version \in Versions /\ s.version # 0 /\ s.synced \in BOOLEAN
         /\ s # NoSchema /\ s.columns # NoTable /\ s.columns # NoTriggers
BY RegistrationAssumption DEF Schemas

LEMMA NoSchemaIsNone == NoSchema \notin Schemas
BY RegistrationAssumption

LEMMA InitEstablishes == Init => RegistrationInv
<1> SUFFICES ASSUME Init PROVE RegistrationInv
  OBVIOUS
<1>1. Fresh \in Store
  BY DEF Fresh, Store
<1>2. \A s \in Schemas : Legacy(s) \in Store
  <2> SUFFICES ASSUME NEW s \in Schemas PROVE Legacy(s) \in Store
    OBVIOUS
  <2>1. s.columns \in SUBSET Columns /\ s.version \in Versions
    BY SchemaFacts
  <2>2. QED
    BY <1>1, <2>1 DEF Legacy, Store
<1>3. TypeOK
  <2>1. store \in Store
    BY <1>1, <1>2 DEF Init
  <2>2. 0 \in 0..MaxResets /\ 0 \in 0..MaxFaults
    BY RegistrationAssumption
  <2>3. QED
    BY <1>1, <2>1, <2>2 DEF Init, TypeOK
<1>4. /\ ~Open /\ ~Migrated /\ step = "idle"
  BY DEF Init, Open, Migrated
<1>5. Settled(Fresh)
  BY DEF Fresh, Settled, Captures, HasTriggers, TriggersFit, DeclaredFits, NamesFit,
         CursorFits, RowsFit
<1>6. ASSUME NEW s \in Schemas, s.synced PROVE Settled(Legacy(s))
  <2>1. /\ Legacy(s).table = s.columns /\ Legacy(s).triggers = s.columns
        /\ Legacy(s).version = s.version /\ Legacy(s).definition = s
        /\ Legacy(s).declared = s /\ Legacy(s).engine = FALSE /\ Legacy(s).relations = {}
        /\ Legacy(s).rows = {} /\ Legacy(s).retired = {} /\ Legacy(s).makeshift = FALSE
    BY DEF Legacy, Fresh
  <2>2. QED
    BY <2>1, SchemaFacts
       DEF Settled, Captures, HasTriggers, TriggersFit, DeclaredFits, NamesFit, CursorFits, RowsFit
<1>7. Settled(store)
  BY <1>5, <1>6 DEF Init
<1>8. QED
  BY <1>3, <1>4, <1>7
     DEF RegistrationInv, MigratedFits, TriggerStepFits, RowStepFits, Settled

(***************************************************************************)
(* The statements of a registration.                                       *)
(***************************************************************************)

LEMMA MigrateKeeps ==
  ASSUME RegistrationInv, Migrate
  PROVE  RegistrationInv'
<1> USE DEF RegistrationInv
<1>1. /\ step = "table" /\ step' = "drop" /\ saved' = saved /\ schema' = schema
      /\ resets' = resets /\ faults' = faults
      /\ changed' = ~(schema.columns \subseteq store.table)
      /\ store.table # NoTable
      /\ store' = [store EXCEPT !.table = store.table \cup schema.columns, !.reused = FALSE]
      /\ store \in Store /\ saved \in Store /\ schema \in Schemas
  BY DEF Migrate, WithColumns, TypeOK
<1>3. /\ store'.table = store.table \cup schema.columns /\ store'.triggers = store.triggers
      /\ store'.version = store.version /\ store'.definition = store.definition
      /\ store'.relations = store.relations /\ store'.engine = store.engine
      /\ store'.cursor = store.cursor /\ store'.rows = store.rows /\ store'.known = store.known
      /\ store'.declared = store.declared /\ store'.reused = FALSE
      /\ store'.makeshift = store.makeshift /\ store'.retired = store.retired
      /\ store'.missed = store.missed
  BY <1>1 DEF Store
<1>2. TypeOK'
  <2>1. store.table \cup schema.columns \in SUBSET Columns
    BY <1>1, SchemaFacts DEF Store
  <2>2. store' \in Store
    BY <1>1, <2>1 DEF Store
  <2>3. QED
    BY <1>1, <2>2 DEF TypeOK
<1>4. store'.table # NoTable
  BY <1>1, <1>3, SchemaFacts, RegistrationAssumption DEF Store
<1>5. MigratedFits'
  BY <1>1, <1>3, <1>4, SchemaFacts DEF MigratedFits, Migrated
<1>6. TriggerStepFits'
  BY <1>1, <1>3, <1>4 DEF TriggerStepFits, TriggersFit, HasTriggers
<1>7. RowStepFits'
  BY <1>1, <1>3 DEF RowStepFits, RowsFit, HasTriggers, Open
<1>8. CursorFits(store)'
  BY <1>1, <1>3, <1>4 DEF CursorFits
<1>9. (Open => Settled(saved))'
  BY <1>1 DEF Open, Settled, Captures, TriggersFit, DeclaredFits, NamesFit, CursorFits, RowsFit, HasTriggers
<1>10. QED
  BY <1>1, <1>2, <1>3, <1>5, <1>6, <1>7, <1>8, <1>9 DEF Open

\* The registration begins: the system tables are prepared.
LEMMA BeginKeeps ==
  ASSUME RegistrationInv, NEW s \in Schemas, Begin(s)
  PROVE  RegistrationInv'
<1> USE DEF RegistrationInv
<1>1. /\ step = "idle" /\ step' = "table" /\ saved' = store /\ schema' = s /\ changed' = FALSE
      /\ resets' = resets /\ faults' = faults
      /\ store' = IF store.engine THEN store ELSE [store EXCEPT !.cursor = "none", !.engine = TRUE]
      /\ store \in Store /\ store.engine \in BOOLEAN /\ Settled(store)
  BY DEF Begin, Prepared, TypeOK, Store, Open
<1>2. /\ store'.table = store.table /\ store'.triggers = store.triggers
      /\ store'.version = store.version /\ store'.definition = store.definition
      /\ store'.relations = store.relations /\ store'.engine = TRUE
      /\ store'.cursor = IF store.engine THEN store.cursor ELSE "none"
      /\ store'.rows = store.rows /\ store'.known = store.known
      /\ store'.declared = store.declared /\ store'.reused = store.reused
      /\ store'.makeshift = store.makeshift /\ store'.retired = store.retired
      /\ store'.missed = store.missed
  BY <1>1 DEF Store
<1>3. TypeOK'
  <2>1. store' \in Store
    <3>1. CASE store.engine
      BY <1>1, <3>1
    <3>2. CASE ~store.engine
      <4>1. store' = [store EXCEPT !.cursor = "none", !.engine = TRUE]
        BY <1>1, <3>2
      <4> QED
        BY <1>1, <4>1 DEF Store
    <3> QED
      BY <3>1, <3>2
  <2> QED
    BY <1>1, <2>1 DEF TypeOK
<1>4. MigratedFits'
  BY <1>1 DEF MigratedFits, Migrated
<1>5. TriggerStepFits'
  BY <1>1, <1>2 DEF TriggerStepFits, Settled, TriggersFit, HasTriggers
<1>6. RowStepFits'
  BY <1>1, <1>2 DEF RowStepFits, Settled, RowsFit, HasTriggers, Open
<1>7. CursorFits(store)'
  BY <1>1, <1>2 DEF Settled, CursorFits
<1>8. Settled(saved)'
  BY <1>1 DEF Settled, Captures, TriggersFit, DeclaredFits, RowsFit, NamesFit, CursorFits, HasTriggers
<1>9. QED
  BY <1>1, <1>2, <1>3, <1>4, <1>5, <1>6, <1>7, <1>8 DEF Open

\* CREATE TABLE IF NOT EXISTS.
LEMMA CreateKeeps ==
  ASSUME RegistrationInv, Create
  PROVE  RegistrationInv'
<1> USE DEF RegistrationInv
<1>1. /\ step = "table" /\ step' = "drop" /\ saved' = saved /\ schema' = schema /\ changed' = TRUE
      /\ resets' = resets /\ faults' = faults
      /\ store' = [store EXCEPT !.table = IF store.table = NoTable THEN schema.columns ELSE store.table,
                               !.reused = (store.table # NoTable)]
      /\ store \in Store /\ saved \in Store /\ schema \in Schemas
  BY DEF Create, TypeOK
<1>2. /\ store'.table = (IF store.table = NoTable THEN schema.columns ELSE store.table)
      /\ store'.triggers = store.triggers /\ store'.version = store.version
      /\ store'.definition = store.definition /\ store'.relations = store.relations
      /\ store'.engine = store.engine /\ store'.cursor = store.cursor
      /\ store'.rows = store.rows /\ store'.known = store.known
      /\ store'.declared = store.declared /\ store'.reused = (store.table # NoTable)
      /\ store'.makeshift = store.makeshift /\ store'.retired = store.retired
      /\ store'.missed = store.missed
  BY <1>1 DEF Store
<1>3. TypeOK'
  <2>1. (IF store.table = NoTable THEN schema.columns ELSE store.table) \in SUBSET Columns
    BY <1>1, SchemaFacts DEF Store
  <2>2. (store.table # NoTable) \in BOOLEAN
    OBVIOUS
  <2>3. store' \in Store
    BY <1>1, <2>1, <2>2 DEF Store
  <2>4. QED
    BY <1>1, <2>3 DEF TypeOK
<1>4. store'.table # NoTable
  BY <1>1, <1>2, SchemaFacts
<1>5. MigratedFits'
  BY <1>1, <1>2, <1>4, SchemaFacts DEF MigratedFits, Migrated
<1>6. TriggerStepFits'
  BY <1>1 DEF TriggerStepFits
<1>7. RowStepFits'
  BY <1>1, <1>2 DEF RowStepFits, RowsFit, HasTriggers, Open
<1>8. CursorFits(store)'
  BY <1>1, <1>2, <1>4 DEF CursorFits
<1>9. Open' => Settled(saved)'
  BY <1>1 DEF Open, Settled, Captures, TriggersFit, DeclaredFits, RowsFit, NamesFit, CursorFits, HasTriggers
<1>10. QED
  BY <1>1, <1>2, <1>3, <1>4, <1>5, <1>6, <1>7, <1>8, <1>9 DEF Open

\* The triggers of a table that has changed, or is not synced, are dropped.
LEMMA DropTriggersKeeps ==
  ASSUME RegistrationInv, DropTriggers
  PROVE  RegistrationInv'
<1> USE DEF RegistrationInv
<1>1. /\ step = "drop" /\ step' = "create" /\ saved' = saved /\ schema' = schema /\ changed' = changed
      /\ resets' = resets /\ faults' = faults
      /\ store' = IF changed \/ ~schema.synced THEN [store EXCEPT !.triggers = NoTriggers] ELSE store
      /\ store \in Store /\ saved \in Store /\ schema \in Schemas
      /\ changed \in BOOLEAN /\ schema.synced \in BOOLEAN
  BY SchemaFacts DEF DropTriggers, TypeOK
<1>2. /\ store'.table = store.table
      /\ store'.triggers = (IF changed \/ ~schema.synced THEN NoTriggers ELSE store.triggers)
      /\ store'.version = store.version /\ store'.definition = store.definition
      /\ store'.relations = store.relations /\ store'.engine = store.engine
      /\ store'.cursor = store.cursor /\ store'.rows = store.rows
      /\ store'.known = store.known /\ store'.declared = store.declared
      /\ store'.reused = store.reused /\ store'.makeshift = store.makeshift
      /\ store'.retired = store.retired /\ store'.missed = store.missed
  BY <1>1 DEF Store
<1>3. TypeOK'
  BY <1>1 DEF TypeOK, Store
<1>4. MigratedFits'
  BY <1>1, <1>2 DEF MigratedFits, Migrated
<1>5. TriggerStepFits'
  BY <1>1, <1>2 DEF TriggerStepFits, TriggersFit, HasTriggers
<1>6. RowStepFits'
  BY <1>1, <1>2 DEF RowStepFits, RowsFit, HasTriggers, Open
<1>7. CursorFits(store)'
  BY <1>1, <1>2 DEF CursorFits
<1>8. Open' => Settled(saved)'
  BY <1>1 DEF Open, Settled, Captures, TriggersFit, DeclaredFits, RowsFit, NamesFit, CursorFits, HasTriggers
<1>9. QED
  BY <1>1, <1>2, <1>3, <1>4, <1>5, <1>6, <1>7, <1>8 DEF Open

\* CREATE TRIGGER IF NOT EXISTS.
LEMMA CreateTriggersKeeps ==
  ASSUME RegistrationInv, CreateTriggers
  PROVE  RegistrationInv'
<1> USE DEF RegistrationInv
<1>1. /\ step = "create" /\ step' = "backfill" /\ saved' = saved /\ schema' = schema /\ changed' = changed
      /\ resets' = resets /\ faults' = faults
      /\ store' = IF schema.synced /\ store.triggers = NoTriggers
                  THEN [store EXCEPT !.triggers = schema.columns, !.makeshift = store.reused,
                                     !.retired = store.table \ schema.columns]
                  ELSE store
      /\ store \in Store /\ saved \in Store /\ schema \in Schemas
      /\ schema.columns \in SUBSET Columns /\ schema.columns # NoTriggers /\ schema.synced \in BOOLEAN
  BY SchemaFacts DEF CreateTriggers, TypeOK
<1>2. /\ store'.table = store.table
      /\ store'.triggers = (IF schema.synced /\ store.triggers = NoTriggers THEN schema.columns ELSE store.triggers)
      /\ store'.version = store.version /\ store'.definition = store.definition
      /\ store'.relations = store.relations /\ store'.engine = store.engine
      /\ store'.cursor = store.cursor /\ store'.rows = store.rows
      /\ store'.known = store.known /\ store'.declared = store.declared
      /\ store'.makeshift = (IF schema.synced /\ store.triggers = NoTriggers THEN store.reused ELSE store.makeshift)
      /\ store'.retired = (IF schema.synced /\ store.triggers = NoTriggers THEN store.table \ schema.columns ELSE store.retired)
      /\ store'.reused = store.reused /\ store'.missed = store.missed
  BY <1>1 DEF Store
<1>3. TypeOK'
  <2>1. store.table # NoTable
    BY <1>1 DEF MigratedFits, Migrated
  <2>2. store.table \ schema.columns \in SUBSET Columns /\ store.reused \in BOOLEAN
    BY <1>1, <2>1 DEF Store
  <2>3. store' \in Store
    <3>1. CASE schema.synced /\ store.triggers = NoTriggers
      <4>1. store' = [store EXCEPT !.triggers = schema.columns, !.makeshift = store.reused,
                                   !.retired = store.table \ schema.columns]
        BY <1>1, <3>1
      <4>2. QED
        BY <1>1, <2>2, <4>1 DEF Store
    <3>2. CASE ~(schema.synced /\ store.triggers = NoTriggers)
      BY <1>1, <3>2
    <3>3. QED
      BY <3>1, <3>2
  <2>4. QED
    BY <1>1, <2>3 DEF TypeOK
<1>4. MigratedFits'
  BY <1>1, <1>2 DEF MigratedFits, Migrated
<1>5. TriggerStepFits'
  <2>1. store.table # NoTable /\ (~store.reused => schema.columns \subseteq store.table)
    BY <1>1 DEF MigratedFits, Migrated
  <2>2. CASE schema.synced /\ store.triggers = NoTriggers
    BY <1>1, <1>2, <2>1, <2>2 DEF TriggerStepFits, TriggersFit, HasTriggers
  <2>3. CASE ~(schema.synced /\ store.triggers = NoTriggers)
    BY <1>1, <1>2, <2>3 DEF TriggerStepFits, TriggersFit, HasTriggers
  <2>4. QED
    BY <2>2, <2>3
<1>6. RowStepFits'
  BY <1>1, <1>2 DEF RowStepFits, RowsFit, HasTriggers, Open
<1>7. CursorFits(store)'
  BY <1>1, <1>2 DEF CursorFits
<1>8. Open' => Settled(saved)'
  BY <1>1 DEF Open, Settled, Captures, TriggersFit, DeclaredFits, RowsFit, NamesFit, CursorFits, HasTriggers
<1>9. QED
  BY <1>1, <1>2, <1>3, <1>4, <1>5, <1>6, <1>7, <1>8 DEF Open

\* The rows that are there get metadata if no row has any.
LEMMA BackfillKeeps ==
  ASSUME RegistrationInv, Backfill
  PROVE  RegistrationInv'
<1> USE DEF RegistrationInv
<1>1. /\ step = "backfill" /\ step' = "record" /\ saved' = saved /\ schema' = schema /\ changed' = changed
      /\ resets' = resets /\ faults' = faults
      /\ store' = IF schema.synced /\ store.known = {} THEN [store EXCEPT !.known = store.rows] ELSE store
      /\ store \in Store /\ saved \in Store /\ schema \in Schemas
      /\ schema.synced \in BOOLEAN
  BY SchemaFacts DEF Backfill, TypeOK
<1>2. /\ store'.table = store.table /\ store'.triggers = store.triggers
      /\ store'.version = store.version /\ store'.definition = store.definition
      /\ store'.relations = store.relations /\ store'.engine = store.engine
      /\ store'.cursor = store.cursor /\ store'.rows = store.rows
      /\ store'.known = (IF schema.synced /\ store.known = {} THEN store.rows ELSE store.known)
      /\ store'.declared = store.declared /\ store'.reused = store.reused
      /\ store'.makeshift = store.makeshift /\ store'.retired = store.retired
      /\ store'.missed = store.missed
  BY <1>1 DEF Store
<1>3. TypeOK'
  BY <1>1 DEF TypeOK, Store
<1>4. MigratedFits'
  BY <1>1, <1>2 DEF MigratedFits, Migrated
<1>5. TriggerStepFits'
  BY <1>1, <1>2 DEF TriggerStepFits, TriggersFit, HasTriggers
<1>6. RowStepFits'
  BY <1>1, <1>2 DEF RowStepFits, TriggerStepFits, RowsFit, HasTriggers, Open
<1>7. CursorFits(store)'
  BY <1>1, <1>2 DEF CursorFits
<1>8. Open' => Settled(saved)'
  BY <1>1 DEF Open, Settled, Captures, TriggersFit, DeclaredFits, RowsFit, NamesFit, CursorFits, HasTriggers
<1>9. QED
  BY <1>1, <1>2, <1>3, <1>4, <1>5, <1>6, <1>7, <1>8 DEF Open

\* The version, the definition and the relations are stored.
LEMMA RecordKeeps ==
  ASSUME RegistrationInv, Record
  PROVE  RegistrationInv'
<1> USE DEF RegistrationInv
<1>1. /\ step = "record" /\ step' = "commit" /\ saved' = saved /\ schema' = schema /\ changed' = changed
      /\ resets' = resets /\ faults' = faults
      /\ store' = [store EXCEPT !.version = schema.version,
                               !.definition = IF schema.synced THEN schema ELSE NoSchema,
                               !.relations = schema.foreign, !.declared = schema]
      /\ store \in Store /\ saved \in Store /\ schema \in Schemas
      /\ store.table # NoTable
      /\ ~store.reused => schema.columns \subseteq store.table
  BY DEF Record, TypeOK, MigratedFits, Migrated
<1>2. /\ store'.table = store.table /\ store'.triggers = store.triggers
      /\ store'.version = schema.version
      /\ store'.definition = (IF schema.synced THEN schema ELSE NoSchema)
      /\ store'.relations = schema.foreign /\ store'.engine = store.engine
      /\ store'.cursor = store.cursor /\ store'.rows = store.rows
      /\ store'.known = store.known /\ store'.declared = schema
      /\ store'.reused = store.reused /\ store'.makeshift = store.makeshift
      /\ store'.retired = store.retired /\ store'.missed = store.missed
  BY <1>1 DEF Store
<1>3. TypeOK'
  <2>2. schema.foreign \in SUBSET Columns /\ schema.version \in Versions
    BY <1>1, SchemaFacts
  <2>3. store' \in Store
    BY <1>1, <2>2 DEF Store
  <2>4. QED
    BY <1>1, <2>3 DEF TypeOK
<1>4. MigratedFits'
  BY <1>1, <1>2 DEF MigratedFits, Migrated
<1>5. TriggerStepFits'
  BY <1>1 DEF TriggerStepFits
<1>6. RowStepFits'
  BY <1>1, <1>2 DEF RowStepFits, RowsFit, HasTriggers, Open
<1>7. CursorFits(store)'
  BY <1>1, <1>2 DEF CursorFits
<1>8. Captures(store)'
  BY <1>1, <1>2, SchemaFacts DEF TriggerStepFits, Captures, HasTriggers
<1>9. TriggersFit(store)' /\ NamesFit(store)'
  BY <1>1, <1>2 DEF TriggerStepFits, TriggersFit, NamesFit, HasTriggers
<1>10. DeclaredFits(store)'
  BY <1>1, <1>2, SchemaFacts DEF DeclaredFits
<1>11. store'.known # {} \/ HasTriggers(store)' => RowsFit(store)'
  BY <1>1, <1>2 DEF RowStepFits, RowsFit, HasTriggers, Open
<1>12. Settled(store)'
  BY <1>7, <1>8, <1>9, <1>10, <1>11 DEF Settled
<1>13. Open' => Settled(saved)'
  BY <1>1 DEF Open, Settled, Captures, TriggersFit, DeclaredFits, RowsFit, NamesFit, CursorFits, HasTriggers
<1>14. QED
  BY <1>1, <1>2, <1>3, <1>4, <1>5, <1>6, <1>7, <1>8, <1>9, <1>10, <1>11, <1>12, <1>13 DEF Open

\* The guard commits: what the registration has made of the database is settled.
LEMMA CommitKeeps ==
  ASSUME RegistrationInv, Commit
  PROVE  RegistrationInv'
<1> USE DEF RegistrationInv
<1>1. /\ step = "commit" /\ step' = "idle" /\ store' = store /\ schema' = NoSchema
      /\ saved' = Fresh /\ changed' = FALSE /\ resets' = resets /\ faults' = faults
  BY DEF Commit, Leave
<1>2. Fresh \in Store
  BY DEF Fresh, Store
<1>3. TypeOK'
  BY <1>1, <1>2 DEF TypeOK
<1>4. ~Open' /\ ~Migrated'
  BY <1>1 DEF Open, Migrated
<1>5. Settled(store)'
  BY <1>1 DEF Settled, Captures, DeclaredFits, TriggersFit, NamesFit, CursorFits, RowsFit, HasTriggers
<1>6. QED
  BY <1>1, <1>3, <1>4, <1>5 DEF MigratedFits, TriggerStepFits, RowStepFits, Settled

\* A registration that fails, or dies, leaves the database it found.
LEMMA UndoKeeps ==
  ASSUME RegistrationInv, Fault
  PROVE  RegistrationInv'
<1> USE DEF RegistrationInv
<1>1. /\ Open /\ step' = "idle" /\ store' = saved /\ schema' = NoSchema
      /\ saved' = Fresh /\ changed' = FALSE /\ resets' = resets
  BY DEF Fault, Undo, Leave, Open
<1>2. faults' \in 0..MaxFaults
  BY RegistrationAssumption DEF Fault, TypeOK
<1>3. Fresh \in Store
  BY DEF Fresh, Store
<1>4. TypeOK'
  BY <1>1, <1>2, <1>3 DEF TypeOK
<1>5. ~Open' /\ ~Migrated'
  BY <1>1 DEF Open, Migrated
<1>6. Settled(store)'
  BY <1>1 DEF Settled, Captures, DeclaredFits, TriggersFit, NamesFit, CursorFits, RowsFit, HasTriggers
<1>7. QED
  BY <1>1, <1>4, <1>5, <1>6 DEF MigratedFits, TriggerStepFits, RowStepFits, Settled

(***************************************************************************)
(* What goes on beside it.                                                 *)
(***************************************************************************)

\* The application inserts a row, between registrations or in the middle of one.
LEMMA InsertKeeps ==
  ASSUME RegistrationInv, NEW r \in Rows, Insert(r)
  PROVE  RegistrationInv'
<1> USE DEF RegistrationInv
<1> DEFINE known == IF HasTriggers(store) THEN store.known \cup {r} ELSE store.known
           rows == store.rows \cup {r}
           missed == store.missed \cup Missed(r)
<1>0. store \in Store /\ store.table # NoTable
  BY DEF Insert, TypeOK
<1>1. /\ step' = step /\ saved' = saved /\ schema' = schema /\ changed' = changed
      /\ resets' = resets /\ faults' = faults
  BY DEF Insert
<1>2. Captured(r) = [store EXCEPT !.rows = rows, !.known = known]
  BY DEF Captured, HasTriggers
<1>3. Captured(r).rows = rows /\ Captured(r).known = known /\ Captured(r).missed = store.missed
  BY <1>0, <1>2 DEF Store
<1>4. store' = [Captured(r) EXCEPT !.missed = missed]
  BY <1>3 DEF Insert
<1>5. known \in SUBSET Rows /\ rows \in SUBSET Rows
  BY <1>0 DEF Store
<1>6. missed \in SUBSET Rows
  BY <1>0, <1>5 DEF Store, Missed
<1>7. Captured(r) \in Store
  BY <1>0, <1>2, <1>5 DEF Store
<1>8. store' \in Store
  BY <1>4, <1>6, <1>7 DEF Store
<1>9. TypeOK'
  BY <1>1, <1>8 DEF TypeOK
<1>10. /\ store'.table = store.table /\ store'.triggers = store.triggers
       /\ store'.version = store.version /\ store'.definition = store.definition
       /\ store'.relations = store.relations /\ store'.engine = store.engine
       /\ store'.cursor = store.cursor /\ store'.declared = store.declared
       /\ store'.reused = store.reused /\ store'.makeshift = store.makeshift
       /\ store'.retired = store.retired
       /\ store'.rows = rows /\ store'.known = known /\ store'.missed = missed
  <2>1. /\ Captured(r).table = store.table /\ Captured(r).triggers = store.triggers
        /\ Captured(r).version = store.version /\ Captured(r).definition = store.definition
        /\ Captured(r).relations = store.relations /\ Captured(r).engine = store.engine
        /\ Captured(r).cursor = store.cursor /\ Captured(r).declared = store.declared
        /\ Captured(r).reused = store.reused /\ Captured(r).makeshift = store.makeshift
        /\ Captured(r).retired = store.retired
    BY <1>0, <1>2 DEF Store
  <2>2. QED
    BY <1>3, <1>4, <1>7, <2>1 DEF Store
<1> HIDE DEF known, rows, missed
<1>11. ASSUME store'.known # {} \/ (HasTriggers(store)' /\ step # "backfill")
       PROVE  RowsFit(store)'
  <2>1. CASE store.known # {} \/ (HasTriggers(store) /\ step # "backfill")
    <3>1. RowsFit(store)
      BY <2>1 DEF Settled, RowStepFits, Open, TypeOK
    <3>2. r \in known \/ r \in missed
      BY <2>1 DEF known, missed, Missed, HasTriggers
    <3>3. store.known \subseteq known /\ store.missed \subseteq missed
      BY DEF known, missed
    <3>4. QED
      BY <1>10, <3>1, <3>2, <3>3 DEF RowsFit, rows
  <2>2. CASE store.known = {} /\ HasTriggers(store) /\ step = "backfill"
    <3>1. store.rows \subseteq missed
      BY <2>2 DEF missed, Missed, HasTriggers
    <3>2. r \in known
      BY <2>2 DEF known
    <3>3. QED
      BY <1>10, <3>1, <3>2 DEF RowsFit, rows
  <2>3. CASE store.known = {} /\ ~HasTriggers(store)
    BY <1>10, <1>11, <2>3 DEF known, HasTriggers
  <2>4. QED
    BY <2>1, <2>2, <2>3
<1>13. CursorFits(store)'
  BY <1>10 DEF CursorFits
<1>14. Captures(store) => Captures(store)'
  BY <1>10 DEF Captures, HasTriggers
<1>15. TriggersFit(store) => TriggersFit(store)'
  BY <1>10 DEF TriggersFit, HasTriggers
<1>16. (DeclaredFits(store) => DeclaredFits(store)') /\ (NamesFit(store) => NamesFit(store)')
  BY <1>10 DEF DeclaredFits, NamesFit, HasTriggers
<1>17. ~Open' \/ step' = "commit" => Settled(store)'
  BY <1>1, <1>11, <1>13, <1>14, <1>15, <1>16 DEF Settled, Open
<1>18. MigratedFits'
  BY <1>1, <1>10 DEF MigratedFits, Migrated
<1>19. TriggerStepFits'
  BY <1>1, <1>10, <1>15 DEF TriggerStepFits, HasTriggers
<1>20. RowStepFits'
  BY <1>1, <1>11 DEF RowStepFits, Open
<1>21. Open' => Settled(saved)'
  BY <1>1 DEF Open, Settled, Captures, DeclaredFits, TriggersFit, NamesFit, CursorFits, RowsFit,
              HasTriggers
<1>22. QED
  BY <1>1, <1>9, <1>10, <1>13, <1>17, <1>18, <1>19, <1>20, <1>21 DEF Open

\* A session saves its cursor, in whatever transaction is open.
LEMMA SaveCursorKeeps ==
  ASSUME RegistrationInv, SaveCursor
  PROVE  RegistrationInv'
<1> USE DEF RegistrationInv
<1>1. /\ step' = step /\ saved' = saved /\ schema' = schema /\ changed' = changed
      /\ resets' = resets /\ faults' = faults
      /\ store' = [store EXCEPT !.cursor = "current"] /\ store \in Store
  BY DEF SaveCursor, TypeOK
<1>2. /\ store'.table = store.table /\ store'.triggers = store.triggers
      /\ store'.version = store.version /\ store'.definition = store.definition
      /\ store'.relations = store.relations /\ store'.engine = store.engine
      /\ store'.cursor = "current" /\ store'.rows = store.rows /\ store'.known = store.known
      /\ store'.declared = store.declared /\ store'.reused = store.reused
      /\ store'.makeshift = store.makeshift /\ store'.retired = store.retired
      /\ store'.missed = store.missed
  BY <1>1 DEF Store
<1>3. TypeOK'
  BY <1>1 DEF TypeOK, Store
<1>4. CursorFits(store)'
  BY <1>2 DEF CursorFits
<1>5. Settled(store) => Settled(store)'
  BY <1>2, <1>4 DEF Settled, Captures, DeclaredFits, TriggersFit, NamesFit, RowsFit, HasTriggers
<1>6. MigratedFits'
  BY <1>1, <1>2 DEF MigratedFits, Migrated
<1>7. TriggerStepFits'
  BY <1>1, <1>2 DEF TriggerStepFits, TriggersFit, HasTriggers
<1>8. RowStepFits'
  BY <1>1, <1>2 DEF RowStepFits, RowsFit, HasTriggers, Open
<1>9. Open' => Settled(saved)'
  BY <1>1 DEF Open, Settled, Captures, DeclaredFits, TriggersFit, NamesFit, CursorFits, RowsFit,
              HasTriggers
<1>10. QED
  BY <1>1, <1>2, <1>3, <1>4, <1>5, <1>6, <1>7, <1>8, <1>9 DEF Open

\* reset() empties the tables and keeps them, with their triggers.
LEMMA ResetKeeps ==
  ASSUME RegistrationInv, Reset
  PROVE  RegistrationInv'
<1> USE DEF RegistrationInv
<1>1. /\ ~Open /\ step' = step /\ saved' = saved /\ schema' = schema /\ changed' = changed
      /\ resets' \in 0..MaxResets /\ faults' = faults
      /\ store \in Store /\ Settled(store)
  BY RegistrationAssumption DEF Reset, TypeOK
<1>2. Fresh \in Store
  BY DEF Fresh, Store
<1>3. store' = [Fresh EXCEPT !.table = store.table, !.triggers = store.triggers,
                             !.makeshift = store.makeshift, !.retired = store.retired]
  BY DEF Reset
<1>4. store' \in Store
  BY <1>1, <1>2, <1>3 DEF Store
<1>5. /\ store'.table = store.table /\ store'.triggers = store.triggers
      /\ store'.retired = store.retired /\ store'.makeshift = store.makeshift
      /\ store'.version = 0 /\ store'.relations = {} /\ store'.engine = FALSE
      /\ store'.rows = {} /\ store'.known = {}
  BY <1>3 DEF Fresh
<1>6. TypeOK'
  BY <1>1, <1>4 DEF TypeOK
<1>7. Settled(store)'
  BY <1>1, <1>5 DEF Settled, Captures, DeclaredFits, TriggersFit, NamesFit, CursorFits, RowsFit,
                    HasTriggers
<1>8. ~Open' /\ ~Migrated' /\ step' = "idle"
  BY <1>1 DEF Open, Migrated
<1>9. QED
  BY <1>1, <1>6, <1>7, <1>8 DEF MigratedFits, TriggerStepFits, RowStepFits, Settled

(***************************************************************************)
(* The theorems.                                                           *)
(***************************************************************************)

LEMMA StepKeeps == RegistrationInv /\ [Next]_vars => RegistrationInv'
<1> SUFFICES ASSUME RegistrationInv, [Next]_vars PROVE RegistrationInv'
  OBVIOUS
<1>1. CASE UNCHANGED vars
  <2>1. /\ store' = store /\ saved' = saved /\ step' = step /\ schema' = schema
        /\ changed' = changed /\ resets' = resets /\ faults' = faults
    BY <1>1 DEF vars
  <2>2. QED
    BY <2>1
       DEF RegistrationInv, TypeOK, MigratedFits, Migrated, TriggerStepFits, RowStepFits, Open, Settled,
           Captures, DeclaredFits, TriggersFit, NamesFit, CursorFits, RowsFit, HasTriggers
<1>2. CASE Register
  BY <1>2, BeginKeeps, MigrateKeeps, CreateKeeps, DropTriggersKeeps, CreateTriggersKeeps,
     BackfillKeeps, RecordKeeps, CommitKeeps, UndoKeeps DEF Register
<1>3. QED
  BY <1>1, <1>2, InsertKeeps, SaveCursorKeeps, ResetKeeps DEF Next

LEMMA InvariantHolds == Spec => []RegistrationInv
BY InitEstablishes, StepKeeps, PTL DEF Spec

\* What a new connection would find is settled.
LEMMA CommittedIsSettled == RegistrationInv => Settled(Committed)
BY DEF RegistrationInv, Committed

\* Every variable has its type in every reachable state.
THEOREM TypeCorrect == Spec => []TypeOK
<1>1. RegistrationInv => TypeOK
  BY DEF RegistrationInv
<1>2. QED
  BY <1>1, InvariantHolds, PTL

\* MigrationEngine::registerSchema() leaves triggers that name the columns of the
\* schema, but for one left out by the release that made them, and columns of
\* the table, unless they are the ones made first after a reset().
THEOREM TriggersMatchTableCorrect == Spec => []TriggersMatchTable
<1>1. RegistrationInv => TriggersMatchTable
  <2> SUFFICES ASSUME Settled(Committed) PROVE TriggersMatchTable
    BY CommittedIsSettled
  <2>1. QED
    BY DEF Settled, TriggersMatchTable, Registered, TriggersFit, NamesFit, Captures, HasTriggers
<1>2. QED
  BY <1>1, InvariantHolds, PTL

\* MigrationEngine::migrateTable() gives the table every column and every foreign
\* key of the last release, but in the first registration after a reset().
THEOREM ColumnsAreThereCorrect == Spec => []ColumnsAreThere
<1>1. RegistrationInv => ColumnsAreThere
  BY CommittedIsSettled DEF Settled, ColumnsAreThere, Registered, DeclaredFits
<1>2. QED
  BY <1>1, InvariantHolds, PTL

\* However registrations fail, a table has triggers exactly while a session
\* would sync it.
THEOREM CapturedMeansSyncedCorrect == Spec => []CapturedMeansSynced
<1>1. RegistrationInv => CapturedMeansSynced
  BY CommittedIsSettled DEF Settled, CapturedMeansSynced, Registered, Captures, HasTriggers
<1>2. QED
  BY <1>1, InvariantHolds, PTL

\* Every row of a synced table has metadata, but for a row written without
\* triggers beside rows that have it, and the rows kept from the backfill by an
\* INSERT between the new triggers and its check (Missed).
THEOREM RowsAreKnownCorrect == Spec => []RowsAreKnown
<1>1. RegistrationInv => RowsAreKnown
  BY CommittedIsSettled DEF Settled, RowsAreKnown, Registered, Captures, RowsFit
<1>2. QED
  BY <1>1, InvariantHolds, PTL

\* Cursors of the old format go with the first registration under an engine,
\* and later registrations keep the cursors there are.
THEOREM CursorsRestartOnceCorrect == Spec => CursorsRestartOnce
<1> DEFINE Restart ==
      /\ Committed'.engine => Committed'.cursor # "old"
      /\ Committed.engine /\ Committed.cursor = "current" /\ Committed'.engine
           => Committed'.cursor = "current"
<1>1. ASSUME RegistrationInv, [Next]_vars PROVE Restart
  <2>1. RegistrationInv'
    BY <1>1, StepKeeps
  <2>2. Committed'.engine => Committed'.cursor # "old"
    <3>1. /\ (Open' => CursorFits(saved)')
          /\ (~Open' => CursorFits(store)')
      BY <2>1 DEF RegistrationInv, Settled
    <3>2. QED
      BY <3>1 DEF Committed, CursorFits
  <2>3. CASE ~Open /\ ~Open'
    <3>1. \/ \E r \in Rows : Insert(r)
          \/ SaveCursor \/ Reset \/ UNCHANGED vars
      BY <1>1, <2>3
         DEF Next, Register, Begin, Migrate, Create, DropTriggers, CreateTriggers, Backfill, Record,
             Commit, Fault, Open
    <3>2. store \in Store
      BY <1>1 DEF RegistrationInv, TypeOK
    <3>3. CASE \E r \in Rows : Insert(r)
      <4>1. store'.cursor = store.cursor
        BY <3>2, <3>3 DEF Insert, Captured, Store
      <4>2. QED
        BY <2>2, <2>3, <4>1 DEF Committed
    <3>4. CASE SaveCursor
      BY <2>2, <2>3, <3>2, <3>4 DEF SaveCursor, Committed, Store
    <3>5. CASE Reset
      BY <2>2, <2>3, <3>5 DEF Reset, Committed, Fresh
    <3>6. CASE UNCHANGED vars
      BY <2>2, <2>3, <3>6 DEF vars, Committed
    <3>7. QED
      BY <3>1, <3>3, <3>4, <3>5, <3>6
  <2>4. CASE ~Open /\ Open'
    <3>1. saved' = store
      BY <1>1, <2>4
         DEF Next, Register, Begin, Migrate, Create, DropTriggers, CreateTriggers, Backfill, Record,
             Commit, Fault, Open, Insert, SaveCursor, Reset, vars
    <3>2. QED
      BY <2>2, <2>4, <3>1 DEF Committed
  <2>5. CASE Open /\ Open'
    <3>1. saved' = saved
      BY <1>1, <2>5
         DEF Next, Register, Begin, Migrate, Create, DropTriggers, CreateTriggers, Backfill, Record,
             Commit, Fault, Leave, Open, Insert, SaveCursor, Reset, vars
    <3>2. QED
      BY <2>2, <2>5, <3>1 DEF Committed
  <2>6. CASE Open /\ ~Open'
    <3>1. store' = saved \/ store' = store
      BY <1>1, <2>6
         DEF Next, Register, Begin, Migrate, Create, DropTriggers, CreateTriggers, Backfill, Record,
             Commit, Fault, Undo, Open, Insert, SaveCursor, Reset, vars
    <3>2. saved.engine /\ saved.cursor = "current" => store.cursor = "current"
      BY <1>1, <2>6 DEF RegistrationInv
    <3>3. QED
      BY <2>2, <2>6, <3>1, <3>2 DEF Committed
  <2>7. QED
    BY <2>3, <2>4, <2>5, <2>6
<1>2. RegistrationInv /\ [Next]_vars => [Restart]_vars
  BY <1>1
<1>3. QED
  BY <1>2, InvariantHolds, PTL DEF Spec, CursorsRestartOnce

=============================================================================
