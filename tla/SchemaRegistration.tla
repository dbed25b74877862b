------------------------ MODULE SchemaRegistration --------------------------
(***************************************************************************)
(* Database.register() over the life of an installation: every launch of   *)
(* the application registers the schema it ships with, which brings the    *)
(* table, the sync triggers, the stored version, the sync definition, the  *)
(* relations and the metadata into line with it in one transaction. The    *)
(* registration runs on a thread of its own and takes no sync lock, so the *)
(* application writes, and a sync session saves its cursor, between its    *)
(* statements. reset() empties every table and keeps the tables.           *)
(*                                                                         *)
(* One table stands for all: registrations of different tables share only  *)
(* the engine's version. A column is one the schema may or may not         *)
(* declare; the primary key is always there.                               *)
(***************************************************************************)
EXTENDS Naturals

CONSTANTS
  Columns,    \* the columns a schema may declare
  Versions,   \* the versions it may carry
  Rows,       \* the rows the application inserts
  NoTable, NoTriggers, NoSchema,
  MaxResets,  \* bound: calls of reset()
  MaxFaults   \* bound: statements that throw and crashes

Schemas ==
  {s \in [version : Versions, columns : SUBSET Columns, foreign : SUBSET Columns,
          synced : BOOLEAN] : s.foreign \subseteq s.columns}

ASSUME RegistrationAssumption ==
  /\ Versions \subseteq Nat \ {0}
  /\ \A C \in SUBSET Columns : C # NoTable /\ C # NoTriggers
  /\ NoSchema \notin Schemas
  /\ MaxResets \in Nat /\ MaxFaults \in Nat

VARIABLES
  store,     \* the database as every statement of the connection sees it
  saved,     \* the database at the registration's BEGIN
  step,      \* where the registration stands
  schema,    \* the schema it registers
  changed,   \* its columnsChanged
  resets, faults

vars == <<store, saved, step, schema, changed, resets, faults>>

Store ==
  [table      : {NoTable} \cup SUBSET Columns,        \* its columns
   triggers   : {NoTriggers} \cup SUBSET Columns,     \* the columns they name
   version    : Versions \cup {0},
   definition : {NoSchema} \cup Schemas,
   relations  : SUBSET Columns,
   engine     : BOOLEAN,                              \* the sync engine's version is stored
   cursor     : {"none", "old", "current"},           \* and the format it is in
   rows       : SUBSET Rows,
   known      : SUBSET Rows,                          \* rows with metadata
   declared   : {NoSchema} \cup Schemas,              \* history: the last schema registered
   reused     : BOOLEAN,            \* history: the last registration found a table, and no version
   makeshift  : BOOLEAN,            \* history: the triggers were made by such a registration
   retired    : SUBSET Columns,     \* history: columns of the table the triggers were not to name
   missed     : SUBSET Rows]        \* history: see Missed

TypeOK ==
  /\ store \in Store
  /\ saved \in Store
  /\ step \in {"idle", "table", "drop", "create", "backfill", "record", "commit"}
  /\ schema \in IF step = "idle" THEN {NoSchema} ELSE Schemas
  /\ changed \in BOOLEAN
  /\ resets \in 0..MaxResets
  /\ faults \in 0..MaxFaults

Open == step # "idle"

\* What a new connection would find.
Committed == IF Open THEN saved ELSE store

Fresh ==
  [table |-> NoTable, triggers |-> NoTriggers, version |-> 0, definition |-> NoSchema,
   relations |-> {}, engine |-> FALSE, cursor |-> "none", rows |-> {}, known |-> {},
   declared |-> NoSchema, reused |-> FALSE, makeshift |-> FALSE, retired |-> {}, missed |-> {}]

\* An installation an earlier release of the library has left: its cursor is
\* in the old format, and no engine version is stored.
Legacy(s) ==
  [Fresh EXCEPT !.table = s.columns, !.triggers = s.columns, !.version = s.version,
                !.definition = s, !.cursor = "old", !.declared = s]

Init ==
  /\ store \in {Fresh} \cup {Legacy(s) : s \in {z \in Schemas : z.synced /\ z.foreign = {}}}
  /\ saved = Fresh
  /\ step = "idle"
  /\ schema = NoSchema
  /\ changed = FALSE
  /\ resets = 0
  /\ faults = 0

-----------------------------------------------------------------------------
(* The statements of one registration.                                     *)

\* A slip: every registration drops the cursors, not only an engine's first.
PreparedAgain(d) == [d EXCEPT !.cursor = "none", !.engine = TRUE]

\* The system tables are there; the first registration under this engine
\* drops every cursor, whose format has changed.
Prepared(d) == IF d.engine THEN d ELSE [d EXCEPT !.cursor = "none", !.engine = TRUE]

Begin(s) ==
  /\ step = "idle"
  /\ saved' = store
  /\ store' = Prepared(store)
  /\ schema' = s
  /\ step' = "table"
  /\ changed' = FALSE
  /\ UNCHANGED <<resets, faults>>

\* A slip: added columns are not reported, and the triggers stay as they are.
MigrateQuietly ==
  /\ step = "table"
  /\ store.version # 0 /\ store.table # NoTable
  /\ store' = [store EXCEPT !.table = @ \cup schema.columns, !.reused = FALSE]
  /\ changed' = FALSE
  /\ step' = "drop"
  /\ UNCHANGED <<saved, schema, resets, faults>>

\* A slip: columns are added only by a schema of a higher version.
WithColumnsOnUpgrade(table) ==
  IF schema.version > store.version THEN table \cup schema.columns ELSE table

\* ALTER TABLE ADD COLUMN for what is missing, whatever the version says.
WithColumns(table) == table \cup schema.columns

Migrate ==
  /\ step = "table"
  /\ store.version # 0 /\ store.table # NoTable
  /\ store' = [store EXCEPT !.table = WithColumns(@), !.reused = FALSE]
  /\ changed' = ~(schema.columns \subseteq store.table)
  /\ step' = "drop"
  /\ UNCHANGED <<saved, schema, resets, faults>>

\* CREATE TABLE IF NOT EXISTS, which leaves a table alone that is there.
Create ==
  /\ step = "table"
  /\ store.version = 0 \/ store.table = NoTable
  /\ store' = [store EXCEPT !.table = IF @ = NoTable THEN schema.columns ELSE @,
                            !.reused = store.table # NoTable]
  /\ changed' = TRUE
  /\ step' = "drop"
  /\ UNCHANGED <<saved, schema, resets, faults>>

\* A slip: a schema that is no longer synced keeps its triggers.
DropTriggersOnChange ==
  /\ step = "drop"
  /\ store' = IF changed THEN [store EXCEPT !.triggers = NoTriggers] ELSE store
  /\ step' = "create"
  /\ UNCHANGED <<saved, schema, changed, resets, faults>>

DropTriggers ==
  /\ step = "drop"
  /\ store' = IF changed \/ ~schema.synced THEN [store EXCEPT !.triggers = NoTriggers] ELSE store
  /\ step' = "create"
  /\ UNCHANGED <<saved, schema, changed, resets, faults>>

\* CREATE TRIGGER IF NOT EXISTS. SQLite does not look up NEW's columns yet.
CreateTriggers ==
  /\ step = "create"
  /\ store' = IF schema.synced /\ store.triggers = NoTriggers
                THEN [store EXCEPT !.triggers = schema.columns, !.makeshift = store.reused,
                                   !.retired = store.table \ schema.columns]
                ELSE store
  /\ step' = "backfill"
  /\ UNCHANGED <<saved, schema, changed, resets, faults>>

\* A slip: the rows that were there before sync was enabled get no metadata.
BackfillNothing ==
  /\ step = "backfill"
  /\ step' = "record"
  /\ UNCHANGED <<store, saved, schema, changed, resets, faults>>

\* Only while the table has no metadata at all.
Backfill ==
  /\ step = "backfill"
  /\ store' = IF schema.synced /\ store.known = {} THEN [store EXCEPT !.known = store.rows] ELSE store
  /\ step' = "record"
  /\ UNCHANGED <<saved, schema, changed, resets, faults>>

\* The version, the definition and the relations. The index on each foreign key
\* is made as well when the table lacks the column: SQLite takes a quoted name
\* it does not know for a string, and so indexes a constant.
Record ==
  /\ step = "record"
  /\ store' = [store EXCEPT !.version = schema.version,
                            !.definition = IF schema.synced THEN schema ELSE NoSchema,
                            !.relations = schema.foreign, !.declared = schema]
  /\ step' = "commit"
  /\ UNCHANGED <<saved, schema, changed, resets, faults>>

\* A slip: the schema is still in hand when the next registration comes.
LeaveWithSchema == step' = "idle" /\ saved' = Fresh /\ schema' = schema /\ changed' = FALSE

Leave == step' = "idle" /\ saved' = Fresh /\ schema' = NoSchema /\ changed' = FALSE

Commit ==
  /\ step = "commit"
  /\ Leave
  /\ UNCHANGED <<store, resets, faults>>

\* The guard's destructor, or SQLite on the next open.
Undo == saved

\* A statement throws, or the process dies.
Fault ==
  /\ Open /\ faults < MaxFaults
  /\ store' = Undo
  /\ Leave
  /\ faults' = faults + 1
  /\ UNCHANGED resets

-----------------------------------------------------------------------------
(* What goes on beside it.                                                 *)

\* What the trigger, if there is one, makes of an INSERT.
Captured(r) ==
  [store EXCEPT !.rows = @ \cup {r},
                !.known = IF store.triggers = NoTriggers THEN @ ELSE @ \cup {r}]

\* The rows that an INSERT of r leaves without metadata for good. Without
\* triggers that is r itself, unless a backfill is still to come. The first
\* metadata of a table that comes from its new trigger, before the backfill has
\* looked, is taken for an earlier backfill's, and the older rows are never told of.
Missed(r) ==
  CASE store.triggers = NoTriggers /\ store.known # {} -> {r}
    [] store.triggers # NoTriggers /\ store.known = {} /\ step = "backfill" -> store.rows
    [] OTHER -> {}

\* An INSERT of the application, which fails when the trigger names a column
\* the table lacks.
Insert(r) ==
  /\ store.table # NoTable /\ r \notin store.rows
  /\ store.triggers # NoTriggers => store.triggers \subseteq store.table
  /\ store' = [Captured(r) EXCEPT !.missed = @ \cup Missed(r)]
  /\ UNCHANGED <<saved, step, schema, changed, resets, faults>>

\* A session pulls a page of an enabled schema.
SaveCursor ==
  /\ store.definition # NoSchema
  /\ store' = [store EXCEPT !.cursor = "current"]
  /\ UNCHANGED <<saved, step, schema, changed, resets, faults>>

\* reset() empties the tables sqlite_master lists and the system tables; their
\* definitions, triggers and indexes stay. BEGIN throws during a registration.
Reset ==
  /\ ~Open /\ resets < MaxResets
  /\ store' = [Fresh EXCEPT !.table = store.table, !.triggers = store.triggers,
                            !.makeshift = store.makeshift, !.retired = store.retired]
  /\ resets' = resets + 1
  /\ UNCHANGED <<saved, step, schema, changed, faults>>

Register ==
  \/ \E s \in Schemas : Begin(s)
  \/ Migrate \/ Create \/ DropTriggers \/ CreateTriggers \/ Backfill \/ Record
  \/ Commit \/ Fault

Next == Register \/ (\E r \in Rows : Insert(r)) \/ SaveCursor \/ Reset

Spec == Init /\ [][Next]_vars

-----------------------------------------------------------------------------
(* What registration promises, at every moment a crash could strike.       *)

Registered == Committed.version # 0

\* The triggers of a synced schema name each column it declares, whichever
\* releases were registered before it and in whatever order, except one that
\* the table already had when a release without it made them: they are made anew
\* only when a column is added. And they name none the table lacks, which would
\* make every write fail, except while they are those that the first
\* registration after a reset() made on the table it found.
TriggersMatchTable ==
  Registered /\ Committed.definition # NoSchema =>
    /\ Committed.declared.columns \subseteq Committed.triggers \cup Committed.retired
    /\ ~Committed.makeshift => Committed.triggers \subseteq Committed.table

\* The table has every column of the schema registered last, and so every
\* foreign key a primary-key rewrite would follow, whatever releases, faults
\* and resets came before: only the first registration after a reset() may leave
\* columns out, and the next one adds them.
ColumnsAreThere ==
  Registered /\ ~Committed.reused =>
    Committed.declared.columns \cup Committed.relations \subseteq Committed.table

\* A schema is captured by triggers exactly when a session would sync it: a
\* registration that fails half-way never leaves the one without the other.
CapturedMeansSynced ==
  Registered => (Committed.definition # NoSchema <=> Committed.triggers # NoTriggers)

\* A row of a synced table has metadata, from a trigger or from the backfill,
\* however registrations, faults and resets are ordered. Two writes are excepted
\* by Missed: one made without triggers on a table some of whose rows have
\* metadata (while sync is off again, or between DROP TRIGGER and CREATE TRIGGER), and
\* the rows an INSERT between CREATE TRIGGER and the backfill's check keeps from it,
\* which is what FirstUseBackfills is about.
RowsAreKnown ==
  Registered /\ Committed.definition # NoSchema =>
    Committed.rows \ Committed.missed \subseteq Committed.known

\* A cursor of the old format is gone once a registration under this engine
\* commits, and from then on a table is pulled afresh only after a reset.
CursorsRestartOnce ==
  [][/\ Committed'.engine => Committed'.cursor # "old"
     /\ Committed.engine /\ Committed.cursor = "current" /\ Committed'.engine
          => Committed'.cursor = "current"]_vars

-----------------------------------------------------------------------------
(* What the repository says of registration and its code does not do.      *)

\* "Backfill only once (first time metadata table is used for this schema)"
\* (MigrationEngine.cpp:475): the registration that first has a table captured
\* gives metadata to the rows that are in it.
FirstUseBackfills ==
  [][Committed.definition = NoSchema /\ Committed.known = {} /\ Committed'.definition # NoSchema
       => Committed.rows \subseteq Committed'.known]_vars

=============================================================================
