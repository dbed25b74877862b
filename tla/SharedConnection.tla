-------------------------- MODULE SharedConnection --------------------------
(***************************************************************************)
(* One SQLiteConnection used by two threads. The JavaScript thread runs    *)
(* statements and transactions (Database.execute, the query builders,      *)
(* Database.transaction); the sync worker applies what it has sent or      *)
(* pulled in transactions of its own and notes the outcome in statements   *)
(* of their own. The mutex covers one call at a time, so calls of the two  *)
(* threads interleave also inside a transaction, and the _inTransaction    *)
(* flag does not say whose transaction it is.                              *)
(*                                                                         *)
(* A job of the worker is an upload (a queued item the server has          *)
(* accepted, to be applied) or a page (pulled rows, or a confirmed         *)
(* delete). What a statement writes is the identity of its writer.         *)
(***************************************************************************)
EXTENDS Naturals, FiniteSets

CONSTANTS
  Tables,     \* the sync-enabled tables
  Units,      \* units of work of the application: a transaction or a single statement
  Uploads,    \* items the worker uploads
  Pages,      \* pages the worker pulls
  Nobody,     \* neither of them
  MaxFaults   \* bound: failed applies and crashes

Jobs == Uploads \cup Pages
Writers == Units \cup Jobs

ASSUME ConnectionAssumption ==
  /\ Tables # {}
  /\ Units \cap Jobs = {} /\ Uploads \cap Pages = {}
  /\ Nobody \notin Writers
  /\ MaxFaults \in Nat

VARIABLES
  db,        \* the database as every statement of the connection sees it
  saved,     \* the database at BEGIN
  inTx,      \* _inTransaction
  touched,   \* _touchedTables
  notified,  \* the tables the last call notified the subscribers of
  js,        \* the unit whose transaction JavaScript has open, or Nobody
  issued,    \* history: the tables each unit has written to
  worker,    \* where the worker stands
  job,       \* its job, or Nobody
  todo,      \* tables the apply has still to write
  faults     \* how many faults have happened

connVars == <<db, saved, inTx, touched, notified>>
jsVars == <<js, issued>>
workerVars == <<worker, job, todo>>
vars == <<connVars, jsVars, workerVars, faults>>

\* rows: who has written to each table; queue: the writes the triggers have
\* queued; items: what the queue (or the cursor) says of each job.
Database ==
  [rows : [Tables -> SUBSET Writers], lock : BOOLEAN,
   queue : SUBSET (Writers \X Tables),
   items : [Jobs -> {"pending", "blocked", "done"}]]

InApply == worker \in {"locking", "apply", "unlocking", "committing"}

TypeOK ==
  /\ db \in Database
  /\ saved \in Database
  /\ inTx \in BOOLEAN
  /\ touched \in SUBSET Tables
  /\ notified \in SUBSET Tables
  /\ js \in Units \cup {Nobody}
  /\ issued \in [Units -> SUBSET Tables]
  /\ worker \in {"idle", "ready", "locking", "apply", "unlocking", "committing",
                 "refused", "saving"}
  /\ job \in IF worker = "idle" THEN {Nobody} ELSE Jobs
  /\ todo \in SUBSET Tables
  /\ faults \in Nat

Empty ==
  [rows |-> [t \in Tables |-> {}], lock |-> FALSE, queue |-> {},
   items |-> [j \in Jobs |-> "pending"]]

Init ==
  /\ db = Empty
  /\ saved = Empty
  /\ inTx = FALSE
  /\ touched = {}
  /\ notified = {}
  /\ js = Nobody
  /\ issued = [u \in Units |-> {}]
  /\ worker = "idle"
  /\ job = Nobody
  /\ todo = {}
  /\ faults = 0

-----------------------------------------------------------------------------
(* The connection: each operator is one call under its mutex.              *)

\* A slip: subscribers are told of a statement although a transaction is open.
StatementFlushing(newDb, T) ==
  /\ db' = newDb
  /\ touched' = {}
  /\ notified' = touched \cup T
  /\ UNCHANGED <<saved, inTx>>

\* execute(), exec(): a statement that touches tables T. The update hook
\* collects them; outside a transaction the subscribers are told at once.
Statement(newDb, T) ==
  /\ db' = newDb
  /\ touched' = IF inTx THEN touched \cup T ELSE {}
  /\ notified' = IF inTx THEN {} ELSE touched \cup T
  /\ UNCHANGED <<saved, inTx>>

Begin ==
  /\ ~inTx
  /\ saved' = db
  /\ inTx' = TRUE
  /\ notified' = {}
  /\ UNCHANGED <<db, touched>>

Commit ==
  /\ inTx
  /\ inTx' = FALSE
  /\ touched' = {}
  /\ notified' = touched
  /\ UNCHANGED <<db, saved>>

\* A slip: the flag outlives the transaction.
RollbackKeepingFlag ==
  /\ inTx
  /\ db' = saved
  /\ touched' = {}
  /\ notified' = {}
  /\ UNCHANGED <<saved, inTx>>

Rollback ==
  /\ inTx
  /\ db' = saved
  /\ inTx' = FALSE
  /\ touched' = {}
  /\ notified' = {}
  /\ UNCHANGED saved

\* A slip: a trigger without its WHEN clause.
WrittenAlwaysQueued(w, t) ==
  [db EXCEPT !.rows[t] = @ \cup {w}, !.queue = @ \cup {<<w, t>>}]

\* A row statement and its trigger, which stays silent while the lock row is
\* there.
Written(w, t) ==
  [rows  |-> [db.rows EXCEPT ![t] = @ \cup {w}],
   lock  |-> db.lock,
   queue |-> IF db.lock THEN db.queue ELSE db.queue \cup {<<w, t>>},
   items |-> db.items]

-----------------------------------------------------------------------------
(* The JavaScript thread.                                                  *)

\* A builder's execute(), or Database.execute(), outside a transaction.
JsStatement(u, t) ==
  /\ js = Nobody /\ issued[u] = {}
  /\ Statement(Written(u, t), {t})
  /\ issued' = [issued EXCEPT ![u] = {t}]
  /\ UNCHANGED <<js, workerVars, faults>>

\* A slip: beginTransaction() inside the try block, whose catch rolls back.
JsBeginInsideTry(u) ==
  /\ js = Nobody /\ issued[u] = {}
  /\ \/ Begin /\ js' = u
     \/ Rollback /\ js' = js
  /\ UNCHANGED <<issued, workerVars, faults>>

\* Database.transaction(): a BEGIN while a transaction is open throws before
\* the try block, and nothing changes.
JsBegin(u) ==
  /\ js = Nobody /\ issued[u] = {}
  /\ Begin /\ js' = u
  /\ UNCHANGED <<issued, workerVars, faults>>

JsTxStatement(t) ==
  /\ js # Nobody /\ t \notin issued[js]
  /\ Statement(Written(js, t), {t})
  /\ issued' = [issued EXCEPT ![js] = @ \cup {t}]
  /\ UNCHANGED <<js, workerVars, faults>>

JsCommit ==
  /\ js # Nobody
  /\ Commit /\ js' = Nobody
  /\ UNCHANGED <<issued, workerVars, faults>>

\* The callback, a nested transaction() in it, or the COMMIT throws.
JsRollback ==
  /\ js # Nobody
  /\ Rollback /\ js' = Nobody
  /\ UNCHANGED <<issued, workerVars, faults>>

-----------------------------------------------------------------------------
(* The sync worker.                                                        *)

\* A slip: the next job is looked for with the last one still in hand.
LeaveWithJob == worker' = "idle" /\ job' = job /\ todo' = {}

Leave == worker' = "idle" /\ job' = Nobody /\ todo' = {}

\* A slip: the queue hands out blocked items as well.
StartJobBlockedToo(j) ==
  /\ worker = "idle" /\ db.items[j] # "done"
  /\ worker' = "ready" /\ job' = j
  /\ notified' = {}
  /\ UNCHANGED <<db, saved, inTx, touched, jsVars, todo, faults>>

\* A pending item is read and the server accepts its upload, or a page arrives.
StartJob(j) ==
  /\ worker = "idle" /\ db.items[j] = "pending"
  /\ worker' = "ready" /\ job' = j
  /\ notified' = {}
  /\ UNCHANGED <<db, saved, inTx, touched, jsVars, todo, faults>>

\* What an exception from applyWithBypass leads to: an upload is blocked, a
\* page or a confirmed delete ends the session.
Refused == IF job \in Uploads THEN worker' = "refused" /\ job' = job /\ todo' = {} ELSE Leave

\* A slip: the lock row is inserted before the transaction begins.
BeginApplyLocked ==
  /\ worker = "ready" /\ ~inTx
  /\ inTx' = TRUE
  /\ db' = [db EXCEPT !.lock = TRUE] /\ saved' = db'
  /\ worker' = "locking"
  /\ notified' = {}
  /\ UNCHANGED <<touched, jsVars, job, todo, faults>>

BeginApply ==
  /\ worker = "ready"
  /\ Begin
  /\ worker' = "locking"
  /\ UNCHANGED <<jsVars, job, todo, faults>>

\* "Nested transactions are not supported": JavaScript has a transaction open.
BeginThrows ==
  /\ worker = "ready" /\ inTx
  /\ Refused
  /\ notified' = {}
  /\ UNCHANGED <<db, saved, inTx, touched, jsVars, faults>>

Lock ==
  /\ worker = "locking"
  /\ Statement([db EXCEPT !.lock = TRUE], {})
  /\ worker' = "apply" /\ todo' = Tables
  /\ UNCHANGED <<jsVars, job, faults>>

ApplyTo(t) ==
  /\ worker = "apply" /\ t \in todo
  /\ Statement(Written(job, t), {t})
  /\ todo' = todo \ {t}
  /\ UNCHANGED <<jsVars, worker, job, faults>>

\* The last statement of an upload's apply removes its item.
FinishApply ==
  /\ worker = "apply" /\ todo = {}
  /\ Statement(IF job \in Uploads THEN [db EXCEPT !.items[job] = "done"] ELSE db, {})
  /\ worker' = "unlocking"
  /\ UNCHANGED <<jsVars, job, todo, faults>>

Unlock ==
  /\ worker = "unlocking"
  /\ Statement([db EXCEPT !.lock = FALSE], {})
  /\ worker' = "committing"
  /\ UNCHANGED <<jsVars, job, todo, faults>>

\* A page is followed by its cursor, saved in a statement of its own.
CommitApply ==
  /\ worker = "committing"
  /\ Commit
  /\ IF job \in Pages THEN worker' = "saving" /\ job' = job /\ todo' = {} ELSE Leave
  /\ UNCHANGED <<jsVars, faults>>

SaveCursor ==
  /\ worker = "saving"
  /\ Statement([db EXCEPT !.items[job] = "done"], {})
  /\ Leave
  /\ UNCHANGED <<jsVars, faults>>

\* A statement of the apply, or its COMMIT, throws: the guard rolls back.
ApplyThrows ==
  /\ InApply /\ faults < MaxFaults
  /\ Rollback
  /\ Refused
  /\ faults' = faults + 1
  /\ UNCHANGED jsVars

\* markBlocked() is a statement of its own, in whatever transaction is open.
Block ==
  /\ worker = "refused"
  /\ Statement([db EXCEPT !.items[job] = "blocked"], {})
  /\ Leave
  /\ UNCHANGED <<jsVars, faults>>

-----------------------------------------------------------------------------
\* What a new connection would find.
Committed == IF inTx THEN saved ELSE db

\* The process dies; SQLite rolls back whatever was open.
Crash ==
  /\ faults < MaxFaults
  /\ faults' = faults + 1
  /\ db' = Committed
  /\ inTx' = FALSE /\ touched' = {} /\ notified' = {}
  /\ js' = Nobody
  /\ Leave
  /\ UNCHANGED <<saved, issued>>

JsEnds == JsCommit \/ JsRollback

Js ==
  \/ JsEnds
  \/ \E u \in Units : JsBegin(u) \/ \E t \in Tables : JsStatement(u, t)
  \/ \E t \in Tables : JsTxStatement(t)

WorkerGoesOn ==
  \/ BeginApply \/ BeginThrows \/ Lock \/ FinishApply \/ Unlock \/ CommitApply
  \/ SaveCursor \/ Block
  \/ \E t \in Tables : ApplyTo(t)

Worker == WorkerGoesOn \/ ApplyThrows \/ \E j \in Jobs : StartJob(j)

Next == Js \/ Worker \/ Crash

Spec == Init /\ [][Next]_vars

\* A callback returns, and a started apply runs to its end on its own thread.
FairSpec == Spec /\ WF_vars(JsEnds) /\ WF_vars(WorkerGoesOn)

-----------------------------------------------------------------------------
(* What the connection promises.                                           *)

On(w) == {t \in Tables : w \in Committed.rows[t]}

\* Transactions are whole, whoever else writes between their statements: at any
\* moment a crash would leave all of a unit's or a job's writes or none of
\* them, an upload leaves the queue with its writes, and a cursor does not
\* pass a page that is not there.
TransactionsAreWhole ==
  /\ \A u \in Units : On(u) \in {{}, issued[u]}
  /\ \A j \in Jobs : On(j) \in {{}, Tables}
  /\ \A j \in Jobs : Committed.items[j] = "done" => On(j) = Tables
  /\ \A j \in Uploads : On(j) = {} \/ Committed.items[j] = "done"

\* The triggers are never left silent: no commit, rollback or crash leaves the
\* lock row behind.
TriggersComeBack == ~Committed.lock

\* What came from the server is not queued for it again.
AppliedIsNeverQueued == \A j \in Jobs, t \in Tables : <<j, t>> \notin db.queue

\* The connection implements a store whose steps are whole: what a crash would
\* leave is a state of AtomicStore, and every call a step of it or none. Nothing
\* that has been committed is changed or undone by a later commit, an upload
\* leaves the queue in the very step its echo appears in, and a blocked one
\* never does.
Store == INSTANCE AtomicStore
           WITH content <- [w \in Writers |-> On(w)], items <- Committed.items

StoreSpec == Store!Spec

\* Subscribers are told of every table whose committed content a call changes,
\* by that call, and never while the change could still be rolled back.
NotifiesWhatCommits ==
  [][/\ \A t \in Tables : Committed'.rows[t] # Committed.rows[t] => t \in notified'
     /\ notified' # {} => ~inTx']_vars

\* Every transaction ends, and leaves the flag down for the next one.
ConnectionIsFreed == []<>~inTx

-----------------------------------------------------------------------------
(* What the repository says of the connection and its code does not do.    *)

\* "every INSERT/UPDATE/DELETE (including raw SQL) is captured by a SQLite
\* trigger and queued for sync" (README.md:30); the application's writes run
\* outside the lock's window (docs/query-layer.md:324).
EveryWriteEnqueued ==
  \A u \in Units : \A t \in On(u) : <<u, t>> \in Committed.queue

=============================================================================
