----------------------- MODULE SharedConnection_proofs -----------------------
(***************************************************************************)
(* Transactions of two threads on one connection are whole, the lock row   *)
(* never outlives them, and what came from the server is not queued: for   *)
(* any number of tables, units, items, pages and faults. And the           *)
(* connection implements AtomicStore.                                      *)
(***************************************************************************)
EXTENDS SharedConnection, TLAPS

(***************************************************************************)
(* The inductive invariant.                                                *)
(***************************************************************************)

\* The tables of d that w has written to.
WrittenIn(d, w) == {t \in Tables : w \in d.rows[t]}

UnitWhole(d, u) == WrittenIn(d, u) \in {{}, issued[u]}

JobWhole(d, j) ==
  /\ WrittenIn(d, j) \in {{}, Tables}
  /\ d.items[j] = "done" => WrittenIn(d, j) = Tables
  /\ j \in Uploads => WrittenIn(d, j) = {} \/ d.items[j] = "done"

\* The flag is up exactly while one of the two threads has a transaction.
OneOwner ==
  /\ inTx <=> (js # Nobody \/ InApply)
  /\ js # Nobody => ~InApply

JobFits ==
  /\ worker = "refused" => job \in Uploads
  /\ worker = "saving" => job \in Pages

LockFits ==
  /\ db.lock <=> worker \in {"apply", "unlocking"}
  /\ inTx => ~saved.lock

QueueFits ==
  \A j \in Jobs, t \in Tables :
    /\ <<j, t>> \notin db.queue
    /\ inTx => <<j, t>> \notin saved.queue

\* A unit is whole in what is visible and in what a rollback restores, where
\* an open transaction of JavaScript has not happened yet.
UnitsFit ==
  /\ \A u \in Units : UnitWhole(db, u)
  /\ inTx => \A u \in Units : UnitWhole(saved, u)
  /\ js # Nobody => WrittenIn(saved, js) = {} /\ WrittenIn(db, js) = issued[js]

\* The same of jobs, except the one being applied.
JobsFit ==
  /\ inTx => \A j \in Jobs : JobWhole(saved, j)
  /\ \A j \in Jobs : (worker = "apply" /\ j = job) \/ JobWhole(db, j)
  /\ worker = "apply" => /\ Tables \ todo \subseteq WrittenIn(db, job)
                         /\ db.items[job] = "done" => WrittenIn(db, job) = Tables
  /\ worker \in {"unlocking", "committing", "saving"} => WrittenIn(db, job) = Tables
  /\ worker = "saving" /\ inTx => WrittenIn(saved, job) = Tables

\* An upload leaves the queue in its own apply and nowhere else, so an item
\* about to be blocked has not been applied.
DoneFits ==
  /\ \A j \in Uploads :
       inTx /\ ~(j = job /\ worker \in {"unlocking", "committing"})
       => (saved.items[j] = "done" <=> db.items[j] = "done")
  /\ job \in Uploads /\ worker \in {"ready", "locking", "apply", "refused"}
     => db.items[job] # "done"
  /\ job \in Uploads /\ InApply => saved.items[job] # "done"

ConnectionInv ==
  /\ TypeOK /\ OneOwner /\ JobFits /\ LockFits /\ QueueFits
  /\ UnitsFit /\ JobsFit /\ DoneFits

(***************************************************************************)
(* What the statements do to a database.                                   *)
(***************************************************************************)

\* A row statement adds its writer to one table; its trigger queues the write
\* unless the lock row is there.
LEMMA WrittenFacts ==
  ASSUME db \in Database, NEW w \in Writers, NEW t \in Tables
  PROVE  /\ Written(w, t) \in Database
         /\ Written(w, t).lock = db.lock
         /\ Written(w, t).items = db.items
         /\ \A v : WrittenIn(Written(w, t), v) =
                   IF v = w THEN WrittenIn(db, v) \cup {t} ELSE WrittenIn(db, v)
         /\ Written(w, t).queue =
              IF db.lock THEN db.queue ELSE db.queue \cup {<<w, t>>}
<1>1. [db.rows EXCEPT ![t] = @ \cup {w}] \in [Tables -> SUBSET Writers]
  BY DEF Database
<1>2. (IF db.lock THEN db.queue ELSE db.queue \cup {<<w, t>>}) \in SUBSET (Writers \X Tables)
  BY DEF Database
<1>3. Written(w, t) \in Database
  BY <1>1, <1>2 DEF Database, Written
<1>4. \A v : WrittenIn(Written(w, t), v) =
            IF v = w THEN WrittenIn(db, v) \cup {t} ELSE WrittenIn(db, v)
  <2> SUFFICES ASSUME NEW v
               PROVE  WrittenIn(Written(w, t), v) =
                        IF v = w THEN WrittenIn(db, v) \cup {t} ELSE WrittenIn(db, v)
    OBVIOUS
  <2>1. \A s \in Tables : Written(w, t).rows[s] =
                           IF s = t THEN db.rows[s] \cup {w} ELSE db.rows[s]
    BY DEF Written, Database
  <2>2. \A s \in Tables : v \in Written(w, t).rows[s] <=> v \in db.rows[s] \/ (v = w /\ s = t)
    BY <2>1
  <2>3. QED
    BY <2>2 DEF WrittenIn
<1>5. QED
  BY <1>3, <1>4 DEF Written

\* Setting or removing the lock row changes nothing else.
LEMMA LockFacts ==
  ASSUME db \in Database, NEW b \in BOOLEAN
  PROVE  /\ [db EXCEPT !.lock = b] \in Database
         /\ [db EXCEPT !.lock = b].lock = b
         /\ [db EXCEPT !.lock = b].items = db.items
         /\ [db EXCEPT !.lock = b].queue = db.queue
         /\ [db EXCEPT !.lock = b].rows = db.rows
BY DEF Database

\* Changing what the queue says of one job changes nothing else.
LEMMA ItemFacts ==
  ASSUME db \in Database, NEW j \in Jobs, NEW st \in {"pending", "blocked", "done"}
  PROVE  /\ [db EXCEPT !.items[j] = st] \in Database
         /\ [db EXCEPT !.items[j] = st].lock = db.lock
         /\ [db EXCEPT !.items[j] = st].queue = db.queue
         /\ [db EXCEPT !.items[j] = st].rows = db.rows
         /\ \A k \in Jobs : [db EXCEPT !.items[j] = st].items[k] =
                              IF k = j THEN st ELSE db.items[k]
BY DEF Database

\* What has been written depends on the rows alone.
LEMMA SameRows ==
  ASSUME NEW d, NEW e, d.rows = e.rows, NEW w
  PROVE  WrittenIn(d, w) = WrittenIn(e, w)
BY DEF WrittenIn

(***************************************************************************)
(* The invariant holds initially and is kept by every step.                *)
(***************************************************************************)

LEMMA InitEstablishes == Init => ConnectionInv
<1> SUFFICES ASSUME Init PROVE ConnectionInv
  OBVIOUS
<1>1. Empty \in Database
  BY DEF Empty, Database
<1>2. \A w : WrittenIn(Empty, w) = {}
  BY DEF Empty, WrittenIn
<1>3. TypeOK
  BY <1>1, ConnectionAssumption DEF Init, TypeOK
<1>4. /\ ~db.lock /\ db.queue = {}
      /\ \A j \in Jobs : db.items[j] = "pending"
  BY DEF Init, Empty
<1>5. OneOwner /\ JobFits /\ LockFits /\ QueueFits
  BY <1>4 DEF Init, OneOwner, JobFits, LockFits, QueueFits, InApply
<1>6. UnitsFit
  BY <1>2 DEF Init, UnitsFit, UnitWhole
<1>7. JobsFit
  BY <1>2, <1>4 DEF Init, JobsFit, JobWhole
<1>8. DoneFits
  BY <1>4, ConnectionAssumption DEF Init, DoneFits, InApply, Jobs, Writers
<1>9. QED
  BY <1>3, <1>5, <1>6, <1>7, <1>8 DEF ConnectionInv

\* Units, uploads, pages and Nobody are told apart.
LEMMA TypesApart ==
  /\ Units \cap Jobs = {} /\ Uploads \subseteq Jobs /\ Pages \subseteq Jobs
  /\ Jobs \subseteq Writers /\ Units \subseteq Writers /\ Nobody \notin Jobs /\ Nobody \notin Units
  /\ \A j \in Jobs : j \in Uploads \/ j \in Pages
  /\ Uploads \cap Pages = {}
BY ConnectionAssumption DEF Jobs, Writers

(* One lemma per action: first what the action does to each variable and to
   what has been written, then the parts of the invariant.               *)

LEMMA JsStatementKeeps ==
  ASSUME ConnectionInv, NEW u \in Units, NEW t \in Tables, JsStatement(u, t)
  PROVE  ConnectionInv'
<1> USE DEF ConnectionInv
<1>1. /\ db' = Written(u, t)
      /\ saved' = saved /\ inTx' = inTx /\ touched' \in SUBSET Tables /\ notified' \in SUBSET Tables
  BY DEF JsStatement, Statement, TypeOK
<1>2. /\ js = Nobody /\ issued[u] = {} /\ issued' = [issued EXCEPT ![u] = {t}]
      /\ UNCHANGED <<js, worker, job, todo, faults>>
  BY DEF JsStatement, workerVars
<1>3. u \in Writers
  BY DEF Writers
<1>4. /\ db' \in Database /\ db'.lock = db.lock /\ db'.items = db.items
      /\ \A v : WrittenIn(db', v) = IF v = u THEN WrittenIn(db, v) \cup {t} ELSE WrittenIn(db, v)
      /\ db'.queue = IF db.lock THEN db.queue ELSE db.queue \cup {<<u, t>>}
  <2>1. db \in Database
    BY DEF TypeOK
  <2> QED
    BY <1>1, <1>3, <2>1, WrittenFacts
<1>5. \A v : WrittenIn(saved', v) = WrittenIn(saved, v)
  BY <1>1
<1>6. TypeOK'
  BY <1>1, <1>2, <1>4 DEF TypeOK
<1>7. OneOwner'
  BY <1>1, <1>2 DEF OneOwner, InApply
<1>8. JobFits'
  BY <1>2 DEF JobFits
<1>9. LockFits'
  BY <1>1, <1>2, <1>4 DEF LockFits
<1>10. QueueFits'
  <2> SUFFICES ASSUME NEW j \in Jobs, NEW s \in Tables
               PROVE  /\ <<j, s>> \notin db'.queue
                      /\ inTx' => <<j, s>> \notin saved'.queue
    BY DEF QueueFits
  <2>1. <<j, s>> # <<u, t>>
    BY TypesApart
  <2>2. <<j, s>> \notin db'.queue
    BY <1>4, <2>1 DEF QueueFits
  <2>3. QED
    BY <1>1, <2>2 DEF QueueFits
<1>11. UnitsFit'
  <2>1. \A v \in Units : issued'[v] = IF v = u THEN {t} ELSE issued[v]
    BY <1>2 DEF TypeOK
  <2>2. WrittenIn(db, u) = {} /\ (inTx => WrittenIn(saved, u) = {})
    BY <1>2 DEF UnitsFit, UnitWhole
  <2>3. \A v \in Units : WrittenIn(db', v) \in {{}, issued'[v]}
    BY <1>4, <2>1, <2>2 DEF UnitsFit, UnitWhole
  <2>4. inTx => \A v \in Units : WrittenIn(saved', v) \in {{}, issued'[v]}
    BY <1>5, <2>1, <2>2 DEF UnitsFit, UnitWhole
  <2>5. QED
    BY <1>1, <1>2, <2>3, <2>4 DEF UnitsFit, UnitWhole
<1>12. JobsFit'
  BY <1>1, <1>2, <1>4, TypesApart DEF JobsFit, JobWhole, TypeOK
<1>13. DoneFits'
  BY <1>1, <1>2, <1>4 DEF DoneFits, InApply
<1>14. QED
  BY <1>6, <1>7, <1>8, <1>9, <1>10, <1>11, <1>12, <1>13 DEF ConnectionInv

LEMMA JsTxStatementKeeps ==
  ASSUME ConnectionInv, NEW t \in Tables, JsTxStatement(t)
  PROVE  ConnectionInv'
<1> USE DEF ConnectionInv
<1>1. /\ db' = Written(js, t)
      /\ saved' = saved /\ inTx' = inTx /\ touched' \in SUBSET Tables /\ notified' \in SUBSET Tables
  BY DEF JsTxStatement, Statement, TypeOK
<1>2. /\ js \in Units /\ issued' = [issued EXCEPT ![js] = @ \cup {t}]
      /\ UNCHANGED <<js, worker, job, todo, faults>>
  BY DEF JsTxStatement, workerVars, TypeOK
<1>3. js \in Writers
  BY <1>2 DEF Writers
<1>4. /\ db' \in Database /\ db'.lock = db.lock /\ db'.items = db.items
      /\ \A v : WrittenIn(db', v) = IF v = js THEN WrittenIn(db, v) \cup {t} ELSE WrittenIn(db, v)
      /\ db'.queue = IF db.lock THEN db.queue ELSE db.queue \cup {<<js, t>>}
  BY <1>1, <1>3, WrittenFacts DEF TypeOK
<1>5. \A v : WrittenIn(saved', v) = WrittenIn(saved, v)
  BY <1>1
<1>6. TypeOK'
  BY <1>1, <1>2, <1>4 DEF TypeOK
<1>7. OneOwner'
  BY <1>1, <1>2 DEF OneOwner, InApply
<1>8. JobFits'
  BY <1>2 DEF JobFits
<1>9. LockFits'
  BY <1>1, <1>2, <1>4 DEF LockFits
<1>10. QueueFits'
  <2> SUFFICES ASSUME NEW j \in Jobs, NEW s \in Tables
               PROVE  /\ <<j, s>> \notin db'.queue
                      /\ inTx' => <<j, s>> \notin saved'.queue
    BY DEF QueueFits
  <2>1. <<j, s>> # <<js, t>>
    BY <1>2, TypesApart
  <2>2. <<j, s>> \notin db'.queue
    BY <1>4, <2>1 DEF QueueFits
  <2>3. QED
    BY <1>1, <2>2 DEF QueueFits
<1>11. UnitsFit'
  <2>1. \A v \in Units : issued'[v] = IF v = js THEN issued[js] \cup {t} ELSE issued[v]
    BY <1>2 DEF TypeOK
  <2>2. WrittenIn(db, js) = issued[js] /\ WrittenIn(saved, js) = {}
    BY <1>2, TypesApart DEF UnitsFit
  <2>3. \A v \in Units : WrittenIn(db', v) \in {{}, issued'[v]}
    BY <1>4, <2>1, <2>2 DEF UnitsFit, UnitWhole
  <2>4. inTx => \A v \in Units : WrittenIn(saved', v) \in {{}, issued'[v]}
    BY <1>5, <2>1, <2>2 DEF UnitsFit, UnitWhole
  <2>5. WrittenIn(saved', js') = {} /\ WrittenIn(db', js') = issued'[js']
    BY <1>2, <1>4, <1>5, <2>1, <2>2
  <2>6. QED
    BY <1>1, <2>3, <2>4, <2>5 DEF UnitsFit, UnitWhole
<1>12. JobsFit'
  BY <1>1, <1>2, <1>4, TypesApart DEF JobsFit, JobWhole, TypeOK
<1>13. DoneFits'
  BY <1>1, <1>2, <1>4 DEF DoneFits, InApply
<1>14. QED
  BY <1>6, <1>7, <1>8, <1>9, <1>10, <1>11, <1>12, <1>13 DEF ConnectionInv

LEMMA ApplyToKeeps ==
  ASSUME ConnectionInv, NEW t \in Tables, ApplyTo(t)
  PROVE  ConnectionInv'
<1> USE DEF ConnectionInv
<1>1. /\ db' = Written(job, t)
      /\ saved' = saved /\ inTx' = inTx /\ touched' \in SUBSET Tables /\ notified' \in SUBSET Tables
  BY DEF ApplyTo, Statement, TypeOK
<1>2. /\ job \in Jobs /\ worker = "apply" /\ t \in todo /\ todo' = todo \ {t}
      /\ UNCHANGED <<js, issued, worker, job, faults>>
  BY DEF ApplyTo, jsVars, TypeOK
<1>3. job \in Writers
  BY <1>2 DEF Writers
<1>4. /\ db' \in Database /\ db'.lock = db.lock /\ db'.items = db.items
      /\ \A v : WrittenIn(db', v) = IF v = job THEN WrittenIn(db, v) \cup {t} ELSE WrittenIn(db, v)
      /\ db'.queue = IF db.lock THEN db.queue ELSE db.queue \cup {<<job, t>>}
  BY <1>1, <1>3, WrittenFacts DEF TypeOK
<1>5. \A v : WrittenIn(saved', v) = WrittenIn(saved, v)
  BY <1>1
<1>6. TypeOK'
  BY <1>1, <1>2, <1>4 DEF TypeOK
<1>7. OneOwner'
  BY <1>1, <1>2 DEF OneOwner, InApply
<1>8. JobFits'
  BY <1>2 DEF JobFits
<1>9. LockFits'
  BY <1>1, <1>2, <1>4 DEF LockFits
<1>10. QueueFits'
  BY <1>1, <1>2, <1>4 DEF QueueFits, LockFits
<1>11. UnitsFit'
  BY <1>1, <1>2, <1>4, TypesApart DEF UnitsFit, UnitWhole, OneOwner, InApply
<1>12. JobsFit'
  <2>1. inTx' => \A j \in Jobs : JobWhole(saved', j)
    BY <1>1 DEF JobsFit
  <2>2. \A j \in Jobs : (worker' = "apply" /\ j = job') \/ JobWhole(db', j)
    BY <1>2, <1>4 DEF JobsFit, JobWhole
  <2>3. WrittenIn(db, job) \subseteq Tables
    BY DEF WrittenIn
  <2>4. WrittenIn(db', job) = WrittenIn(db, job) \cup {t}
    BY <1>4
  <2>5. Tables \ todo' \subseteq WrittenIn(db', job)
    BY <1>2, <2>4 DEF JobsFit
  <2>6. db'.items[job] = "done" => WrittenIn(db', job) = Tables
    BY <1>2, <1>4, <2>3, <2>4 DEF JobsFit
  <2>7. QED
    BY <1>2, <2>1, <2>2, <2>5, <2>6 DEF JobsFit
<1>13. DoneFits'
  BY <1>1, <1>2, <1>4 DEF DoneFits, InApply
<1>14. QED
  BY <1>6, <1>7, <1>8, <1>9, <1>10, <1>11, <1>12, <1>13 DEF ConnectionInv

LEMMA LockKeeps ==
  ASSUME ConnectionInv, Lock
  PROVE  ConnectionInv'
<1> USE DEF ConnectionInv
<1>1. /\ db' = [db EXCEPT !.lock = TRUE]
      /\ saved' = saved /\ inTx' = inTx /\ touched' \in SUBSET Tables /\ notified' \in SUBSET Tables
  BY DEF Lock, Statement, TypeOK
<1>2. /\ job \in Jobs /\ worker = "locking" /\ worker' = "apply" /\ todo' = Tables
      /\ UNCHANGED <<js, issued, job, faults>>
  BY DEF Lock, jsVars, TypeOK
<1>3. /\ db' \in Database /\ db'.lock = TRUE /\ db'.items = db.items
      /\ db'.queue = db.queue /\ db'.rows = db.rows
  BY <1>1, LockFacts DEF TypeOK
<1>4. \A v : /\ WrittenIn(db', v) = WrittenIn(db, v)
             /\ WrittenIn(saved', v) = WrittenIn(saved, v)
  BY <1>1 DEF WrittenIn
<1>5. TypeOK'
  BY <1>1, <1>2, <1>3 DEF TypeOK
<1>6. OneOwner'
  BY <1>1, <1>2 DEF OneOwner, InApply
<1>7. JobFits'
  BY <1>2 DEF JobFits
<1>8. LockFits'
  BY <1>1, <1>2 DEF LockFits
<1>9. QueueFits'
  BY <1>1, <1>3 DEF QueueFits
<1>10. UnitsFit'
  BY <1>2, <1>4 DEF UnitsFit, UnitWhole, OneOwner, InApply
<1>11. JobsFit'
  BY <1>1, <1>2, <1>3, <1>4 DEF JobsFit, JobWhole
<1>12. DoneFits'
  BY <1>1, <1>2 DEF DoneFits, InApply
<1>13. QED
  BY <1>5, <1>6, <1>7, <1>8, <1>9, <1>10, <1>11, <1>12 DEF ConnectionInv

LEMMA UnlockKeeps ==
  ASSUME ConnectionInv, Unlock
  PROVE  ConnectionInv'
<1> USE DEF ConnectionInv
<1>1. /\ db' = [db EXCEPT !.lock = FALSE]
      /\ saved' = saved /\ inTx' = inTx /\ touched' \in SUBSET Tables /\ notified' \in SUBSET Tables
  BY DEF Unlock, Statement, TypeOK
<1>2. /\ job \in Jobs /\ worker = "unlocking" /\ worker' = "committing"
      /\ UNCHANGED <<js, issued, job, todo, faults>>
  BY DEF Unlock, jsVars, TypeOK
<1>3. /\ db' \in Database /\ db'.lock = FALSE /\ db'.items = db.items
      /\ db'.queue = db.queue /\ db'.rows = db.rows
  BY <1>1, LockFacts DEF TypeOK
<1>4. \A v : /\ WrittenIn(db', v) = WrittenIn(db, v)
             /\ WrittenIn(saved', v) = WrittenIn(saved, v)
  BY <1>1 DEF WrittenIn
<1>5. TypeOK'
  BY <1>1, <1>2, <1>3 DEF TypeOK
<1>6. OneOwner'
  BY <1>1, <1>2 DEF OneOwner, InApply
<1>7. JobFits'
  BY <1>2 DEF JobFits
<1>8. LockFits'
  BY <1>1, <1>2 DEF LockFits
<1>9. QueueFits'
  BY <1>1, <1>3 DEF QueueFits
<1>10. UnitsFit'
  BY <1>2, <1>4 DEF UnitsFit, UnitWhole, OneOwner, InApply
<1>11. JobsFit'
  BY <1>1, <1>2, <1>3, <1>4 DEF JobsFit, JobWhole
<1>12. DoneFits'
  BY <1>1, <1>2 DEF DoneFits, InApply
<1>13. QED
  BY <1>5, <1>6, <1>7, <1>8, <1>9, <1>10, <1>11, <1>12 DEF ConnectionInv

LEMMA SaveCursorKeeps ==
  ASSUME ConnectionInv, SaveCursor
  PROVE  ConnectionInv'
<1> USE DEF ConnectionInv
<1>1. /\ db' = [db EXCEPT !.items[job] = "done"]
      /\ saved' = saved /\ inTx' = inTx /\ touched' \in SUBSET Tables /\ notified' \in SUBSET Tables
  BY DEF SaveCursor, Statement, TypeOK
<1>2. /\ job \in Pages /\ job \in Jobs /\ worker = "saving" /\ worker' = "idle" /\ job' = Nobody /\ todo' = {}
      /\ UNCHANGED <<js, issued, faults>>
  BY DEF SaveCursor, Leave, jsVars, TypeOK, JobFits
<1>3. /\ db' \in Database /\ db'.lock = db.lock /\ db'.queue = db.queue /\ db'.rows = db.rows
      /\ \A k \in Jobs : db'.items[k] = IF k = job THEN "done" ELSE db.items[k]
  BY <1>1, <1>2, ItemFacts DEF TypeOK
<1>4. \A v : /\ WrittenIn(db', v) = WrittenIn(db, v)
             /\ WrittenIn(saved', v) = WrittenIn(saved, v)
  BY <1>1 DEF WrittenIn
<1>5. TypeOK'
  BY <1>1, <1>2, <1>3 DEF TypeOK
<1>6. OneOwner'
  BY <1>1, <1>2 DEF OneOwner, InApply
<1>7. JobFits'
  BY <1>2 DEF JobFits
<1>8. LockFits'
  BY <1>1, <1>2 DEF LockFits
<1>9. QueueFits'
  BY <1>1, <1>3 DEF QueueFits
<1>10. UnitsFit'
  BY <1>1, <1>2, <1>4 DEF UnitsFit, UnitWhole
<1>11. JobsFit'
  BY <1>1, <1>2, <1>4 DEF JobsFit, JobWhole
<1>12. DoneFits'
  BY <1>1, <1>2, TypesApart DEF DoneFits
<1>13. QED
  BY <1>5, <1>6, <1>7, <1>8, <1>9, <1>10, <1>11, <1>12 DEF ConnectionInv

LEMMA BlockKeeps ==
  ASSUME ConnectionInv, Block
  PROVE  ConnectionInv'
<1> USE DEF ConnectionInv
<1>1. /\ db' = [db EXCEPT !.items[job] = "blocked"]
      /\ saved' = saved /\ inTx' = inTx /\ touched' \in SUBSET Tables /\ notified' \in SUBSET Tables
  BY DEF Block, Statement, TypeOK
<1>2. /\ job \in Uploads /\ job \in Jobs /\ worker = "refused" /\ worker' = "idle" /\ job' = Nobody /\ todo' = {}
      /\ UNCHANGED <<js, issued, faults>>
  BY DEF Block, Leave, jsVars, TypeOK, JobFits
<1>3. /\ db' \in Database /\ db'.lock = db.lock /\ db'.queue = db.queue /\ db'.rows = db.rows
      /\ \A k \in Jobs : db'.items[k] = IF k = job THEN "blocked" ELSE db.items[k]
  BY <1>1, <1>2, ItemFacts DEF TypeOK
<1>4. \A v : /\ WrittenIn(db', v) = WrittenIn(db, v)
             /\ WrittenIn(saved', v) = WrittenIn(saved, v)
  BY <1>1 DEF WrittenIn
<1>5. TypeOK'
  BY <1>1, <1>2, <1>3 DEF TypeOK
<1>6. OneOwner'
  BY <1>1, <1>2 DEF OneOwner, InApply
<1>7. JobFits'
  BY <1>2 DEF JobFits
<1>8. LockFits'
  BY <1>1, <1>2 DEF LockFits
<1>9. QueueFits'
  BY <1>1, <1>3 DEF QueueFits
<1>10. UnitsFit'
  BY <1>1, <1>2, <1>4 DEF UnitsFit, UnitWhole
<1>11. JobsFit'
  <2>1. inTx' => \A j \in Jobs : JobWhole(saved', j)
    BY <1>1 DEF JobsFit
  <2>2. JobWhole(db, job) /\ db.items[job] # "done"
    BY <1>2 DEF JobsFit, DoneFits
  <2>3. \A j \in Jobs : JobWhole(db', j)
    BY <1>3, <1>4, <2>2 DEF JobsFit, JobWhole
  <2>4. QED
    BY <1>2, <2>1, <2>3 DEF JobsFit
<1>12. DoneFits'
  BY <1>1, <1>2 DEF DoneFits, InApply
<1>13. QED
  BY <1>5, <1>6, <1>7, <1>8, <1>9, <1>10, <1>11, <1>12 DEF ConnectionInv

LEMMA StartJobKeeps ==
  ASSUME ConnectionInv, NEW j \in Jobs, StartJob(j)
  PROVE  ConnectionInv'
<1> USE DEF ConnectionInv
<1>1. /\ db' = db /\ saved' = saved /\ inTx' = inTx /\ touched' = touched /\ notified' = {}
  BY DEF StartJob
<1>2. /\ worker = "idle" /\ db.items[j] = "pending" /\ worker' = "ready" /\ job' = j /\ job = Nobody
      /\ UNCHANGED <<js, issued, todo, faults>>
  BY DEF StartJob, jsVars, TypeOK
<1>3. \A v : /\ WrittenIn(db', v) = WrittenIn(db, v)
             /\ WrittenIn(saved', v) = WrittenIn(saved, v)
  BY <1>1
<1>4. TypeOK'
  BY <1>1, <1>2 DEF TypeOK
<1>5. OneOwner'
  BY <1>1, <1>2 DEF OneOwner, InApply
<1>6. JobFits'
  BY <1>2 DEF JobFits
<1>7. LockFits'
  BY <1>1, <1>2 DEF LockFits
<1>8. QueueFits'
  BY <1>1 DEF QueueFits
<1>9. UnitsFit'
  BY <1>1, <1>2 DEF UnitsFit, UnitWhole
<1>10. JobsFit'
  BY <1>1, <1>2 DEF JobsFit
<1>11. DoneFits'
  BY <1>1, <1>2 DEF DoneFits, InApply
<1>12. QED
  BY <1>4, <1>5, <1>6, <1>7, <1>8, <1>9, <1>10, <1>11 DEF ConnectionInv

LEMMA BeginThrowsKeeps ==
  ASSUME ConnectionInv, BeginThrows
  PROVE  ConnectionInv'
<1> USE DEF ConnectionInv
<1>1. /\ db' = db /\ saved' = saved /\ inTx' = inTx /\ touched' = touched /\ notified' = {}
  BY DEF BeginThrows
<1>2. /\ job \in Jobs /\ worker = "ready" /\ todo' \in SUBSET Tables
      /\ IF job \in Uploads THEN worker' = "refused" /\ job' = job ELSE worker' = "idle" /\ job' = Nobody
      /\ UNCHANGED <<js, issued, faults>>
  BY DEF BeginThrows, Refused, Leave, jsVars, TypeOK
<1>3. \A v : /\ WrittenIn(db', v) = WrittenIn(db, v)
             /\ WrittenIn(saved', v) = WrittenIn(saved, v)
  BY <1>1
<1>4. TypeOK'
  BY <1>1, <1>2 DEF TypeOK
<1>5. OneOwner'
  BY <1>1, <1>2 DEF OneOwner, InApply
<1>6. JobFits'
  BY <1>2 DEF JobFits
<1>7. LockFits'
  BY <1>1, <1>2 DEF LockFits
<1>8. QueueFits'
  BY <1>1 DEF QueueFits
<1>9. UnitsFit'
  BY <1>1, <1>2 DEF UnitsFit, UnitWhole
<1>10. JobsFit'
  BY <1>1, <1>2 DEF JobsFit
<1>11. DoneFits'
  BY <1>1, <1>2 DEF DoneFits, InApply
<1>12. QED
  BY <1>4, <1>5, <1>6, <1>7, <1>8, <1>9, <1>10, <1>11 DEF ConnectionInv

LEMMA JsBeginKeeps ==
  ASSUME ConnectionInv, NEW u \in Units, JsBegin(u)
  PROVE  ConnectionInv'
<1> USE DEF ConnectionInv
<1>1. /\ ~inTx /\ db' = db /\ saved' = db /\ inTx' = TRUE /\ touched' = touched /\ notified' = {}
  BY DEF JsBegin, Begin
<1>2. /\ js = Nobody /\ issued[u] = {} /\ js' = u
      /\ UNCHANGED <<issued, worker, job, todo, faults>>
  BY DEF JsBegin, workerVars
<1>3. \A v : /\ WrittenIn(db', v) = WrittenIn(db, v)
             /\ WrittenIn(saved', v) = WrittenIn(db, v)
  BY <1>1
<1>4. TypeOK'
  BY <1>1, <1>2 DEF TypeOK
<1>5. OneOwner'
  BY <1>1, <1>2, TypesApart DEF OneOwner, InApply
<1>6. JobFits'
  BY <1>2 DEF JobFits
<1>7. LockFits'
  BY <1>1, <1>2 DEF LockFits, OneOwner, InApply
<1>8. QueueFits'
  BY <1>1 DEF QueueFits
<1>9. UnitsFit'
  BY <1>1, <1>2 DEF UnitsFit, UnitWhole
<1>10. JobsFit'
  BY <1>1, <1>2 DEF JobsFit, OneOwner, InApply
<1>11. DoneFits'
  BY <1>1, <1>2 DEF DoneFits, OneOwner, InApply
<1>12. QED
  BY <1>4, <1>5, <1>6, <1>7, <1>8, <1>9, <1>10, <1>11 DEF ConnectionInv

LEMMA BeginApplyKeeps ==
  ASSUME ConnectionInv, BeginApply
  PROVE  ConnectionInv'
<1> USE DEF ConnectionInv
<1>1. /\ ~inTx /\ db' = db /\ saved' = db /\ inTx' = TRUE /\ touched' = touched /\ notified' = {}
  BY DEF BeginApply, Begin
<1>2. /\ job \in Jobs /\ worker = "ready" /\ worker' = "locking"
      /\ UNCHANGED <<js, issued, job, todo, faults>>
  BY DEF BeginApply, jsVars, TypeOK
<1>3. \A v : /\ WrittenIn(db', v) = WrittenIn(db, v)
             /\ WrittenIn(saved', v) = WrittenIn(db, v)
  BY <1>1
<1>4. TypeOK'
  BY <1>1, <1>2 DEF TypeOK
<1>5. OneOwner'
  BY <1>1, <1>2 DEF OneOwner, InApply
<1>6. JobFits'
  BY <1>2 DEF JobFits
<1>7. LockFits'
  BY <1>1, <1>2 DEF LockFits
<1>8. QueueFits'
  BY <1>1 DEF QueueFits
<1>9. UnitsFit'
  BY <1>1, <1>2 DEF UnitsFit, UnitWhole, OneOwner
<1>10. JobsFit'
  BY <1>1, <1>2 DEF JobsFit
<1>11. DoneFits'
  BY <1>1, <1>2 DEF DoneFits
<1>12. QED
  BY <1>4, <1>5, <1>6, <1>7, <1>8, <1>9, <1>10, <1>11 DEF ConnectionInv

LEMMA JsCommitKeeps ==
  ASSUME ConnectionInv, JsCommit
  PROVE  ConnectionInv'
<1> USE DEF ConnectionInv
<1>1. /\ inTx /\ db' = db /\ saved' = saved /\ inTx' = FALSE /\ touched' = {} /\ notified' = touched
  BY DEF JsCommit, Commit
<1>2. /\ js # Nobody /\ js' = Nobody
      /\ UNCHANGED <<issued, worker, job, todo, faults>>
  BY DEF JsCommit, workerVars
<1>3. \A v : /\ WrittenIn(db', v) = WrittenIn(db, v)
             /\ WrittenIn(saved', v) = WrittenIn(saved, v)
  BY <1>1
<1>4. TypeOK'
  BY <1>1, <1>2 DEF TypeOK
<1>5. OneOwner'
  BY <1>1, <1>2 DEF OneOwner, InApply
<1>6. JobFits'
  BY <1>2 DEF JobFits
<1>7. LockFits'
  BY <1>1, <1>2 DEF LockFits
<1>8. QueueFits'
  BY <1>1 DEF QueueFits
<1>9. UnitsFit'
  BY <1>1, <1>2 DEF UnitsFit, UnitWhole
<1>10. JobsFit'
  BY <1>1, <1>2 DEF JobsFit
<1>11. DoneFits'
  BY <1>1, <1>2 DEF DoneFits, InApply
<1>12. QED
  BY <1>4, <1>5, <1>6, <1>7, <1>8, <1>9, <1>10, <1>11 DEF ConnectionInv

LEMMA CommitApplyKeeps ==
  ASSUME ConnectionInv, CommitApply
  PROVE  ConnectionInv'
<1> USE DEF ConnectionInv
<1>1. /\ inTx /\ db' = db /\ saved' = saved /\ inTx' = FALSE /\ touched' = {} /\ notified' = touched
  BY DEF CommitApply, Commit
<1>2. /\ job \in Jobs /\ worker = "committing" /\ todo' \in SUBSET Tables
      /\ IF job \in Pages THEN worker' = "saving" /\ job' = job ELSE worker' = "idle" /\ job' = Nobody
      /\ UNCHANGED <<js, issued, faults>>
  BY DEF CommitApply, Leave, jsVars, TypeOK
<1>3. \A v : /\ WrittenIn(db', v) = WrittenIn(db, v)
             /\ WrittenIn(saved', v) = WrittenIn(saved, v)
  BY <1>1
<1>4. TypeOK'
  BY <1>1, <1>2 DEF TypeOK
<1>5. OneOwner'
  BY <1>1, <1>2 DEF OneOwner, InApply
<1>6. JobFits'
  BY <1>2 DEF JobFits
<1>7. LockFits'
  BY <1>1, <1>2 DEF LockFits
<1>8. QueueFits'
  BY <1>1 DEF QueueFits
<1>9. UnitsFit'
  BY <1>1, <1>2 DEF UnitsFit, UnitWhole
<1>10. JobsFit'
  BY <1>1, <1>2 DEF JobsFit
<1>11. DoneFits'
  BY <1>1, <1>2 DEF DoneFits, InApply
<1>12. QED
  BY <1>4, <1>5, <1>6, <1>7, <1>8, <1>9, <1>10, <1>11 DEF ConnectionInv

LEMMA JsRollbackKeeps ==
  ASSUME ConnectionInv, JsRollback
  PROVE  ConnectionInv'
<1> USE DEF ConnectionInv
<1>1. /\ inTx /\ db' = saved /\ saved' = saved /\ inTx' = FALSE /\ touched' = {} /\ notified' = {}
  BY DEF JsRollback, Rollback
<1>2. /\ js # Nobody /\ js' = Nobody
      /\ UNCHANGED <<issued, worker, job, todo, faults>>
  BY DEF JsRollback, workerVars
<1>3. \A v : /\ WrittenIn(db', v) = WrittenIn(saved, v)
             /\ WrittenIn(saved', v) = WrittenIn(saved, v)
  BY <1>1
<1>4. TypeOK'
  BY <1>1, <1>2 DEF TypeOK
<1>5. OneOwner'
  BY <1>1, <1>2 DEF OneOwner, InApply
<1>6. JobFits'
  BY <1>2 DEF JobFits
<1>7. LockFits'
  BY <1>1, <1>2 DEF LockFits, OneOwner, InApply
<1>8. QueueFits'
  BY <1>1 DEF QueueFits
<1>9. UnitsFit'
  BY <1>1, <1>2 DEF UnitsFit, UnitWhole
<1>10. JobsFit'
  BY <1>1, <1>2 DEF JobsFit, OneOwner, InApply
<1>11. DoneFits'
  BY <1>1, <1>2 DEF DoneFits, InApply
<1>12. QED
  BY <1>4, <1>5, <1>6, <1>7, <1>8, <1>9, <1>10, <1>11 DEF ConnectionInv

LEMMA ApplyThrowsKeeps ==
  ASSUME ConnectionInv, ApplyThrows
  PROVE  ConnectionInv'
<1> USE DEF ConnectionInv
<1>1. /\ inTx /\ db' = saved /\ saved' = saved /\ inTx' = FALSE /\ touched' = {} /\ notified' = {}
  BY DEF ApplyThrows, Rollback
<1>2. /\ job \in Jobs /\ InApply /\ todo' \in SUBSET Tables /\ faults' \in Nat
      /\ IF job \in Uploads THEN worker' = "refused" /\ job' = job ELSE worker' = "idle" /\ job' = Nobody
      /\ UNCHANGED <<js, issued>>
  BY DEF ApplyThrows, Refused, Leave, jsVars, TypeOK, InApply
<1>3. \A v : /\ WrittenIn(db', v) = WrittenIn(saved, v)
             /\ WrittenIn(saved', v) = WrittenIn(saved, v)
  BY <1>1
<1>4. TypeOK'
  BY <1>1, <1>2 DEF TypeOK
<1>5. OneOwner'
  BY <1>1, <1>2 DEF OneOwner, InApply
<1>6. JobFits'
  BY <1>2 DEF JobFits
<1>7. LockFits'
  BY <1>1, <1>2 DEF LockFits
<1>8. QueueFits'
  BY <1>1 DEF QueueFits
<1>9. UnitsFit'
  BY <1>1, <1>2 DEF UnitsFit, UnitWhole, OneOwner
<1>10. JobsFit'
  BY <1>1, <1>2 DEF JobsFit
<1>11. DoneFits'
  BY <1>1, <1>2 DEF DoneFits, InApply
<1>12. QED
  BY <1>4, <1>5, <1>6, <1>7, <1>8, <1>9, <1>10, <1>11 DEF ConnectionInv

LEMMA CrashKeeps ==
  ASSUME ConnectionInv, Crash
  PROVE  ConnectionInv'
<1> USE DEF ConnectionInv
<1>1. /\ db' = (IF inTx THEN saved ELSE db) /\ saved' = saved
      /\ inTx' = FALSE /\ touched' = {} /\ notified' = {}
  BY DEF Crash, Committed
<1>2. /\ js' = Nobody /\ worker' = "idle" /\ job' = Nobody /\ todo' = {} /\ faults' \in Nat
      /\ UNCHANGED <<issued>>
  BY DEF Crash, Leave, TypeOK
<1>3. \A v : WrittenIn(db', v) = IF inTx THEN WrittenIn(saved, v) ELSE WrittenIn(db, v)
  BY <1>1
<1>4. TypeOK'
  BY <1>1, <1>2 DEF TypeOK
<1>5. OneOwner'
  BY <1>1, <1>2 DEF OneOwner, InApply
<1>6. JobFits'
  BY <1>2 DEF JobFits
<1>7. LockFits'
  BY <1>1, <1>2 DEF LockFits, OneOwner, InApply
<1>8. QueueFits'
  BY <1>1 DEF QueueFits
<1>9. UnitsFit'
  BY <1>1, <1>2 DEF UnitsFit, UnitWhole
<1>10. JobsFit'
  BY <1>1, <1>2 DEF JobsFit, OneOwner, InApply
<1>11. DoneFits'
  BY <1>1, <1>2 DEF DoneFits, InApply
<1>12. QED
  BY <1>4, <1>5, <1>6, <1>7, <1>8, <1>9, <1>10, <1>11 DEF ConnectionInv

LEMMA FinishApplyKeeps ==
  ASSUME ConnectionInv, FinishApply
  PROVE  ConnectionInv'
<1> USE DEF ConnectionInv
<1>1. /\ db' = (IF job \in Uploads THEN [db EXCEPT !.items[job] = "done"] ELSE db)
      /\ saved' = saved /\ inTx' = inTx /\ touched' \in SUBSET Tables /\ notified' \in SUBSET Tables
  BY DEF FinishApply, Statement, TypeOK
<1>2. /\ job \in Jobs /\ worker = "apply" /\ todo = {} /\ worker' = "unlocking"
      /\ UNCHANGED <<js, issued, job, todo, faults>>
  BY DEF FinishApply, jsVars, TypeOK
<1>3. /\ db' \in Database /\ db'.lock = db.lock /\ db'.queue = db.queue /\ db'.rows = db.rows
      /\ \A k \in Jobs : db'.items[k] = IF k = job /\ job \in Uploads THEN "done" ELSE db.items[k]
  <2>1. CASE job \in Uploads
    <3> DEFINE e == [db EXCEPT !.items[job] = "done"]
    <3>1. db \in Database
      BY DEF TypeOK
    <3>2. /\ e \in Database /\ e.lock = db.lock /\ e.queue = db.queue /\ e.rows = db.rows
          /\ \A k \in Jobs : e.items[k] = IF k = job THEN "done" ELSE db.items[k]
      BY <1>2, <3>1, ItemFacts
    <3>3. db' = e
      BY <1>1, <2>1
    <3> HIDE DEF e
    <3>4. QED
      BY <2>1, <3>2, <3>3
  <2>2. CASE job \notin Uploads
    BY <1>1, <2>2 DEF TypeOK
  <2>3. QED
    BY <2>1, <2>2
<1>4. \A v : /\ WrittenIn(db', v) = WrittenIn(db, v)
             /\ WrittenIn(saved', v) = WrittenIn(saved, v)
  BY <1>1 DEF WrittenIn
<1>5. TypeOK'
  BY <1>1, <1>2, <1>3 DEF TypeOK
<1>6. OneOwner'
  BY <1>1, <1>2 DEF OneOwner, InApply
<1>7. JobFits'
  BY <1>2 DEF JobFits
<1>8. LockFits'
  BY <1>1, <1>2 DEF LockFits
<1>9. QueueFits'
  BY <1>1, <1>3 DEF QueueFits
<1>10. UnitsFit'
  BY <1>2, <1>4 DEF UnitsFit, UnitWhole, OneOwner, InApply
<1>11. JobsFit'
  <2>1. inTx' => \A j \in Jobs : JobWhole(saved', j)
    BY <1>1 DEF JobsFit
  <2>2. WrittenIn(db', job) = Tables
    BY <1>2, <1>4 DEF JobsFit, WrittenIn
  <2>3. \A j \in Jobs : JobWhole(db', j)
    BY <1>3, <1>4, <2>2 DEF JobsFit, JobWhole
  <2>4. QED
    BY <1>2, <2>1, <2>2, <2>3 DEF JobsFit
<1>12. DoneFits'
  BY <1>1, <1>2 DEF DoneFits, InApply
<1>13. QED
  BY <1>5, <1>6, <1>7, <1>8, <1>9, <1>10, <1>11, <1>12 DEF ConnectionInv

\* Every step keeps the invariant.
LEMMA StepKeeps == ConnectionInv /\ [Next]_vars => ConnectionInv'
<1> SUFFICES ASSUME ConnectionInv, [Next]_vars PROVE ConnectionInv'
  OBVIOUS
<1>1. CASE UNCHANGED vars
  <2>1. /\ UNCHANGED <<db, saved, inTx, touched, notified, js, issued>>
        /\ UNCHANGED <<worker, job, todo, faults>>
    BY <1>1 DEF vars, connVars, jsVars, workerVars
  <2>2. TypeOK' /\ OneOwner' /\ JobFits' /\ LockFits' /\ QueueFits'
    BY <2>1 DEF ConnectionInv, TypeOK, OneOwner, JobFits, LockFits, QueueFits, InApply
  <2>3. UnitsFit' /\ JobsFit' /\ DoneFits'
    BY <2>1 DEF ConnectionInv, UnitsFit, UnitWhole, JobsFit, JobWhole, DoneFits, InApply, WrittenIn
  <2>4. QED
    BY <2>2, <2>3 DEF ConnectionInv
<1>2. CASE Js
  BY <1>2, JsCommitKeeps, JsRollbackKeeps, JsBeginKeeps, JsStatementKeeps, JsTxStatementKeeps
     DEF Js, JsEnds
<1>3. CASE WorkerGoesOn
  BY <1>3, BeginApplyKeeps, BeginThrowsKeeps, LockKeeps, FinishApplyKeeps, UnlockKeeps,
     CommitApplyKeeps, SaveCursorKeeps, BlockKeeps, ApplyToKeeps
     DEF WorkerGoesOn
<1>4. CASE ApplyThrows \/ \E j \in Jobs : StartJob(j)
  BY <1>4, ApplyThrowsKeeps, StartJobKeeps
<1>5. CASE Crash
  BY <1>5, CrashKeeps
<1>6. QED
  BY <1>1, <1>2, <1>3, <1>4, <1>5 DEF Next, Worker

LEMMA InvariantHolds == Spec => []ConnectionInv
<1>1. Init => ConnectionInv
  BY InitEstablishes
<1>2. ConnectionInv /\ [Next]_vars => ConnectionInv'
  BY StepKeeps
<1>3. QED
  BY <1>1, <1>2, PTL DEF Spec

(***************************************************************************)
(* The theorems.                                                           *)
(***************************************************************************)

\* Transactions of SQLiteConnection are whole, whichever thread's statements
\* fall between their own: a commit, a rollback or a crash leaves all of a
\* unit's or a job's writes, or none.
THEOREM TransactionsAreWholeCorrect == Spec => []TransactionsAreWhole
<1>1. ConnectionInv => TransactionsAreWhole
  <2> SUFFICES ASSUME ConnectionInv PROVE TransactionsAreWhole
    OBVIOUS
  <2>1. \A w : On(w) = WrittenIn(Committed, w)
    BY DEF On, WrittenIn
  <2>2. \A u \in Units : UnitWhole(Committed, u)
    BY DEF ConnectionInv, UnitsFit, Committed
  <2>3. \A j \in Jobs : JobWhole(Committed, j)
    BY DEF ConnectionInv, JobsFit, Committed, OneOwner, InApply
  <2>4. QED
    BY <2>1, <2>2, <2>3, TypesApart DEF TransactionsAreWhole, UnitWhole, JobWhole
<1>2. QED
  BY <1>1, InvariantHolds, PTL

\* SyncApplyGuard's lock row, which silences the triggers, is never left
\* behind: whatever a crash or a rollback restores has no lock row.
THEOREM TriggersComeBackCorrect == Spec => []TriggersComeBack
<1>1. ConnectionInv => TriggersComeBack
  BY DEF ConnectionInv, LockFits, OneOwner, InApply, TriggersComeBack, Committed
<1>2. QED
  BY <1>1, InvariantHolds, PTL

\* Rows the sync engine applies are not queued for the server again.
THEOREM AppliedIsNeverQueuedCorrect == Spec => []AppliedIsNeverQueued
<1>1. ConnectionInv => AppliedIsNeverQueued
  BY DEF ConnectionInv, QueueFits, AppliedIsNeverQueued
<1>2. QED
  BY <1>1, InvariantHolds, PTL

-----------------------------------------------------------------------------
(* Notifications.                                                          *)

\* _touchedTables holds what an open transaction has changed, and is empty
\* outside one.
TouchedFits ==
  /\ inTx => \A t \in Tables : db.rows[t] # saved.rows[t] => t \in touched
  /\ ~inTx => touched = {}

\* What a call may do: keep TouchedFits and notify what it commits.
Notifies ==
  /\ TouchedFits'
  /\ \A t \in Tables : Committed'.rows[t] # Committed.rows[t] => t \in notified'
  /\ notified' # {} => ~inTx'

LEMMA StatementNotifies ==
  ASSUME TouchedFits, inTx \in BOOLEAN, NEW newDb, NEW T, Statement(newDb, T),
         \A t \in Tables : newDb.rows[t] # db.rows[t] => t \in T
  PROVE  Notifies
BY DEF Statement, Notifies, TouchedFits, Committed

LEMMA BeginNotifies == TouchedFits /\ Begin => Notifies
BY DEF Begin, Notifies, TouchedFits, Committed

LEMMA CommitNotifies == TouchedFits /\ Commit => Notifies
BY DEF Commit, Notifies, TouchedFits, Committed

LEMMA RollbackNotifies == TouchedFits /\ Rollback => Notifies
BY DEF Rollback, Notifies, TouchedFits, Committed

LEMMA SilentNotifies ==
  TouchedFits /\ UNCHANGED <<db, saved, inTx, touched>> /\ notified' = {} => Notifies
BY DEF Notifies, TouchedFits, Committed

LEMMA CrashNotifies == TouchedFits /\ Crash => Notifies
BY DEF Crash, Notifies, TouchedFits, Committed

\* Statements on rows touch the one table they write to, the others none.
LEMMA RowsTouched ==
  ASSUME db \in Database
  PROVE  /\ \A w, t, s : s \in Tables /\ Written(w, t).rows[s] # db.rows[s] => s \in {t}
         /\ \A b : [db EXCEPT !.lock = b].rows = db.rows
         /\ \A j, st : [db EXCEPT !.items[j] = st].rows = db.rows
BY DEF Written, Database

LEMMA ItemNotifies ==
  ASSUME db \in Database, inTx \in BOOLEAN, TouchedFits, NEW j, NEW st,
         Statement([db EXCEPT !.items[j] = st], {})
  PROVE  Notifies
<1>1. [db EXCEPT !.items[j] = st].rows = db.rows
  BY RowsTouched
<1>2. \A t \in Tables : [db EXCEPT !.items[j] = st].rows[t] # db.rows[t] => t \in {}
  BY <1>1
<1>3. QED
  BY <1>2, StatementNotifies

LEMMA NextNotifies ==
  ASSUME TypeOK, TouchedFits, Next
  PROVE  Notifies
<1> USE RowsTouched DEF TypeOK
<1>1. ASSUME NEW u \in Units, NEW t \in Tables, JsStatement(u, t) PROVE Notifies
  BY <1>1, StatementNotifies DEF JsStatement
<1>2. ASSUME NEW t \in Tables, JsTxStatement(t) PROVE Notifies
  BY <1>2, StatementNotifies DEF JsTxStatement
<1>3. ASSUME NEW t \in Tables, ApplyTo(t) PROVE Notifies
  BY <1>3, StatementNotifies DEF ApplyTo
<1>4. CASE Lock
  BY <1>4, StatementNotifies DEF Lock
<1>5. CASE Unlock
  BY <1>5, StatementNotifies DEF Unlock
<1>6. CASE FinishApply
  <2>1. CASE job \in Uploads
    <3>1. Statement([db EXCEPT !.items[job] = "done"], {})
      BY <1>6, <2>1 DEF FinishApply
    <3>2. QED
      BY <3>1, ItemNotifies
  <2>2. CASE job \notin Uploads
    <3>1. Statement(db, {})
      BY <1>6, <2>2 DEF FinishApply
    <3>2. QED
      BY <3>1, StatementNotifies
  <2>3. QED
    BY <2>1, <2>2
<1>7. CASE SaveCursor \/ Block
  <2>1. CASE SaveCursor
    BY <2>1, ItemNotifies DEF SaveCursor
  <2>2. CASE Block
    BY <2>2, ItemNotifies DEF Block
  <2>3. QED
    BY <1>7, <2>1, <2>2
<1>8. ASSUME NEW u \in Units, JsBegin(u) PROVE Notifies
  BY <1>8, BeginNotifies DEF JsBegin
<1>9. CASE BeginApply
  BY <1>9, BeginNotifies DEF BeginApply
<1>10. CASE JsCommit \/ CommitApply
  BY <1>10, CommitNotifies DEF JsCommit, CommitApply
<1>11. CASE JsRollback \/ ApplyThrows
  BY <1>11, RollbackNotifies DEF JsRollback, ApplyThrows
<1>12. CASE BeginThrows
  BY <1>12, SilentNotifies DEF BeginThrows
<1>13. ASSUME NEW j \in Jobs, StartJob(j) PROVE Notifies
  BY <1>13, SilentNotifies DEF StartJob
<1>14. CASE Crash
  BY <1>14, CrashNotifies
<1>15. QED
  BY <1>1, <1>2, <1>3, <1>4, <1>5, <1>6, <1>7, <1>8, <1>9, <1>10, <1>11, <1>12, <1>13, <1>14
     DEF Next, Js, JsEnds, Worker, WorkerGoesOn

\* Every variable has its type in every reachable state.
THEOREM TypeCorrect == Spec => []TypeOK
<1>1. ConnectionInv => TypeOK
  BY DEF ConnectionInv
<1>2. QED
  BY <1>1, InvariantHolds, PTL

\* SQLiteConnection notifies its subscribers of every table whose committed
\* content a call changes, in that call and outside any transaction.
THEOREM NotifiesWhatCommitsCorrect == Spec => NotifiesWhatCommits
<1> DEFINE NotifiesStep ==
      /\ \A t \in Tables : Committed'.rows[t] # Committed.rows[t] => t \in notified'
      /\ notified' # {} => ~inTx'
<1>1. Init => TouchedFits
  BY DEF Init, TouchedFits
<1>2. ConnectionInv /\ TouchedFits /\ [Next]_vars => TouchedFits'
  BY NextNotifies DEF ConnectionInv, Notifies, vars, connVars, TouchedFits
<1>3. ConnectionInv /\ TouchedFits /\ [Next]_vars => [NotifiesStep]_vars
  BY NextNotifies DEF ConnectionInv, Notifies
<1>4. QED
  BY <1>1, <1>2, <1>3, InvariantHolds, PTL DEF Spec, NotifiesWhatCommits

-----------------------------------------------------------------------------
(***************************************************************************)
(* The shared connection implements the store of AtomicStore: every call   *)
(* of either thread, and every crash, changes what is committed by a step  *)
(* of that store or not at all.                                            *)
(***************************************************************************)

(***************************************************************************)
(* What the store needs beyond ConnectionInv.                              *)
(***************************************************************************)

\* An open transaction has only added rows, and only to items that were
\* pending has anything happened.
Grows ==
  inTx => /\ \A t \in Tables : saved.rows[t] \subseteq db.rows[t]
          /\ \A j \in Jobs : saved.items[j] \in {"pending", db.items[j]}

\* The job in hand is still pending, up to the statement that removes an
\* upload's item; what a rollback would restore says so to the end.
JobPending ==
  /\ worker # "idle" /\ (job \in Pages \/ worker \notin {"unlocking", "committing"})
     => db.items[job] = "pending"
  /\ InApply => saved.items[job] = "pending"

PagesPass ==
  \A j \in Pages : db.items[j] # "blocked" /\ (inTx => saved.items[j] # "blocked")

StoreFits == Grows /\ JobPending /\ PagesPass

LEMMA SomeTables == Tables # {}
BY ConnectionAssumption

LEMMA StoreFitsInitially == Init => StoreFits
BY TypesApart DEF Init, Empty, StoreFits, Grows, JobPending, PagesPass, InApply

(***************************************************************************)
(* The calls, by what they do to the database.                             *)
(***************************************************************************)

\* A statement on rows, a BEGIN or a COMMIT leaves what is said of jobs alone.
LEMMA RowStatementFits ==
  ASSUME ConnectionInv, StoreFits, NEW w \in Writers, NEW t \in Tables,
         db' = Written(w, t), saved' = saved, inTx' = inTx, worker' = worker, job' = job
  PROVE  StoreFits'
<1>1. db \in Database /\ saved \in Database /\ db' \in Database
  BY WrittenFacts DEF ConnectionInv, TypeOK
<1>2. db'.items = db.items
  BY DEF Written
<1>3. \A s \in Tables : db.rows[s] \subseteq db'.rows[s]
  BY <1>1 DEF Written, Database
<1>4. Grows'
  BY <1>2, <1>3 DEF StoreFits, Grows
<1>5. JobPending' /\ PagesPass'
  BY <1>2 DEF StoreFits, JobPending, PagesPass, InApply
<1>6. QED
  BY <1>4, <1>5 DEF StoreFits

LEMMA SameItemsFit ==
  ASSUME StoreFits, db'.rows = db.rows, db'.items = db.items, saved' = saved, inTx' = inTx,
         job' = job, worker # "idle", InApply,
         worker \in {"unlocking", "committing"} <=> worker' \in {"unlocking", "committing"},
         worker' # "idle"
  PROVE  StoreFits'
BY DEF StoreFits, Grows, JobPending, PagesPass, InApply

LEMMA JsKeepsFits ==
  ASSUME ConnectionInv, StoreFits, Js
  PROVE  StoreFits'
<1> USE DEF StoreFits, Grows, JobPending, PagesPass
<1>1. ASSUME NEW u \in Units, NEW t \in Tables, JsStatement(u, t) PROVE StoreFits'
  BY <1>1, TypesApart, RowStatementFits DEF JsStatement, Statement, workerVars
<1>2. ASSUME NEW t \in Tables, JsTxStatement(t) PROVE StoreFits'
  <2>1. js \in Units
    BY <1>2 DEF JsTxStatement, ConnectionInv, TypeOK
  <2>2. QED
    BY <1>2, <2>1, TypesApart, RowStatementFits DEF JsTxStatement, Statement, workerVars
<1>3. ASSUME NEW u \in Units, JsBegin(u) PROVE StoreFits'
  <2>1. /\ ~inTx /\ ~InApply
        /\ db' = db /\ saved' = db /\ inTx' = TRUE
        /\ worker' = worker /\ job' = job
    BY <1>3 DEF JsBegin, Begin, workerVars, ConnectionInv, OneOwner
  <2>2. ~InApply'
    BY <2>1 DEF InApply
  <2>3. QED
    BY <2>1, <2>2
<1>4. CASE JsCommit
  <2>1. /\ inTx /\ db' = db /\ saved' = saved /\ inTx' = FALSE
        /\ worker' = worker /\ job' = job /\ ~InApply
    BY <1>4 DEF JsCommit, Commit, workerVars, ConnectionInv, OneOwner
  <2>2. ~InApply'
    BY <2>1 DEF InApply
  <2>3. QED
    BY <2>1, <2>2
<1>5. CASE JsRollback
  <2>1. /\ inTx /\ db' = saved /\ saved' = saved /\ inTx' = FALSE
        /\ worker' = worker /\ job' = job /\ ~InApply
    BY <1>5 DEF JsRollback, Rollback, workerVars, ConnectionInv, OneOwner
  <2>2. ~InApply'
    BY <2>1 DEF InApply
  <2>3. worker # "idle" => job \in Jobs
    BY DEF ConnectionInv, TypeOK
  <2>4. worker # "idle" => db'.items[job] = "pending"
    BY <2>1, <2>3 DEF InApply
  <2>5. QED
    BY <2>1, <2>2, <2>4
<1>6. QED
  BY <1>1, <1>2, <1>3, <1>4, <1>5 DEF Js, JsEnds

LEMMA WorkerKeepsFits ==
  ASSUME ConnectionInv, StoreFits, Worker
  PROVE  StoreFits'
<1> USE DEF StoreFits, Grows, JobPending, PagesPass
<1>0. /\ db \in Database /\ saved \in Database
      /\ worker # "idle" => job \in Jobs
      /\ worker = "refused" => job \in Uploads
      /\ worker = "saving" => job \in Pages
  BY DEF ConnectionInv, TypeOK, JobFits
<1>1. ASSUME NEW j \in Jobs, StartJob(j) PROVE StoreFits'
  <2>1. /\ worker = "idle" /\ db.items[j] = "pending" /\ worker' = "ready" /\ job' = j
        /\ db' = db /\ saved' = saved /\ inTx' = inTx
    BY <1>1 DEF StartJob
  <2>2. QED
    BY <2>1 DEF InApply
<1>2. CASE BeginThrows
  <2>1. /\ worker = "ready" /\ db' = db /\ saved' = saved /\ inTx' = inTx
        /\ worker' \in {"idle", "refused"}
        /\ worker' = "refused" => job' = job
    BY <1>2 DEF BeginThrows, Refused, Leave
  <2>2. QED
    BY <2>1 DEF InApply
<1>3. CASE BeginApply
  <2>1. /\ worker = "ready" /\ ~inTx /\ db' = db /\ saved' = db /\ inTx' = TRUE
        /\ worker' = "locking" /\ job' = job
    BY <1>3 DEF BeginApply, Begin
  <2>2. QED
    BY <2>1
<1>4. CASE Lock
  <2>1. /\ worker = "locking" /\ worker' = "apply" /\ job' = job
        /\ db' = [db EXCEPT !.lock = TRUE] /\ saved' = saved /\ inTx' = inTx
    BY <1>4 DEF Lock, Statement
  <2>2. db'.rows = db.rows /\ db'.items = db.items
    BY <1>0, <2>1, LockFacts
  <2>3. QED
    BY <2>1, <2>2, SameItemsFit DEF InApply
<1>5. CASE Unlock
  <2>1. /\ worker = "unlocking" /\ worker' = "committing" /\ job' = job
        /\ db' = [db EXCEPT !.lock = FALSE] /\ saved' = saved /\ inTx' = inTx
    BY <1>5 DEF Unlock, Statement
  <2>2. db'.rows = db.rows /\ db'.items = db.items
    BY <1>0, <2>1, LockFacts
  <2>3. QED
    BY <2>1, <2>2, SameItemsFit DEF InApply
<1>6. ASSUME NEW t \in Tables, ApplyTo(t) PROVE StoreFits'
  <2>1. /\ worker = "apply" /\ worker' = worker /\ job' = job
        /\ db' = Written(job, t) /\ saved' = saved /\ inTx' = inTx
    BY <1>6 DEF ApplyTo, Statement
  <2>2. QED
    BY <1>0, <2>1, TypesApart, RowStatementFits
<1>7. CASE FinishApply
  <2>1. /\ worker = "apply" /\ worker' = "unlocking" /\ job' = job /\ job \in Jobs
        /\ saved' = saved /\ inTx' = inTx
        /\ db' = (IF job \in Uploads THEN [db EXCEPT !.items[job] = "done"] ELSE db)
    BY <1>0, <1>7 DEF FinishApply, Statement
  <2>2. db'.rows = db.rows
    BY <1>0, <2>1, ItemFacts
  <2>3. \A k \in Jobs : db'.items[k] = IF k = job /\ job \in Uploads THEN "done" ELSE db.items[k]
    BY <1>0, <2>1, ItemFacts
  <2>4. saved.items[job] = "pending"
    BY <2>1 DEF InApply
  <2>5. Grows'
    BY <2>1, <2>2, <2>3, <2>4
  <2>6. JobPending'
    BY <2>1, <2>3, <2>4, TypesApart DEF InApply
  <2>7. PagesPass'
    BY <2>1, <2>3, TypesApart
  <2>8. QED
    BY <2>5, <2>6, <2>7
<1>8. CASE CommitApply
  <2>1. /\ worker = "committing" /\ inTx /\ db' = db /\ saved' = saved /\ inTx' = FALSE
        /\ worker' = IF job \in Pages THEN "saving" ELSE "idle"
        /\ job \in Pages => job' = job
    BY <1>8 DEF CommitApply, Commit, Leave
  <2>2. QED
    BY <2>1 DEF InApply
<1>9. CASE SaveCursor \/ Block
  <2>1. /\ worker \in {"saving", "refused"} /\ worker' = "idle" /\ job \in Jobs
        /\ saved' = saved /\ inTx' = inTx
        /\ db' = [db EXCEPT !.items[job] = IF worker = "saving" THEN "done" ELSE "blocked"]
    BY <1>0, <1>9 DEF SaveCursor, Block, Statement, Leave
  <2>2. /\ db'.rows = db.rows
        /\ \A k \in Jobs : db'.items[k] = IF k # job THEN db.items[k]
                                          ELSE IF worker = "saving" THEN "done" ELSE "blocked"
    BY <1>0, <2>1, ItemFacts
  <2>3. db.items[job] = "pending"
    BY <2>1
  <2>4. Grows'
    BY <2>1, <2>2, <2>3
  <2>5. PagesPass'
    BY <1>0, <2>1, <2>2, TypesApart
  <2>6. JobPending'
    BY <2>1 DEF InApply
  <2>7. QED
    BY <2>4, <2>5, <2>6
<1>10. CASE ApplyThrows
  <2>1. /\ InApply /\ inTx /\ db' = saved /\ saved' = saved /\ inTx' = FALSE
        /\ worker' \in {"idle", "refused"}
        /\ worker' = "refused" => job' = job
    BY <1>10 DEF ApplyThrows, Rollback, Refused, Leave
  <2>2. QED
    BY <2>1 DEF InApply
<1>11. QED
  BY <1>1, <1>2, <1>3, <1>4, <1>5, <1>6, <1>7, <1>8, <1>9, <1>10 DEF Worker, WorkerGoesOn

LEMMA FitsAreKept ==
  ASSUME ConnectionInv, StoreFits, [Next]_vars
  PROVE  StoreFits'
<1>1. CASE Crash
  <2>1. /\ db' = (IF inTx THEN saved ELSE db) /\ saved' = saved /\ inTx' = FALSE
        /\ worker' = "idle"
    BY <1>1 DEF Crash, Committed, Leave
  <2>2. QED
    BY <2>1 DEF StoreFits, Grows, JobPending, PagesPass, InApply
<1>2. CASE UNCHANGED vars
  BY <1>2 DEF vars, connVars, workerVars, StoreFits, Grows, JobPending, PagesPass, InApply
<1>3. QED
  BY <1>1, <1>2, JsKeepsFits, WorkerKeepsFits DEF Next

LEMMA StoreInvariantHolds == Spec => [](ConnectionInv /\ StoreFits)
<1>1. Init => StoreFits
  BY StoreFitsInitially
<1>2. ConnectionInv /\ StoreFits /\ [Next]_vars => StoreFits'
  BY FitsAreKept
<1>3. QED
  BY <1>1, <1>2, InvariantHolds, PTL DEF Spec

(***************************************************************************)
(* What a call does to what is committed.                                  *)
(***************************************************************************)

\* From database d to database e, nothing that is there changes, and only
\* items that were pending get another state.
Evolves(d, e) ==
  /\ \A w \in Writers : WrittenIn(d, w) # {} => WrittenIn(e, w) = WrittenIn(d, w)
  /\ \A j \in Jobs : e.items[j] # d.items[j] => d.items[j] = "pending"

\* Once JavaScript and the worker are done with it, a transaction has only
\* added whole units and whole jobs.
LEMMA CommitEvolves ==
  ASSUME ConnectionInv, StoreFits, inTx, worker # "apply"
  PROVE  Evolves(saved, db)
<1>1. ASSUME NEW w \in Writers, WrittenIn(saved, w) # {}
      PROVE  WrittenIn(db, w) = WrittenIn(saved, w)
  <2>1. WrittenIn(saved, w) \subseteq WrittenIn(db, w)
    BY DEF WrittenIn, StoreFits, Grows
  <2>2. CASE w \in Units
    <3>1. UnitWhole(saved, w) /\ UnitWhole(db, w)
      BY <2>2 DEF ConnectionInv, UnitsFit
    <3>2. QED
      BY <1>1, <2>1, <3>1 DEF UnitWhole
  <2>3. CASE w \in Jobs
    <3>1. JobWhole(saved, w) /\ JobWhole(db, w)
      BY <2>3 DEF ConnectionInv, JobsFit
    <3>2. QED
      BY <1>1, <2>1, <3>1 DEF JobWhole
  <2>4. QED
    BY <2>2, <2>3 DEF Writers
<1>2. \A j \in Jobs : db.items[j] # saved.items[j] => saved.items[j] = "pending"
  BY DEF StoreFits, Grows
<1>3. QED
  BY <1>1, <1>2 DEF Evolves

\* A statement of a unit of its own, with no transaction open.
LEMMA UnitEvolves ==
  ASSUME ConnectionInv, ~inTx, NEW u \in Units, NEW t \in Tables, JsStatement(u, t)
  PROVE  Evolves(db, db')
<1>1. db \in Database /\ db' = Written(u, t) /\ issued[u] = {}
  BY DEF JsStatement, Statement, ConnectionInv, TypeOK
<1>2. WrittenIn(db, u) = {}
  BY <1>1 DEF ConnectionInv, UnitsFit, UnitWhole
<1>3. \A v : WrittenIn(db', v) = IF v = u THEN WrittenIn(db, v) \cup {t} ELSE WrittenIn(db, v)
  <2>1. u \in Writers
    BY TypesApart
  <2>2. \A v : WrittenIn(Written(u, t), v) =
                 IF v = u THEN WrittenIn(db, v) \cup {t} ELSE WrittenIn(db, v)
    BY <1>1, <2>1, WrittenFacts
  <2>3. \A v : WrittenIn(db', v) = WrittenIn(Written(u, t), v)
    BY <1>1
  <2>4. QED
    BY <2>2, <2>3
<1>4. db'.items = db.items
  BY <1>1 DEF Written
<1>5. QED
  BY <1>2, <1>3, <1>4 DEF Evolves

\* What the worker notes of its job, with no transaction open.
LEMMA NoteEvolves ==
  ASSUME ConnectionInv, StoreFits, SaveCursor \/ Block
  PROVE  Evolves(db, db')
<1>1. /\ worker \in {"saving", "refused"} /\ db \in Database /\ job \in Jobs
      /\ db' = [db EXCEPT !.items[job] = IF worker = "saving" THEN "done" ELSE "blocked"]
  BY DEF SaveCursor, Block, Statement, ConnectionInv, TypeOK
<1>2. /\ db'.rows = db.rows
      /\ \A k \in Jobs : k # job => db'.items[k] = db.items[k]
  BY <1>1, ItemFacts
<1>3. db.items[job] = "pending"
  BY <1>1 DEF StoreFits, JobPending
<1>4. QED
  BY <1>2, <1>3 DEF Evolves, WrittenIn

LEMMA EvolvesReflexive == \A d : Evolves(d, d)
BY DEF Evolves

LEMMA StepEvolves ==
  ASSUME ConnectionInv, StoreFits, [Next]_vars
  PROVE  Evolves(Committed, Committed')
<1> USE EvolvesReflexive
<1>0. ConnectionInv' /\ inTx \in BOOLEAN /\ (InApply => inTx)
  BY StepKeeps DEF ConnectionInv, TypeOK, OneOwner
<1>1. ASSUME NEW u \in Units, NEW t \in Tables, JsStatement(u, t)
      PROVE  Evolves(Committed, Committed')
  <2>1. saved' = saved /\ inTx' = inTx
    BY <1>1 DEF JsStatement, Statement
  <2>2. CASE inTx
    BY <2>1, <2>2 DEF Committed
  <2>3. CASE ~inTx
    BY <1>1, <2>1, <2>3, UnitEvolves DEF Committed
  <2>4. QED
    BY <2>2, <2>3
<1>2. CASE SaveCursor \/ Block
  <2>1. saved' = saved /\ inTx' = inTx
    BY <1>2 DEF SaveCursor, Block, Statement
  <2>2. CASE inTx
    BY <2>1, <2>2 DEF Committed
  <2>3. CASE ~inTx
    BY <1>2, <2>1, <2>3, NoteEvolves DEF Committed
  <2>4. QED
    BY <2>2, <2>3
<1>3. CASE JsCommit \/ CommitApply
  <2>1. inTx /\ ~inTx' /\ db' = db /\ saved' = saved
    BY <1>3 DEF JsCommit, CommitApply, Commit
  <2>2. worker # "apply"
    BY <1>3 DEF JsCommit, CommitApply, ConnectionInv, OneOwner, InApply
  <2>3. QED
    BY <2>1, <2>2, CommitEvolves DEF Committed
<1>4. CASE JsRollback \/ ApplyThrows \/ Crash
  <2>1. Committed' = Committed
    BY <1>4 DEF JsRollback, ApplyThrows, Crash, Rollback, Committed
  <2>2. QED
    BY <2>1
<1>5. ASSUME \/ \E u \in Units : JsBegin(u)
             \/ BeginApply
      PROVE  Evolves(Committed, Committed')
  <2>1. ~inTx /\ inTx' /\ saved' = db
    BY <1>5 DEF JsBegin, BeginApply, Begin
  <2>2. QED
    BY <2>1 DEF Committed
<1>6. ASSUME \/ \E t \in Tables : JsTxStatement(t) \/ ApplyTo(t)
             \/ Lock \/ FinishApply \/ Unlock
      PROVE  Evolves(Committed, Committed')
  <2>1. saved' = saved /\ inTx' = inTx
    BY <1>6 DEF JsTxStatement, ApplyTo, Lock, FinishApply, Unlock, Statement
  <2>2. inTx
    BY <1>6 DEF JsTxStatement, ApplyTo, Lock, FinishApply, Unlock, ConnectionInv, OneOwner, InApply
  <2>3. QED
    BY <2>1, <2>2 DEF Committed
<1>7. ASSUME \/ BeginThrows
             \/ \E j \in Jobs : StartJob(j)
             \/ UNCHANGED vars
      PROVE  Evolves(Committed, Committed')
  <2>1. db' = db /\ saved' = saved /\ inTx' = inTx
    BY <1>7 DEF BeginThrows, StartJob, vars, connVars
  <2>2. QED
    BY <2>1 DEF Committed
<1>8. QED
  BY <1>1, <1>2, <1>3, <1>4, <1>5, <1>6, <1>7 DEF Next, Js, JsEnds, Worker, WorkerGoesOn

(***************************************************************************)
(* The refinement.                                                         *)
(***************************************************************************)

\* What is committed is a database, its jobs are whole, and its pages are
\* never blocked.
LEMMA CommittedIsWhole ==
  ASSUME ConnectionInv, StoreFits
  PROVE  /\ Committed \in Database
         /\ \A j \in Jobs : JobWhole(Committed, j)
         /\ \A j \in Pages : Committed.items[j] # "blocked"
         /\ \A w : On(w) = WrittenIn(Committed, w)
<1>1. /\ db \in Database /\ saved \in Database /\ inTx \in BOOLEAN
      /\ worker = "apply" => inTx
  BY DEF ConnectionInv, TypeOK, OneOwner, InApply
<1>2. \A w : On(w) = WrittenIn(Committed, w)
  BY DEF On, WrittenIn
<1>3. \A j \in Jobs : JobWhole(Committed, j)
  BY <1>1 DEF Committed, ConnectionInv, JobsFit
<1>4. \A j \in Pages : Committed.items[j] # "blocked"
  BY <1>1 DEF Committed, StoreFits, PagesPass
<1>5. Committed \in Database
  BY <1>1 DEF Committed
<1>6. QED
  BY <1>2, <1>3, <1>4, <1>5

LEMMA InitIsStoreInit == Init => Store!Init
<1> SUFFICES ASSUME Init PROVE Store!Init
  OBVIOUS
<1>1. Committed = Empty
  BY DEF Init, Committed
<1>2. \A w \in Writers : On(w) = {}
  BY <1>1 DEF On, Empty
<1>3. Committed.items = [j \in Jobs |-> "pending"]
  BY <1>1 DEF Empty
<1>4. QED
  BY <1>2, <1>3 DEF Store!Init, Store!Writers, Store!Jobs, Writers, Jobs

\* Every step of the connection is one of the store: the writers whose rows it
\* commits appear, the items it changes are noted.
LEMMA StepIsStoreStep ==
  ASSUME ConnectionInv, StoreFits, [Next]_vars
  PROVE  Store!Next
<1> DEFINE Old == Committed
           New == Committed'
           W == {w \in Writers : On(w) = {} /\ On(w)' # {}}
           B == {j \in Uploads : New.items[j] = "blocked" /\ Old.items[j] # "blocked"}
           P == {j \in Pages : New.items[j] = "done" /\ Old.items[j] # "done"}
           whole == [w \in W |-> On(w)']
<1>1. /\ Old \in Database
      /\ \A j \in Jobs : JobWhole(Old, j)
      /\ \A j \in Pages : Old.items[j] # "blocked"
      /\ \A w : On(w) = WrittenIn(Old, w)
  BY CommittedIsWhole
<1>2. ConnectionInv' /\ StoreFits'
  BY StepKeeps, FitsAreKept
<1>3. /\ New \in Database
      /\ \A j \in Jobs : New.items[j] \in {"pending", "blocked", "done"}
      /\ \A j \in Pages : New.items[j] # "blocked"
      /\ \A w : On(w)' = WrittenIn(New, w)
  <2>1. worker' = "apply" => inTx'
    BY <1>2 DEF ConnectionInv, OneOwner, InApply
  <2>2. /\ db' \in Database /\ saved' \in Database /\ inTx' \in BOOLEAN
    BY <1>2 DEF ConnectionInv, TypeOK, Database
  <2>3. New \in Database
    BY <2>2 DEF Committed
  <2>4. \A j \in Pages : New.items[j] # "blocked"
    BY <1>2, <2>2 DEF Committed, StoreFits, PagesPass
  <2>5. \A w : On(w)' = WrittenIn(New, w)
    BY DEF On, WrittenIn
  <2>6. QED
    BY <2>3, <2>4, <2>5 DEF Database
<1>4. \A j \in Jobs : JobWhole(New, j)
  <2>1. /\ inTx' \in BOOLEAN
        /\ inTx' => \A j \in Jobs : JobWhole(saved', j)
        /\ ~inTx' => \A j \in Jobs : JobWhole(db', j)
    BY <1>2 DEF ConnectionInv, TypeOK, OneOwner, InApply, JobsFit, JobWhole, WrittenIn
  <2>2. QED
    BY <2>1 DEF Committed
<1>5. Evolves(Old, New)
  BY StepEvolves
<1>6. Store!Appear(W)
  <2>1. \A w \in W \cap Jobs : On(w)' = Tables
    BY <1>3, <1>4 DEF JobWhole
  <2>2. whole \in [W -> (SUBSET Tables) \ {{}}]
    BY DEF On
  <2>3. \A w \in Writers : On(w)' = IF w \in W THEN whole[w] ELSE On(w)
    BY <1>1, <1>3, <1>5 DEF Evolves
  <2>4. [w \in Writers |-> On(w)]' = [w \in Writers |-> IF w \in W THEN whole[w]
                                                       ELSE [v \in Writers |-> On(v)][w]]
    BY <2>3
  <2>5. QED
    BY <2>1, <2>2, <2>4 DEF Store!Appear, Store!Landed, Store!Jobs, Store!Writers, Jobs, Writers
<1>7. Store!Note(W, B, P)
  <2>1. \A j \in Jobs : New.items[j] = IF j \in (W \cap Uploads) \cup P THEN "done"
                                       ELSE IF j \in B THEN "blocked" ELSE Old.items[j]
    <3>1. ASSUME NEW j \in Uploads
          PROVE  New.items[j] = IF j \in (W \cap Uploads) \cup P THEN "done"
                                ELSE IF j \in B THEN "blocked" ELSE Old.items[j]
      <4>1. j \in Writers /\ j \notin P /\ j \in Jobs
        BY TypesApart
      <4>2. CASE j \in W
        BY <1>3, <1>4, <4>1, <4>2 DEF JobWhole
      <4>3. CASE j \notin W
        <5>1. On(j)' = On(j)
          BY <1>1, <1>3, <1>5, <4>1, <4>3 DEF Evolves
        <5>2. New.items[j] = "done" => Old.items[j] = "done"
          BY <1>1, <1>3, <1>4, <4>1, <5>1, SomeTables DEF JobWhole
        <5>3. New.items[j] # Old.items[j] => Old.items[j] = "pending"
          BY <1>5, <4>1 DEF Evolves
        <5>4. QED
          BY <1>3, <4>1, <4>3, <5>2, <5>3
      <4>4. QED
        BY <4>2, <4>3
    <3>2. ASSUME NEW j \in Pages
          PROVE  New.items[j] = IF j \in (W \cap Uploads) \cup P THEN "done"
                                ELSE IF j \in B THEN "blocked" ELSE Old.items[j]
      <4>1. j \notin Uploads /\ j \in Jobs
        BY TypesApart
      <4>2. New.items[j] # Old.items[j] => Old.items[j] = "pending"
        BY <1>5, <4>1 DEF Evolves
      <4>3. QED
        BY <1>3, <4>1, <4>2
    <3>3. QED
      BY <3>1, <3>2 DEF Jobs
  <2>2. New.items = [j \in Jobs |-> New.items[j]]
    BY <1>3 DEF Database
  <2>3. QED
    BY <2>1, <2>2 DEF Store!Note, Store!Jobs, Jobs
<1>8. /\ \A j \in (W \cap Uploads) \cup B : Old.items[j] = "pending"
      /\ B \cap W = {}
      /\ \A j \in P : j \in W \/ On(j) # {}
  <2>1. ASSUME NEW j \in W \cap Uploads PROVE Old.items[j] = "pending" /\ j \notin B
    <3>1. j \in Jobs /\ On(j) = {} /\ On(j)' # {}
      BY TypesApart
    <3>2. Old.items[j] # "done" /\ New.items[j] = "done"
      BY <1>1, <1>3, <1>4, <3>1, SomeTables DEF JobWhole
    <3>3. QED
      BY <1>5, <3>1, <3>2 DEF Evolves
  <2>2. ASSUME NEW j \in B PROVE Old.items[j] = "pending"
    BY <1>5, TypesApart DEF Evolves
  <2>3. ASSUME NEW j \in P PROVE j \in W \/ On(j) # {}
    <3>1. j \in Jobs /\ j \in Writers /\ New.items[j] = "done"
      BY TypesApart
    <3>2. On(j)' # {}
      BY <1>3, <1>4, <3>1, SomeTables DEF JobWhole
    <3>3. QED
      BY <3>1, <3>2
  <2>4. QED
    BY <2>1, <2>2, <2>3
<1>9. \A j \in Writers : Store!Landed(j) <=> On(j) # {}
  BY DEF Store!Landed
<1>10. Store!Step(W, B, P)
  <2>1. \A j \in P : j \in W \/ Store!Landed(j)
    BY <1>8, <1>9, TypesApart
  <2>2. QED
    BY <1>6, <1>7, <1>8, <2>1 DEF Store!Step
<1>11. W \in SUBSET Store!Writers /\ B \in SUBSET Uploads /\ P \in SUBSET Pages
  BY DEF Store!Writers, Store!Jobs, Writers, Jobs
<1>12. QED
  BY <1>10, <1>11 DEF Store!Next

\* The connection that the JavaScript thread and the sync worker share
\* (SQLiteConnection, SyncApplyGuard, Database.transaction) implements
\* AtomicStore: what is committed changes by whole units, echoes and pages.
THEOREM ConnectionImplementsStore == Spec => StoreSpec
<1>1. Init => Store!Init
  BY InitIsStoreInit
<1>2. ConnectionInv /\ StoreFits /\ [Next]_vars => [Store!Next]_Store!vars
  BY StepIsStoreStep
<1>3. QED
  BY <1>1, <1>2, StoreInvariantHolds, PTL DEF Spec, StoreSpec, Store!Spec

=============================================================================
