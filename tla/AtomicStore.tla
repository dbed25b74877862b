----------------------------- MODULE AtomicStore ----------------------------
(***************************************************************************)
(* What the two users of a SQLiteConnection may take it for: a store in    *)
(* which the writes of a unit of the application, of an upload's echo or   *)
(* of a page appear all at once and then stay, together with what the      *)
(* queue and the cursors say of the jobs.                                  *)
(***************************************************************************)
CONSTANTS Tables, Units, Uploads, Pages

VARIABLES
  content,  \* the tables in which the writes of each writer are
  items     \* what the queue (or the cursor) says of each job

vars == <<content, items>>

Jobs == Uploads \cup Pages
Writers == Units \cup Jobs

Init ==
  /\ content = [w \in Writers |-> {}]
  /\ items = [j \in Jobs |-> "pending"]

Landed(w) == content[w] # {}

\* The writers W appear: a job in every table, a unit in the tables it has
\* written to. Statements of one thread may have fallen into the transaction
\* of the other, so a step can make several appear.
Appear(W) ==
  /\ \A w \in W : ~Landed(w)
  /\ \E whole \in [W -> (SUBSET Tables) \ {{}}] :
       /\ \A j \in W \cap Jobs : whole[j] = Tables
       /\ content' = [w \in Writers |-> IF w \in W THEN whole[w] ELSE content[w]]

\* The items of the uploads in W leave the queue, the uploads B are blocked,
\* the cursor passes the pages P.
Note(W, B, P) ==
  items' = [j \in Jobs |-> IF j \in (W \cap Uploads) \cup P THEN "done"
                           ELSE IF j \in B THEN "blocked" ELSE items[j]]

\* An upload leaves the queue in the step its echo appears in, and only from
\* the state pending; an upload that is blocked has not appeared and never
\* will; a cursor passes only pages that have appeared.
Step(W, B, P) ==
  /\ \A j \in (W \cap Uploads) \cup B : items[j] = "pending"
  /\ B \cap W = {}
  /\ \A j \in P : j \in W \/ Landed(j)
  /\ Appear(W)
  /\ Note(W, B, P)

Next == \E W \in SUBSET Writers, B \in SUBSET Uploads, P \in SUBSET Pages : Step(W, B, P)

Spec == Init /\ [][Next]_vars

=============================================================================
