-------------------------- MODULE SyncPull_proofs --------------------------
(***************************************************************************)
(* No change of the server is skipped: NothingSkipped is an invariant of   *)
(* SyncPull for every page size, limit, number of rows and of ties, faults *)
(* included. The argument needs nothing of the local store, whose types    *)
(* and whose agreement with the server (SyncedMeansMirrored) follow.       *)
(***************************************************************************)
EXTENDS SyncPull, FiniteSetTheorems, WellFoundedInduction, TLAPS

Answered == pc \in {"got", "applied"}

StampsAreIssued == \A s \in ServerIds : server[s].ts <= lastTick

\* The cursor never runs ahead of the server.
CursorIsIssued == cursor <= lastTick

SinceIsCursor == pc # "idle" => since = cursor

\* A row of the page was asked for, and can only have changed since.
PageIsPast ==
  Answered => \A s \in InPage :
    since < page[s].ts /\ page[s].ts <= server[s].ts

\* A page has no gaps: a row stamped before one of its rows is in it, as the
\* server still has it.
PageHasNoGap ==
  Answered => \A r \in InPage, s \in ServerIds :
    Exists(s) /\ since < server[s].ts /\ server[s].ts < page[r].ts
    => s \in InPage /\ page[s].ts = server[s].ts

PageIsSeen == pc = "applied" => \A s \in InPage : seen[s] = page[s].ts

PullInv ==
  /\ PullTypeOK
  /\ StampsAreIssued
  /\ CursorIsIssued
  /\ SinceIsCursor
  /\ PageIsPast
  /\ PageHasNoGap
  /\ PageIsSeen
  /\ NothingSkipped

-----------------------------------------------------------------------------
(* Arithmetic of pages.                                                    *)

\* A bounded set of numbers has the greatest element Max chooses: this is how
\* the last row of a page is found.
LEMMA MaxIsGreatest ==
  ASSUME NEW S \in SUBSET Nat, S # {}, NEW b \in Nat, \A x \in S : x <= b
  PROVE  Max(S) \in S /\ \A x \in S : x <= Max(S)
<1> DEFINE D == {b - x : x \in S}
<1>1. D \subseteq Nat /\ D # {}
  OBVIOUS
<1>2. PICK d \in D : \A y \in D : ~(<<y, d>> \in OpToRel(<, Nat))
  BY <1>1, NatLessThanWellFounded, WFMin
<1>3. PICK m \in S : d = b - m
  OBVIOUS
<1>4. ASSUME NEW x \in S PROVE m >= x
  <2>1. b - x \in D
    OBVIOUS
  <2>2. ~(b - x < d)
    BY <1>1, <1>2, <2>1 DEF OpToRel
  <2> QED
    BY <1>3, <2>2
<1>5. \E x \in S : \A y \in S : x >= y
  BY <1>4
<1> QED
  BY <1>5 DEF Max

\* The rows a LIMIT lets through are the first ones: one that comes before a
\* listed row is listed.
LEMMA ListedIsFirst ==
  ASSUME PullTypeOK, NEW t \in Nat, NEW n \in Nat,
         NEW r \in Listed(t, n), NEW s \in ChangedSince(t), Before(s, r)
  PROVE  s \in Listed(t, n)
<1> DEFINE Ahead(x) == {q \in ChangedSince(t) : Before(q, x)}
<1>1. IsFiniteSet(ChangedSince(t))
  BY PullAssumption, FS_Subset DEF ChangedSince
<1>2. Ahead(s) \subseteq Ahead(r)
  <2> SUFFICES ASSUME NEW q \in ChangedSince(t), Before(q, s) PROVE Before(q, r)
    OBVIOUS
  <2>1. q \in Nat /\ r \in Nat /\ s \in Nat
    BY PullAssumption DEF Listed, ChangedSince
  <2>2. server[q].ts \in Nat /\ server[r].ts \in Nat /\ server[s].ts \in Nat
    BY DEF PullTypeOK, Row, Listed, ChangedSince
  <2> QED
    BY <2>1, <2>2 DEF Before
<1>3. IsFiniteSet(Ahead(r)) /\ IsFiniteSet(Ahead(s)) /\ Cardinality(Ahead(s)) <= Cardinality(Ahead(r))
  <2>1. IsFiniteSet(Ahead(r))
    BY <1>1, FS_Subset
  <2> QED
    BY <1>2, <2>1, FS_Subset
<1>4. Cardinality(Ahead(r)) \in Nat /\ Cardinality(Ahead(s)) \in Nat
  BY <1>3, FS_CardinalityType
<1>5. Cardinality(Ahead(r)) < n
  BY DEF Listed
<1>6. Cardinality(Ahead(s)) < n
  BY <1>3, <1>4, <1>5
<1> QED
  BY <1>6 DEF Listed

\* The cursor a page leads to: below a stamp of the page that no other exceeds.
LEMMA CandidateIsBelowLast ==
  ASSUME PullTypeOK, NEW b \in Nat, \A s \in InPage : page[s].ts <= b, Advances
  PROVE  \E r \in InPage : /\ Candidate = page[r].ts - 1
                           /\ \A s \in InPage : page[s].ts <= page[r].ts
<1> DEFINE S == {page[s].ts : s \in InPage}
<1>1. S \subseteq Nat
  BY DEF PullTypeOK, Row, InPage
<1>2. InPage # {}
  BY DEF Advances, Candidate, PullTypeOK
<1>3. Max(S) \in S /\ \A x \in S : x <= Max(S)
  <2> HIDE DEF S
  <2>1. S # {} /\ \A x \in S : x <= b
    BY <1>2 DEF S
  <2> QED
    BY <1>1, <2>1, MaxIsGreatest
<1>4. Candidate = Max(S) - 1
  BY <1>2 DEF Candidate, LastStamp
<1> QED
  BY <1>3, <1>4

-----------------------------------------------------------------------------
(* The invariant.                                                          *)

LEMMA PullInit == Init => PullInv
BY PullAssumption
   DEF Init, PullInv, PullTypeOK, StampsAreIssued, CursorIsIssued, SinceIsCursor,
       PageIsPast, PageHasNoGap, PageIsSeen, NothingSkipped, Answered, InPage,
       Exists, NoPage, AbsentRow, Row

\* What a step leaves alone is enough for the steps of the application and of
\* the clock.
LEMMA ElsewhereKeepsInv ==
  ASSUME PullInv, UNCHANGED <<strategy, server, lastTick, cursor, pc, since, limit,
                              attempt, pages, page, seen>>, faults' \in Nat
  PROVE  PullInv'
BY DEF PullInv, PullTypeOK, StampsAreIssued, CursorIsIssued, SinceIsCursor,
       PageIsPast, PageHasNoGap, PageIsSeen, NothingSkipped, Answered, InPage, Exists

\* The end of a session forgets its page and changes nothing that lasts.
LEMMA EndKeepsInv ==
  ASSUME PullInv, EndPull, UNCHANGED <<strategy, server, lastTick, cursor, seen>>,
         faults' \in Nat
  PROVE  PullInv'
BY PullAssumption
   DEF PullInv, PullTypeOK, StampsAreIssued, CursorIsIssued, SinceIsCursor,
       PageIsPast, PageHasNoGap, PageIsSeen, NothingSkipped, Answered, InPage, Exists,
       EndPull, Fresh, NoPage, AbsentRow, Row

\* A new stamp is later than every page in flight and than the cursor.
LEMMA ForeignKeepsInv ==
  ASSUME PullInv, NEW S \in SUBSET ServerIds, NEW st \in {"live", "tombstoned"},
         ForeignWrite(S, st)
  PROVE  PullInv'
<1> USE DEF PullInv
<1>1. lastTick' = lastTick + 1 /\ lastTick \in Nat
  BY DEF ForeignWrite, PullTypeOK
<1>2. \A s \in ServerIds :
        /\ s \in S => server'[s].ts = lastTick + 1
        /\ s \notin S => server'[s] = server[s]
  BY <1>1 DEF ForeignWrite
<1>3. server' \in [ServerIds -> Row]
  BY <1>1, BoundsAssumption DEF ForeignWrite, PullTypeOK, Row
<1>4. UNCHANGED <<strategy, cursor, pc, since, limit, attempt, pages, page, faults, seen>>
  BY DEF ForeignWrite, pullVars
<1>5. \A s \in ServerIds : server[s].ts \in Nat /\ page[s].ts \in Nat /\ server[s].ts <= lastTick
  BY DEF PullTypeOK, Row, StampsAreIssued
<1>6. PullTypeOK'
  BY <1>1, <1>3, <1>4 DEF PullTypeOK
<1>7. StampsAreIssued'
  BY <1>1, <1>2, <1>5 DEF StampsAreIssued
<1>8. CursorIsIssued' /\ SinceIsCursor' /\ PageIsSeen'
  BY <1>1, <1>4 DEF CursorIsIssued, SinceIsCursor, PageIsSeen, PullTypeOK, InPage
<1>9. PageIsPast'
  <2> SUFFICES ASSUME Answered, NEW s \in InPage
               PROVE  since < page[s].ts /\ page[s].ts <= server'[s].ts
    BY <1>4 DEF PageIsPast, Answered, InPage
  <2>1. since < page[s].ts /\ page[s].ts <= server[s].ts /\ s \in ServerIds
    BY DEF PageIsPast, InPage
  <2> QED
    BY <1>1, <1>2, <1>5, <2>1
<1>10. PageHasNoGap'
  <2> SUFFICES ASSUME Answered, NEW r \in InPage, NEW s \in ServerIds, Exists(s)',
                      since < server'[s].ts, server'[s].ts < page[r].ts
               PROVE  s \in InPage /\ page[s].ts = server'[s].ts
    BY <1>4 DEF PageHasNoGap, Answered, InPage
  <2>1. page[r].ts <= lastTick /\ r \in ServerIds
    BY <1>1, <1>5 DEF PageIsPast, InPage
  <2>2. s \notin S
    BY <1>1, <1>2, <1>5, <2>1
  <2> QED
    BY <1>2, <2>2 DEF PageHasNoGap, Exists
<1>11. NothingSkipped'
  <2> SUFFICES ASSUME NEW s \in ServerIds, Exists(s)', server'[s].ts <= cursor
               PROVE  seen[s] = server'[s].ts
    BY <1>4 DEF NothingSkipped
  <2>1. s \notin S
    BY <1>1, <1>2 DEF CursorIsIssued, PullTypeOK
  <2> QED
    BY <1>2, <2>1 DEF NothingSkipped, Exists
<1> QED
  BY <1>6, <1>7, <1>8, <1>9, <1>10, <1>11

\* The answer to a request is past, recent and without gaps.
LEMMA ListKeepsInv ==
  ASSUME PullInv, List
  PROVE  PullInv'
<1> USE DEF PullInv
<1> DEFINE n == Min({limit, ServerMaxLimit})
<1>1. n \in Nat
  <2>1. limit \in Nat /\ ServerMaxLimit \in Nat
    BY PullAssumption DEF PullTypeOK
  <2>2. \E x \in {limit, ServerMaxLimit} : \A y \in {limit, ServerMaxLimit} : x =< y
    BY <2>1
  <2>3. n \in {limit, ServerMaxLimit}
    BY <2>2 DEF Min
  <2> QED
    BY <2>1, <2>3
<1>2. UNCHANGED <<strategy, server, lastTick, cursor, since, limit, attempt, pages, faults, seen>>
  BY DEF List, serverVars
<1>3. \A s \in ServerIds :
        page'[s] = IF s \in Listed(since, n) THEN server[s] ELSE AbsentRow
  BY DEF List
<1>4. since \in Nat
  BY DEF PullTypeOK
<1>5. \A s \in ServerIds : s \in InPage' <=> s \in Listed(since, n)
  <2> SUFFICES ASSUME NEW s \in ServerIds
               PROVE  page'[s].state # "absent" <=> s \in Listed(since, n)
    BY DEF InPage
  <2>1. s \in Listed(since, n) => server[s].state # "absent"
    BY DEF Listed, ChangedSince, Exists
  <2>2. AbsentRow.state = "absent"
    BY DEF AbsentRow
  <2> QED
    BY <1>3, <2>1, <2>2
<1>6. PullTypeOK'
  <2>1. page' \in [ServerIds -> Row]
    BY DEF List, PullTypeOK, AbsentRow, Row
  <2> QED
    BY <1>2, <2>1 DEF PullTypeOK, List
<1>7. PageIsPast'
  <2> SUFFICES ASSUME NEW s \in InPage'
               PROVE  since < page'[s].ts /\ page'[s].ts <= server[s].ts
    BY <1>2 DEF PageIsPast
  <2>1. s \in ServerIds /\ s \in Listed(since, n)
    BY <1>5 DEF InPage
  <2>2. page'[s] = server[s] /\ since < server[s].ts
    BY <1>3, <1>4, <2>1 DEF Listed, ChangedSince, PullTypeOK, Row
  <2> QED
    BY <2>1, <2>2 DEF PullTypeOK, Row
<1>8. PageHasNoGap'
  <2> SUFFICES ASSUME NEW r \in InPage', NEW s \in ServerIds, Exists(s),
                      since < server[s].ts, server[s].ts < page'[r].ts
               PROVE  s \in InPage' /\ page'[s].ts = server[s].ts
    BY <1>2 DEF PageHasNoGap, Exists
  <2>1. r \in ServerIds /\ r \in Listed(since, n)
    BY <1>5 DEF InPage
  <2>2. page'[r] = server[r]
    BY <1>3, <2>1
  <2>3. s \in ChangedSince(since) /\ Before(s, r)
    BY <1>4, <2>1, <2>2 DEF ChangedSince, Before, PullTypeOK, Row
  <2>4. s \in Listed(since, n)
    BY <1>1, <1>4, <2>1, <2>3, ListedIsFirst
  <2> QED
    BY <1>3, <1>5, <2>4
<1>9. StampsAreIssued' /\ CursorIsIssued' /\ SinceIsCursor' /\ PageIsSeen' /\ NothingSkipped'
  BY <1>2 DEF List, StampsAreIssued, CursorIsIssued, SinceIsCursor, PageIsSeen,
              NothingSkipped, Exists
<1> QED
  BY <1>6, <1>7, <1>8, <1>9

\* The rows of a page are past the cursor: delivering them says nothing new
\* of what is before it.
LEMMA ApplyPageKeepsInv ==
  ASSUME PullInv, ApplyPage
  PROVE  PullInv'
<1> USE DEF PullInv
<1>1. UNCHANGED <<strategy, server, lastTick, cursor, since, limit, attempt, pages, page, faults>>
  BY DEF ApplyPage, serverVars
<1>2. pc = "got" /\ pc' = "applied" /\ Answered /\ since = cursor
  BY DEF ApplyPage, Answered, SinceIsCursor
<1>3. \A s \in ServerIds : seen'[s] = IF s \in InPage THEN page[s].ts ELSE seen[s]
  BY DEF ApplyPage
<1>4. PullTypeOK'
  <2>1. seen' \in [ServerIds -> Nat]
    BY DEF ApplyPage, PullTypeOK, Row
  <2> QED
    BY <1>1, <1>2, <2>1 DEF PullTypeOK
<1>5. PageIsSeen'
  BY <1>1, <1>3 DEF PageIsSeen, InPage
<1>6. NothingSkipped'
  <2> SUFFICES ASSUME NEW s \in ServerIds, Exists(s), server[s].ts <= cursor
               PROVE  seen'[s] = server[s].ts
    BY <1>1 DEF NothingSkipped, Exists
  <2>1. s \notin InPage
    BY <1>2 DEF PageIsPast, PullTypeOK, Row
  <2> QED
    BY <1>3, <2>1 DEF NothingSkipped
<1>7. StampsAreIssued' /\ CursorIsIssued' /\ SinceIsCursor' /\ PageIsPast' /\ PageHasNoGap'
  BY <1>1, <1>2 DEF StampsAreIssued, CursorIsIssued, SinceIsCursor, PageIsPast,
                    PageHasNoGap, Answered, InPage, Exists
<1> QED
  BY <1>4, <1>5, <1>6, <1>7

\* The heart of the argument: everything between the old cursor and the new
\* one is in the page, and the page has been applied.
LEMMA SaveCursorKeepsInv ==
  ASSUME PullInv, SaveCursor
  PROVE  PullInv'
<1> USE DEF PullInv
<1>1. UNCHANGED <<strategy, server, lastTick, faults, seen>> /\ cursor' = Candidate
  BY DEF SaveCursor, serverVars
<1>2. pc = "applied" /\ Answered /\ since = cursor /\ Advances
  BY DEF SaveCursor, Answered, SinceIsCursor
<1>3. \A s \in InPage : page[s].ts <= lastTick
  BY <1>2 DEF PageIsPast, StampsAreIssued, PullTypeOK, Row, InPage
<1>4. PICK r \in InPage : /\ Candidate = page[r].ts - 1
                          /\ \A s \in InPage : page[s].ts <= page[r].ts
  BY <1>2, <1>3, CandidateIsBelowLast DEF PullTypeOK
<1>5. page[r].ts \in Nat /\ since \in Nat /\ since < Candidate /\ lastTick \in Nat
  BY <1>2, <1>4 DEF PullTypeOK, Row, InPage, Advances
<1>6. cursor' \in Nat /\ cursor' <= lastTick
  BY <1>1, <1>3, <1>4, <1>5
<1>7. NothingSkipped'
  <2> SUFFICES ASSUME NEW s \in ServerIds, Exists(s), server[s].ts <= Candidate
               PROVE  seen[s] = server[s].ts
    BY <1>1 DEF NothingSkipped, Exists
  <2>1. server[s].ts \in Nat
    BY DEF PullTypeOK, Row
  <2>2. CASE server[s].ts <= cursor
    BY <2>2 DEF NothingSkipped
  <2>3. CASE server[s].ts > cursor
    <3>1. s \in InPage /\ page[s].ts = server[s].ts
      BY <1>2, <1>4, <1>5, <2>1, <2>3 DEF PageHasNoGap
    <3> QED
      BY <1>2, <3>1 DEF PageIsSeen
  <2> QED
    BY <1>2, <1>5, <2>1, <2>2, <2>3
<1>8. \/ pc' = "idle" /\ since' = 0 /\ pages' = 0
      \/ pc' = "ask" /\ since' = Candidate /\ pages' = pages + 1
  BY DEF SaveCursor, EndPull
<1>9. limit' = PageSize /\ attempt' = 0 /\ page' = NoPage
  BY DEF SaveCursor, EndPull, Fresh
<1>10. PullTypeOK'
  <2>1. page' \in [ServerIds -> Row]
    BY <1>9 DEF NoPage, AbsentRow, Row
  <2>2. since' \in Nat /\ pages' \in Nat /\ pc' \in {"idle", "ask"}
    BY <1>1, <1>6, <1>8 DEF PullTypeOK
  <2> QED
    BY <1>1, <1>6, <1>9, <2>1, <2>2, PullAssumption DEF PullTypeOK
<1>11. StampsAreIssued' /\ CursorIsIssued' /\ SinceIsCursor' /\ PageIsPast' /\ PageHasNoGap' /\ PageIsSeen'
  BY <1>1, <1>6, <1>8 DEF StampsAreIssued, CursorIsIssued, SinceIsCursor, PageIsPast,
                          PageHasNoGap, PageIsSeen, Answered
<1> QED
  BY <1>7, <1>10, <1>11

LEMMA PullNext == PullInv /\ [Next]_vars => PullInv'
<1> SUFFICES ASSUME PullInv, [Next]_vars PROVE PullInv'
  OBVIOUS
<1>1. CASE App \/ ClockRuns \/ UNCHANGED vars
  BY <1>1, ElsewhereKeepsInv DEF App, ClockRuns, vars, serverVars, pullVars, PullInv, PullTypeOK
<1>2. CASE Foreign
  BY <1>2, ForeignKeepsInv DEF Foreign
<1>3. CASE StartPull
  BY <1>3 DEF StartPull, serverVars, PullInv, PullTypeOK, StampsAreIssued, CursorIsIssued,
              SinceIsCursor, PageIsPast, PageHasNoGap, PageIsSeen, NothingSkipped, Answered,
              InPage, Exists
<1>4. CASE List
  BY <1>4, ListKeepsInv
<1>5. CASE NothingNew \/ Stop \/ Abort
  BY <1>5, EndKeepsInv DEF NothingNew, Stop, Abort, serverVars, PullInv, PullTypeOK
<1>6. CASE Escalate
  <2>1. limit' \in Nat /\ attempt' \in Nat
    <3> DEFINE larger == limit * EscalationFactor
    <3>1. larger \in Nat /\ EscalatedLimit \in Nat /\ attempt \in Nat
      BY PullAssumption DEF PullInv, PullTypeOK
    <3>2. \E x \in {larger, EscalatedLimit} : \A y \in {larger, EscalatedLimit} : x =< y
      <4> HIDE DEF larger
      <4> QED
        BY <3>1
    <3>3. Min({larger, EscalatedLimit}) \in {larger, EscalatedLimit}
      BY <3>2 DEF Min
    <3> QED
      BY <1>6, <3>1, <3>3 DEF Escalate
  <2> QED
    BY <1>6, <2>1 DEF Escalate, serverVars, PullInv, PullTypeOK, StampsAreIssued, CursorIsIssued,
              SinceIsCursor, PageIsPast, PageHasNoGap, PageIsSeen, NothingSkipped, Answered,
              InPage, Exists
<1>7. CASE ApplyPage
  BY <1>7, ApplyPageKeepsInv
<1>8. CASE SaveCursor
  BY <1>8, SaveCursorKeepsInv
<1> QED
  BY <1>1, <1>2, <1>3, <1>4, <1>5, <1>6, <1>7, <1>8 DEF Next, Pull

\* No change of the server is skipped (runPullPhase's cursor, SyncPullPhase.cpp:
\* 41-106): whatever is cut by a page, stamped alike, aborted between a page and
\* its cursor or written meanwhile, a row at or before the cursor has been
\* delivered as the server has it.
THEOREM NothingSkippedCorrect == Spec => []NothingSkipped
<1>1. PullInv => NothingSkipped
  BY DEF PullInv
<1> QED
  BY <1>1, PullInit, PullNext, PTL DEF Spec

-----------------------------------------------------------------------------
(* Types. Those of the phase are part of the invariant; these are those of *)
(* the store it applies its pages to.                                      *)

LEMMA StoreInitTyped == Init => StoreTypeOK
<1> SUFFICES ASSUME Init PROVE StoreTypeOK
  OBVIOUS
<1> USE DEF Init, StoreInit
<1>1. rows \in [Id -> Row]
  BY DEF AbsentRow, Row
<1>2. queue \in [ItemIds -> Item]
  BY DEF NoItem, Item
<1>3. meta \in [Id -> MetaRow]
  BY DEF NoMeta, MetaRow
<1>4. applyLock \in BOOLEAN
  OBVIOUS
<1>5. nextItem \in Nat \ {0} /\ writes \in Nat \ {0} /\ clock \in Nat
  OBVIOUS
<1> QED
  BY <1>1, <1>2, <1>3, <1>4, <1>5, Zenon DEF StoreTypeOK

\* A statement and its trigger.
LEMMA WriteTyped ==
  ASSUME StoreTypeOK, NEW pk \in Id, NEW op \in {"insert", "update", "delete"},
         NEW st \in {"PENDING", "DELETED"}, Write(op, pk, st)
  PROVE  /\ queue' \in [ItemIds -> Item] /\ nextItem' \in Nat \ {0}
         /\ meta' \in [Id -> MetaRow] /\ applyLock' = applyLock /\ writes' \in Nat \ {0}
<1> USE DEF StoreTypeOK, Write
<1>1. applyLock' = applyLock /\ writes' \in Nat \ {0}
  OBVIOUS
<1>2. CASE applyLock
  BY <1>1, <1>2 DEF Triggered
<1>3. CASE ~applyLock
  <2>1. queue' \in [ItemIds -> Item] /\ nextItem' \in Nat \ {0}
    BY <1>3 DEF Triggered, Item
  <2>2. MetaUpsert(pk, st) \in [Id -> MetaRow]
    BY DEF MetaUpsert, MetaRow, Id
  <2> QED
    BY <1>1, <1>3, <2>1, <2>2 DEF Triggered
<1> QED
  BY <1>2, <1>3

LEMMA AppWriteTyped ==
  ASSUME StoreTypeOK, AppWrite
  PROVE  StoreTypeOK'
<1> USE DEF StoreTypeOK
<1>1. PICK pk \in Id : Insert(pk) \/ Update(pk) \/ SoftDelete(pk) \/ HardDelete(pk)
  BY DEF AppWrite
<1>2. CASE Insert(pk)
  <2>1. clock' \in Nat
    BY <1>2 DEF Insert, Stamp
  <2>2. rows' \in [Id -> Row]
    BY <1>2, <2>1 DEF Insert, Row
  <2> QED
    BY <1>2, <2>1, <2>2, WriteTyped DEF Insert
<1>3. CASE Update(pk)
  <2>1. clock' \in Nat
    BY <1>3 DEF Update, Stamp
  <2>2. rows' \in [Id -> Row]
    <3>1. CASE rows' = [rows EXCEPT ![pk].ver = writes, ![pk].ts = clock']
      BY <2>1, <3>1 DEF Row
    <3>2. CASE rows' = [rows EXCEPT ![pk].ver = writes]
      BY <3>2 DEF Row
    <3> QED
      BY <1>3, <3>1, <3>2 DEF Update
  <2>3. PICK st \in {"PENDING", "DELETED"} : Write("update", pk, st)
    <3>1. CASE rows[pk].state = "tombstoned"
      BY <1>3, <3>1 DEF Update
    <3>2. CASE rows[pk].state # "tombstoned"
      BY <1>3, <3>2 DEF Update
    <3> QED
      BY <3>1, <3>2
  <2> QED
    BY <2>1, <2>2, <2>3, WriteTyped
<1>4. CASE SoftDelete(pk)
  <2>1. rows' \in [Id -> Row] /\ clock' \in Nat
    BY <1>4 DEF SoftDelete, Row
  <2> QED
    BY <1>4, <2>1, WriteTyped DEF SoftDelete
<1>5. CASE HardDelete(pk)
  <2>1. rows' \in [Id -> Row] /\ clock' \in Nat
    BY <1>5 DEF HardDelete, Row, AbsentRow
  <2> QED
    BY <1>5, <2>1, WriteTyped DEF HardDelete
<1> QED
  BY <1>1, <1>2, <1>3, <1>4, <1>5

LEMMA ApplyPageTyped ==
  ASSUME StoreTypeOK, PullTypeOK, ApplyPage
  PROVE  StoreTypeOK'
<1> USE DEF StoreTypeOK, PullTypeOK
<1>1. rows' \in [Id -> Row]
  <2>1. /\ \A k \in Writes : page[k] \in Row
        /\ \A k \in Id : [rows[k] EXCEPT !.state = "tombstoned"] \in Row
    BY DEF Writes, InPage, Row
  <2>2. rows' = [k \in Id |-> IF k \in Deletes THEN [rows[k] EXCEPT !.state = "tombstoned"]
                             ELSE IF k \in Writes THEN page[k] ELSE rows[k]]
    BY DEF ApplyPage
  <2> QED
    BY <2>1, <2>2
<1>2. meta' \in [Id -> MetaRow]
  <2>1. ASSUME NEW l \in Id, Follows(l) \in Applied
        PROVE  PulledSynced(l) \in MetaRow
    <3>1. Follows(l) \in ServerIds
      BY <2>1 DEF Applied, Writes, Deletes, InPage
    <3> QED
      BY <3>1 DEF PulledSynced, MetaRow, Id
  <2>2. meta' = [l \in Id |-> IF Follows(l) \in Applied THEN PulledSynced(l) ELSE meta[l]]
    BY DEF ApplyPage
  <2> QED
    BY <2>1, <2>2
<1>3. UNCHANGED <<queue, nextItem, applyLock, writes, clock>>
  BY DEF ApplyPage
<1> QED
  BY <1>1, <1>2, <1>3

LEMMA StoreNext == PullInv /\ StoreTypeOK /\ [Next]_vars => StoreTypeOK'
<1> SUFFICES ASSUME PullInv, StoreTypeOK, [Next]_vars PROVE StoreTypeOK'
  OBVIOUS
<1>1. CASE App
  BY <1>1, AppWriteTyped DEF App
<1>2. CASE ApplyPage
  BY <1>2, ApplyPageTyped DEF PullInv
<1>3. CASE ClockRuns
  <2>1. clock' \in Nat
    BY <1>3 DEF ClockRuns, StoreTypeOK
  <2>2. UNCHANGED <<rows, queue, nextItem, meta, applyLock, writes>>
    BY <1>3 DEF ClockRuns
  <2> QED
    BY <2>1, <2>2, Zenon DEF StoreTypeOK
<1>4. CASE UNCHANGED storeVars
  <2>1. UNCHANGED <<rows, queue, nextItem, meta, applyLock, writes, clock>>
    BY <1>4 DEF storeVars
  <2> QED
    BY <2>1, Zenon DEF StoreTypeOK
<1>5. CASE Foreign \/ Abort \/ StartPull \/ List \/ NothingNew \/ Escalate \/ Stop \/ SaveCursor
  <2>1. UNCHANGED storeVars
    BY <1>5 DEF Foreign, ForeignWrite, Abort, StartPull, List, NothingNew, Escalate, Stop, SaveCursor
  <2> QED
    BY <1>4, <2>1
<1> QED
  BY <1>1, <1>2, <1>3, <1>4, <1>5 DEF Next, Pull, vars

\* Every variable has its type in every reachable state.
THEOREM TypeCorrect == Spec => []TypeOK
<1>1. PullInv /\ StoreTypeOK => TypeOK
  BY DEF PullInv, TypeOK
<1> QED
  BY <1>1, StoreInitTyped, StoreNext, PullInit, PullNext, PTL DEF Spec

-----------------------------------------------------------------------------
(* What the device shows as synchronised is what the server has.           *)

Clean(s) == Quiet(s) \/ meta[s].status = "SYNCED"

\* No apply window is open between two steps, and items are queued in order.
QueueIsOrdered ==
  /\ ~applyLock /\ nextItem = writes
  /\ \A i \in ItemIds : i >= nextItem => ~Queued(i)

\* Nothing is pushed here: no entity takes over another's metadata.
MetaIsOwn == \A l \in Id : meta[l].entity \in {None, l}

\* A row of the page whose stamp has not moved is the server's.
PageIsAsWas ==
  Answered => \A s \in InPage :
    /\ page[s].ts = server[s].ts => page[s] = server[s]
    /\ page[s].state = "tombstoned" => server[s].state = "tombstoned"

SeenIsIssued == \A s \in ServerIds : seen[s] <= lastTick

\* What the application has left alone came from the server: a later delivery
\* is newer than it, or the same row again. This is what lastWriteWins may
\* rest on when it leaves a row as it is.
RowsAreDelivered ==
  \A s \in ServerIds : strategy # "clientWins" /\ Clean(s) =>
    /\ rows[s].state = "live" =>
         /\ rows[s].ts <= server[s].ts
         /\ rows[s].ts = server[s].ts => rows[s] = server[s]
    /\ rows[s].state = "tombstoned" => server[s].state = "tombstoned"

\* SyncedMeansMirrored, by what has been delivered instead of by the cursor: a
\* page that is applied and whose cursor is not saved yet is the difference.
SeenMeansMirrored ==
  \A s \in ServerIds :
    strategy # "clientWins" /\ Clean(s) /\ Exists(s) /\ seen[s] = server[s].ts
    => IF server[s].state = "live" THEN rows[s] = server[s] ELSE rows[s].state # "live"

MirrorInv ==
  /\ PullInv
  /\ StoreTypeOK
  /\ QueueIsOrdered
  /\ MetaIsOwn
  /\ PageIsAsWas
  /\ SeenIsIssued
  /\ RowsAreDelivered
  /\ SeenMeansMirrored

\* The application's statement on pk leaves every other row as clean as it was,
\* and pk is not clean after it.
LEMMA WriteMarks ==
  ASSUME StoreTypeOK, QueueIsOrdered, MetaIsOwn, NEW pk \in Id, NEW op,
         NEW st \in {"PENDING", "DELETED"}, Write(op, pk, st)
  PROVE  /\ QueueIsOrdered' /\ MetaIsOwn' /\ ~Clean(pk)'
         /\ \A s \in Id \ {pk} : Clean(s)' => Clean(s)
<1> USE IdsAssumption, BoundsAssumption
<1>1. /\ nextItem \in ItemIds /\ nextItem \in Nat
      /\ queue' = [queue EXCEPT ![nextItem] = [op |-> op, ent |-> pk, status |-> "PENDING"]]
      /\ nextItem' = nextItem + 1 /\ writes' = writes + 1 /\ applyLock' = applyLock
      /\ meta' = MetaUpsert(pk, st)
  BY DEF Write, Triggered, QueueIsOrdered, ItemIds, StoreTypeOK
<1>2. /\ \A i \in ItemIds \ {nextItem} : queue'[i] = queue[i]
      /\ queue'[nextItem].status = "PENDING" /\ queue'[nextItem].ent = pk
  BY <1>1 DEF StoreTypeOK
<1>3. QueueIsOrdered'
  <2>1. \A i \in ItemIds : i >= nextItem + 1 => i # nextItem /\ i >= nextItem
    BY <1>1 DEF ItemIds
  <2> QED
    BY <1>1, <1>2, <2>1 DEF QueueIsOrdered, Queued
<1>4. /\ \A l \in Id \ {pk} : meta'[l] = meta[l]
      /\ meta'[pk].entity = pk /\ meta'[pk].status = st
  <2>1. CASE \E l \in Id : meta[l].entity = pk
    <3>1. \A l \in Id : meta[l].entity = pk <=> l = pk
      BY <2>1 DEF MetaIsOwn
    <3>2. meta' = [l \in Id |-> IF meta[l].entity = pk THEN [meta[l] EXCEPT !.status = st] ELSE meta[l]]
      BY <1>1, <2>1 DEF MetaUpsert
    <3>3. meta'[pk] = [meta[pk] EXCEPT !.status = st] /\ meta[pk] \in MetaRow
      BY <3>1, <3>2 DEF StoreTypeOK
    <3> QED
      BY <3>1, <3>2, <3>3 DEF MetaRow
  <2>2. CASE ~\E l \in Id : meta[l].entity = pk
    <3>1. meta' = [meta EXCEPT ![pk] = [entity |-> pk, remote |-> None, status |-> st]]
      BY <1>1, <2>2 DEF MetaUpsert
    <3> QED
      BY <3>1 DEF StoreTypeOK
  <2> QED
    BY <2>1, <2>2
<1>5. MetaIsOwn'
  BY <1>4 DEF MetaIsOwn
<1>6. ~Clean(pk)'
  <2>1. ~Quiet(pk)'
    BY <1>1, <1>2 DEF Quiet, Queued
  <2> QED
    BY <1>4, <2>1 DEF Clean
<1>7. ASSUME NEW s \in Id \ {pk}, Clean(s)'
      PROVE  Clean(s)
  <2>1. ~Queued(nextItem)
    BY <1>1 DEF QueueIsOrdered
  <2>2. Quiet(s)' => Quiet(s)
    BY <1>2, <2>1 DEF Quiet, Queued
  <2> QED
    BY <1>4, <1>7, <2>2 DEF Clean
<1> QED
  BY <1>3, <1>5, <1>6, <1>7

LEMMA AppMarks ==
  ASSUME StoreTypeOK, QueueIsOrdered, MetaIsOwn, AppWrite
  PROVE  /\ QueueIsOrdered' /\ MetaIsOwn'
         /\ \A s \in Id : Clean(s)' => Clean(s) /\ rows'[s] = rows[s]
<1>1. PICK pk \in Id : Insert(pk) \/ Update(pk) \/ SoftDelete(pk) \/ HardDelete(pk)
  BY DEF AppWrite
<1>2. \A s \in Id \ {pk} : rows'[s] = rows[s]
  BY <1>1 DEF Insert, Update, SoftDelete, HardDelete, StoreTypeOK
<1>3. \E op \in {"insert", "update", "delete"}, st \in {"PENDING", "DELETED"} : Write(op, pk, st)
  <2>1. CASE Update(pk)
    <3>1. CASE rows[pk].state = "tombstoned"
      BY <2>1, <3>1 DEF Update
    <3>2. CASE rows[pk].state # "tombstoned"
      BY <2>1, <3>2 DEF Update
    <3> QED
      BY <3>1, <3>2
  <2>2. CASE Insert(pk) \/ SoftDelete(pk) \/ HardDelete(pk)
    BY <2>2 DEF Insert, SoftDelete, HardDelete
  <2> QED
    BY <1>1, <2>1, <2>2
<1> QED
  BY <1>2, <1>3, WriteMarks

\* A step that makes no row cleaner, changes no clean row and delivers nothing.
LEMMA MirrorKept ==
  ASSUME MirrorInv, PullInv', StoreTypeOK', QueueIsOrdered', MetaIsOwn',
         \A s \in ServerIds : Clean(s)' => Clean(s) /\ rows'[s] = rows[s],
         UNCHANGED <<strategy, server, lastTick, seen>>,
         pc' \in {"got", "applied"} => Answered /\ page' = page
  PROVE  MirrorInv'
<1>1. PageIsAsWas'
  BY DEF MirrorInv, PageIsAsWas, Answered, InPage
<1>2. SeenIsIssued' /\ RowsAreDelivered' /\ SeenMeansMirrored'
  BY DEF MirrorInv, SeenIsIssued, RowsAreDelivered, SeenMeansMirrored, Exists
<1> QED
  BY <1>1, <1>2 DEF MirrorInv

\* What the store has is left alone.
LEMMA StoreKept ==
  ASSUME MirrorInv, UNCHANGED <<rows, queue, nextItem, meta, applyLock, writes>>
  PROVE  /\ QueueIsOrdered' /\ MetaIsOwn'
         /\ \A s \in ServerIds : (Clean(s)' <=> Clean(s)) /\ rows'[s] = rows[s]
BY DEF MirrorInv, QueueIsOrdered, MetaIsOwn, Clean, Quiet, Queued

\* Another client's change is later than all that has been delivered, and
\* never brings back what is deleted.
LEMMA ForeignMirrors ==
  ASSUME MirrorInv, PullInv', StoreTypeOK', NEW S \in SUBSET ServerIds,
         NEW st \in {"live", "tombstoned"}, ForeignWrite(S, st)
  PROVE  MirrorInv'
<1>1. /\ lastTick \in Nat /\ lastTick' = lastTick + 1
      /\ UNCHANGED <<storeVars, strategy, cursor, pullVars, faults, seen>>
  BY DEF ForeignWrite, MirrorInv, PullInv, PullTypeOK
<1>2. ASSUME NEW s \in ServerIds
      PROVE  /\ s \notin S => server'[s] = server[s]
             /\ s \in S => server'[s].ts = lastTick + 1 /\ server[s].state # "tombstoned"
             /\ server[s].ts \in Nat /\ server[s].ts <= lastTick /\ rows[s].ts \in Nat
             /\ page[s].ts \in Nat /\ seen[s] \in Nat /\ seen[s] <= lastTick
  <2>1. /\ server[s] \in Row /\ page[s] \in Row /\ seen[s] \in Nat
        /\ server[s].ts <= lastTick /\ seen[s] <= lastTick
    BY DEF MirrorInv, PullInv, PullTypeOK, StampsAreIssued, SeenIsIssued
  <2>2. rows[s] \in Row
    BY DEF MirrorInv, StoreTypeOK, Id
  <2>3. s \notin S => server'[s] = server[s]
    BY DEF ForeignWrite
  <2>4. s \in S => server'[s].ts = lastTick + 1
    BY <1>1 DEF ForeignWrite
  <2>5. s \in S => server[s].state # "tombstoned"
    BY DEF ForeignWrite
  <2> QED
    BY <2>1, <2>2, <2>3, <2>4, <2>5 DEF Row
<1>3. /\ QueueIsOrdered' /\ MetaIsOwn'
      /\ \A s \in ServerIds : (Clean(s)' <=> Clean(s)) /\ rows'[s] = rows[s]
  BY <1>1, StoreKept DEF storeVars
<1>4. PageIsAsWas'
  <2> SUFFICES ASSUME Answered, NEW s \in InPage
               PROVE  /\ page[s].ts = server'[s].ts => page[s] = server'[s]
                      /\ page[s].state = "tombstoned" => server'[s].state = "tombstoned"
    BY <1>1 DEF PageIsAsWas, Answered, InPage, pullVars
  <2>1. /\ s \in ServerIds /\ page[s].ts <= server[s].ts
        /\ page[s].ts = server[s].ts => page[s] = server[s]
        /\ page[s].state = "tombstoned" => server[s].state = "tombstoned"
    BY DEF MirrorInv, PullInv, PageIsPast, PageIsAsWas, InPage
  <2>2. CASE s \in S
    BY <1>1, <1>2, <2>1, <2>2
  <2>3. CASE s \notin S
    BY <1>2, <2>1, <2>3
  <2> QED
    BY <2>2, <2>3
<1>5. SeenIsIssued'
  BY <1>1, <1>2 DEF SeenIsIssued
<1>6. RowsAreDelivered'
  <2> SUFFICES ASSUME strategy # "clientWins", NEW s \in ServerIds, Clean(s)
               PROVE  /\ rows[s].state = "live" =>
                           /\ rows[s].ts <= server'[s].ts
                           /\ rows[s].ts = server'[s].ts => rows[s] = server'[s]
                      /\ rows[s].state = "tombstoned" => server'[s].state = "tombstoned"
    BY <1>1, <1>3 DEF RowsAreDelivered
  <2>1. /\ rows[s].state = "live" =>
             /\ rows[s].ts <= server[s].ts
             /\ rows[s].ts = server[s].ts => rows[s] = server[s]
        /\ rows[s].state = "tombstoned" => server[s].state = "tombstoned"
    BY DEF MirrorInv, RowsAreDelivered
  <2>2. CASE s \in S
    BY <1>1, <1>2, <2>1, <2>2
  <2>3. CASE s \notin S
    BY <1>2, <2>1, <2>3
  <2> QED
    BY <2>2, <2>3
<1>7. SeenMeansMirrored'
  <2> SUFFICES ASSUME strategy # "clientWins", NEW s \in ServerIds, Clean(s), Exists(s)',
                      seen[s] = server'[s].ts
               PROVE  IF server'[s].state = "live" THEN rows[s] = server'[s] ELSE rows[s].state # "live"
    BY <1>1, <1>3 DEF SeenMeansMirrored
  <2>1. s \notin S
    BY <1>1, <1>2
  <2>2. server'[s] = server[s] /\ Exists(s)
    BY <1>2, <2>1 DEF Exists
  <2> QED
    BY <2>2 DEF MirrorInv, SeenMeansMirrored
<1> QED
  BY <1>3, <1>4, <1>5, <1>6, <1>7 DEF MirrorInv

\* An answer is what the server has now.
LEMMA ListMirrors ==
  ASSUME MirrorInv, PullInv', StoreTypeOK', List
  PROVE  MirrorInv'
<1>1. UNCHANGED <<storeVars, strategy, serverVars, seen>>
  BY DEF List
<1>2. /\ QueueIsOrdered' /\ MetaIsOwn'
      /\ \A s \in ServerIds : (Clean(s)' <=> Clean(s)) /\ rows'[s] = rows[s]
  BY <1>1, StoreKept DEF storeVars
<1>3. \A s \in ServerIds : page'[s] = server[s] \/ page'[s] = AbsentRow
  BY DEF List
<1>4. PageIsAsWas'
  <2> SUFFICES ASSUME NEW s \in ServerIds, page'[s].state # "absent"
               PROVE  /\ page'[s].ts = server[s].ts => page'[s] = server[s]
                      /\ page'[s].state = "tombstoned" => server[s].state = "tombstoned"
    BY <1>1 DEF PageIsAsWas, InPage, serverVars
  <2> QED
    BY <1>3 DEF AbsentRow
<1>5. SeenIsIssued' /\ RowsAreDelivered' /\ SeenMeansMirrored'
  BY <1>1, <1>2 DEF MirrorInv, SeenIsIssued, RowsAreDelivered, SeenMeansMirrored, Exists, serverVars
<1> QED
  BY <1>2, <1>4, <1>5 DEF MirrorInv

\* What a page does to a row and to the metadata that follows it.
LEMMA PageMarks ==
  ASSUME MirrorInv, ApplyPage
  PROVE  /\ QueueIsOrdered' /\ MetaIsOwn'
         /\ \A s \in ServerIds :
              /\ s \notin Applied => rows'[s] = rows[s] /\ (Clean(s)' <=> Clean(s))
              /\ s \in Writes => rows'[s] = page[s]
              /\ s \in Deletes => rows'[s].state = "tombstoned"
<1> USE IdsAssumption
<1>1. /\ StoreTypeOK /\ MetaIsOwn /\ QueueIsOrdered /\ ServerIds \subseteq Id /\ None \notin ServerIds
      /\ Applied \subseteq ServerIds
  BY DEF MirrorInv, Id, Applied, Writes, Deletes, InPage
<1>2. /\ UNCHANGED <<queue, nextItem, applyLock, writes>>
      /\ rows' = [k \in Id |-> IF k \in Deletes THEN [rows[k] EXCEPT !.state = "tombstoned"]
                               ELSE IF k \in Writes THEN page[k] ELSE rows[k]]
      /\ meta' = [l \in Id |-> IF Follows(l) \in Applied THEN PulledSynced(l) ELSE meta[l]]
  BY DEF ApplyPage
<1>3. ASSUME NEW l \in Id
      PROVE  /\ Follows(l) \in {None, l}
             /\ l \in ServerIds => Follows(l) = l
  BY <1>1, <1>3 DEF Follows, MetaIsOwn
<1>4. ASSUME NEW l \in Id
      PROVE  /\ meta'[l] = IF Follows(l) \in Applied THEN PulledSynced(l) ELSE meta[l]
             /\ Follows(l) \in Applied => meta'[l].entity = l
  BY <1>1, <1>2, <1>3 DEF PulledSynced
<1>5. QueueIsOrdered'
  BY <1>1, <1>2 DEF QueueIsOrdered, Queued
<1>6. MetaIsOwn'
  BY <1>1, <1>4 DEF MetaIsOwn
<1>7. ASSUME NEW s \in ServerIds
      PROVE  /\ s \notin Applied => rows'[s] = rows[s] /\ (Clean(s)' <=> Clean(s))
             /\ s \in Writes => rows'[s] = page[s]
             /\ s \in Deletes => rows'[s].state = "tombstoned"
  <2>1. s \in Id /\ rows[s] \in Row /\ Follows(s) = s
    BY <1>1, <1>3 DEF StoreTypeOK
  <2>2. s \in Writes => s \notin Deletes
    BY DEF Writes, Deletes
  <2>3. rows'[s] = IF s \in Deletes THEN [rows[s] EXCEPT !.state = "tombstoned"]
                   ELSE IF s \in Writes THEN page[s] ELSE rows[s]
    BY <1>2, <2>1
  <2>4. s \notin Applied => (Clean(s)' <=> Clean(s))
    BY <1>2, <1>4, <2>1 DEF Clean, Quiet, Queued
  <2>5. [rows[s] EXCEPT !.state = "tombstoned"].state = "tombstoned"
    BY <2>1 DEF Row
  <2> QED
    BY <2>2, <2>3, <2>4, <2>5 DEF Applied
<1> QED
  BY <1>5, <1>6, <1>7

\* Where a conflict strategy leaves a row that the application has not
\* touched as it is, the row is the delivered one.
LEMMA PageMirrors ==
  ASSUME MirrorInv, PullInv', StoreTypeOK', ApplyPage
  PROVE  MirrorInv'
<1>1. /\ UNCHANGED <<strategy, server, lastTick, page>> /\ Answered
      /\ \A s \in ServerIds : seen'[s] = IF s \in InPage THEN page[s].ts ELSE seen[s]
  BY DEF ApplyPage, serverVars, Answered
<1>2. /\ QueueIsOrdered' /\ MetaIsOwn'
      /\ \A s \in ServerIds :
           /\ s \notin Applied => rows'[s] = rows[s] /\ (Clean(s)' <=> Clean(s))
           /\ s \in Writes => rows'[s] = page[s]
           /\ s \in Deletes => rows'[s].state = "tombstoned"
  BY PageMarks
<1>3. ASSUME NEW s \in InPage
      PROVE  /\ s \in ServerIds /\ page[s].ts \in Nat /\ server[s].ts \in Nat /\ rows[s].ts \in Nat
             /\ page[s].ts <= server[s].ts /\ server[s].ts <= lastTick /\ lastTick \in Nat
             /\ page[s].ts = server[s].ts => page[s] = server[s]
             /\ page[s].state = "tombstoned" => server[s].state = "tombstoned"
             /\ page[s].state \in {"live", "tombstoned"}
  <2>1. s \in ServerIds /\ page[s] \in Row /\ server[s] \in Row /\ rows[s] \in Row
    BY DEF InPage, MirrorInv, PullInv, PullTypeOK, StoreTypeOK, Id
  <2>2. page[s].ts <= server[s].ts /\ server[s].ts <= lastTick /\ lastTick \in Nat
    BY <1>1, <2>1 DEF MirrorInv, PullInv, PullTypeOK, PageIsPast, StampsAreIssued
  <2>3. /\ page[s].ts = server[s].ts => page[s] = server[s]
        /\ page[s].state = "tombstoned" => server[s].state = "tombstoned"
    BY <1>1 DEF MirrorInv, PageIsAsWas
  <2> QED
    BY <2>1, <2>2, <2>3 DEF InPage, Row
<1>4. PageIsAsWas'
  BY <1>1 DEF MirrorInv, PageIsAsWas, InPage
<1>5. SeenIsIssued'
  <2> SUFFICES ASSUME NEW s \in ServerIds PROVE seen'[s] <= lastTick
    BY <1>1 DEF SeenIsIssued
  <2> QED
    BY <1>1, <1>3 DEF MirrorInv, SeenIsIssued
<1>6. ASSUME NEW s \in ServerIds, strategy # "clientWins", Clean(s)
      PROVE  /\ rows[s].state = "live" =>
                  /\ rows[s].ts <= server[s].ts
                  /\ rows[s].ts = server[s].ts => rows[s] = server[s]
             /\ rows[s].state = "tombstoned" => server[s].state = "tombstoned"
  BY <1>6 DEF MirrorInv, RowsAreDelivered
<1>7. RowsAreDelivered'
  <2> SUFFICES ASSUME strategy # "clientWins", NEW s \in ServerIds, Clean(s)'
               PROVE  /\ rows'[s].state = "live" =>
                           /\ rows'[s].ts <= server[s].ts
                           /\ rows'[s].ts = server[s].ts => rows'[s] = server[s]
                      /\ rows'[s].state = "tombstoned" => server[s].state = "tombstoned"
    BY <1>1 DEF RowsAreDelivered
  <2>1. CASE s \notin Applied
    BY <1>2, <1>6, <2>1
  <2>2. CASE s \in Writes
    <3>1. s \in InPage /\ page[s].state = "live" /\ rows'[s] = page[s]
      BY <1>2, <2>2 DEF Writes
    <3> QED
      BY <1>3, <3>1
  <2>3. CASE s \in Deletes
    <3>1. s \in InPage /\ page[s].state = "tombstoned" /\ rows'[s].state = "tombstoned"
      BY <1>2, <2>3 DEF Deletes
    <3> QED
      BY <1>3, <3>1
  <2> QED
    BY <2>1, <2>2, <2>3 DEF Applied
<1>8. SeenMeansMirrored'
  <2> SUFFICES ASSUME strategy # "clientWins", NEW s \in ServerIds, Clean(s)', Exists(s),
                      seen'[s] = server[s].ts
               PROVE  IF server[s].state = "live" THEN rows'[s] = server[s]
                      ELSE rows'[s].state # "live"
    BY <1>1 DEF SeenMeansMirrored, Exists
  <2>1. CASE s \notin InPage
    <3>1. s \notin Applied /\ seen'[s] = seen[s]
      BY <1>1, <2>1 DEF Applied, Writes, Deletes
    <3> QED
      BY <1>2, <3>1 DEF MirrorInv, SeenMeansMirrored
  <2>2. CASE s \in InPage
    <3>1. page[s] = server[s]
      BY <1>1, <1>3, <2>2
    <3>2. CASE s \in Writes
      BY <1>2, <3>1, <3>2 DEF Writes
    <3>3. CASE s \in Deletes
      <4>1. server[s].state = "tombstoned" /\ rows'[s].state = "tombstoned"
        BY <1>2, <3>1, <3>3 DEF Deletes
      <4> QED
        BY <4>1
    <3>4. CASE s \notin Applied
      <4>1. rows'[s] = rows[s] /\ Clean(s)
        BY <1>2, <3>4
      <4>2. rows[s].state \in {"absent", "live", "tombstoned"}
        BY DEF MirrorInv, StoreTypeOK, Row, Id
      <4>3. strategy \in {"serverWins", "lastWriteWins"}
        BY PullAssumption DEF MirrorInv, PullInv, PullTypeOK
      <4>4. CASE page[s].state = "live"
        <5>1. rows[s].state # "absent" /\ ~RemoteIsNewer(s) /\ strategy = "lastWriteWins"
          BY <2>2, <3>4, <4>3, <4>4 DEF Applied, Writes
        <5>2. rows[s].state = "live"
          BY <1>6, <3>1, <4>1, <4>2, <4>4, <5>1
        <5>3. rows[s].ts = server[s].ts
          BY <1>3, <1>6, <2>2, <3>1, <4>1, <5>1, <5>2 DEF RemoteIsNewer
        <5> QED
          BY <1>6, <3>1, <4>1, <4>4, <5>2, <5>3
      <4>5. CASE page[s].state = "tombstoned"
        <5> SUFFICES ASSUME rows[s].state = "live" PROVE FALSE
          BY <3>1, <4>1, <4>5
        <5>1. ~RemoteIsNewer(s)
          BY <2>2, <3>4, <4>3, <4>5 DEF Applied, Deletes
        <5>2. rows[s].ts = server[s].ts
          BY <1>3, <1>6, <2>2, <3>1, <4>1, <5>1 DEF RemoteIsNewer
        <5> QED
          BY <1>6, <3>1, <4>1, <4>5, <5>2
      <4> QED
        BY <1>3, <2>2, <4>4, <4>5
    <3> QED
      BY <3>2, <3>3, <3>4 DEF Applied
  <2> QED
    BY <2>1, <2>2
<1> QED
  BY <1>2, <1>4, <1>5, <1>7, <1>8 DEF MirrorInv

LEMMA MirrorInitially == Init => MirrorInv
<1> SUFFICES ASSUME Init PROVE MirrorInv
  OBVIOUS
<1>1. PullInv /\ StoreTypeOK
  BY PullInit, StoreInitTyped
<1>2. QueueIsOrdered /\ MetaIsOwn /\ PageIsAsWas /\ SeenIsIssued
  <2>1. QueueIsOrdered
    BY DEF Init, StoreInit, QueueIsOrdered, Queued, NoItem
  <2>2. MetaIsOwn
    BY DEF Init, StoreInit, MetaIsOwn, NoMeta
  <2> QED
    BY <2>1, <2>2 DEF Init, PageIsAsWas, SeenIsIssued, Answered
<1>3. RowsAreDelivered /\ SeenMeansMirrored
  <2>1. \A s \in ServerIds : rows[s].state = "absent" /\ ~Exists(s)
    BY DEF Init, StoreInit, AbsentRow, Exists, Id
  <2> QED
    BY <2>1 DEF RowsAreDelivered, SeenMeansMirrored
<1> QED
  BY <1>1, <1>2, <1>3 DEF MirrorInv

LEMMA MirrorNext == MirrorInv /\ [Next]_vars => MirrorInv'
<1> SUFFICES ASSUME MirrorInv, [Next]_vars PROVE MirrorInv'
  OBVIOUS
<1>1. PullInv' /\ StoreTypeOK'
  BY PullNext, StoreNext DEF MirrorInv
<1>2. CASE App
  <2>1. /\ QueueIsOrdered' /\ MetaIsOwn'
        /\ \A s \in ServerIds : Clean(s)' => Clean(s) /\ rows'[s] = rows[s]
    BY <1>2, AppMarks DEF App, MirrorInv, Id
  <2>2. UNCHANGED <<strategy, server, lastTick, seen, pc, page>>
    BY <1>2 DEF App, serverVars, pullVars
  <2> QED
    BY <1>1, <2>1, <2>2, MirrorKept DEF Answered
<1>3. CASE Foreign
  <2>1. PICK S \in SUBSET ServerIds, st \in {"live", "tombstoned"} : ForeignWrite(S, st)
    BY <1>3 DEF Foreign
  <2> QED
    BY <1>1, <2>1, ForeignMirrors
<1>4. CASE List
  BY <1>1, <1>4, ListMirrors
<1>5. CASE ApplyPage
  BY <1>1, <1>5, PageMirrors
<1>6. CASE ClockRuns \/ StartPull \/ NothingNew \/ Escalate \/ Stop \/ SaveCursor \/ Abort \/ UNCHANGED vars
  <2>1. UNCHANGED <<rows, queue, nextItem, meta, applyLock, writes>>
    BY <1>6 DEF ClockRuns, StartPull, NothingNew, Escalate, Stop, SaveCursor, Abort, vars, storeVars
  <2>2. UNCHANGED <<strategy, server, lastTick, seen>>
    BY <1>6 DEF ClockRuns, StartPull, NothingNew, Escalate, Stop, SaveCursor, Abort, vars, serverVars
  <2>3. pc' \in {"got", "applied"} => Answered /\ page' = page
    <3>1. CASE ClockRuns \/ UNCHANGED vars
      BY <3>1 DEF ClockRuns, vars, pullVars, Answered
    <3>2. CASE StartPull \/ NothingNew \/ Escalate \/ Stop \/ Abort
      BY <3>2 DEF StartPull, NothingNew, Escalate, Stop, Abort, EndPull
    <3>3. CASE SaveCursor
      BY <3>3 DEF SaveCursor, EndPull
    <3> QED
      BY <1>6, <3>1, <3>2, <3>3
  <2>4. /\ QueueIsOrdered' /\ MetaIsOwn'
        /\ \A s \in ServerIds : (Clean(s)' <=> Clean(s)) /\ rows'[s] = rows[s]
    BY <2>1, StoreKept
  <2> QED
    BY <1>1, <2>2, <2>3, <2>4, MirrorKept
<1> QED
  BY <1>2, <1>3, <1>4, <1>5, <1>6 DEF Next, Pull

\* What the device shows as synchronised is what the server has
\* (SyncOperationApplier::apply under serverWins and lastWriteWins): a row at
\* or before the cursor that the application has not written since its last
\* delivery is the server's, or hidden when the server has deleted it, however
\* pages, foreign changes, local writes, clocks and faults come together.
THEOREM SyncedMeansMirroredCorrect == Spec => []SyncedMeansMirrored
<1>1. MirrorInv => SyncedMeansMirrored
  BY DEF MirrorInv, PullInv, NothingSkipped, SeenMeansMirrored, SyncedMeansMirrored, Clean
<1> QED
  BY <1>1, MirrorInitially, MirrorNext, PTL DEF Spec

=============================================================================
