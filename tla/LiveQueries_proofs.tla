------------------------- MODULE LiveQueries_proofs -------------------------
(***************************************************************************)
(* What a screen may rely on, as theorems: for any number of tables, keys, *)
(* components, writes, providers and queries that throw, and any order of  *)
(* commits, notifications, renders and effects.                            *)
(***************************************************************************)
EXTENDS LiveQueries, TLAPS

(***************************************************************************)
(* The inductive invariant.                                                *)
(***************************************************************************)

\* The run of a provider that is registering has not ended.
RunsAreCounted == provider = "registering" => mounting >= 1

\* Screens are there only under a provider that is ready, and with them the
\* cache's entries: without a native subscription nobody can miss a change.
ScreensNeedProvider ==
  provider # "ready" =>
    /\ \A k \in Keys : entries[k] = NoEntry
    /\ \A h \in Hooks : hook[h].phase = "off"
    /\ \A l \in Lists : list[l].phase = "off"

HooksAreKeyed == \A h \in Hooks : hook[h].phase # "off" => hook[h].key \in Keys

\* A rollback changes nothing but the tables written since BEGIN.
TouchedIsWhatChanged ==
  IF inTx THEN \A t \in Tables \ touched : saved[t] = live[t] ELSE touched = {}

BaseInv ==
  /\ TypeOK
  /\ RunsAreCounted
  /\ ScreensNeedProvider
  /\ ReadyMeansSubscribed
  /\ HooksAreKeyed
  /\ TouchedIsWhatChanged

\* An entry holds its table as it is once all changes have been told, unless
\* its query failed or it has missed one.
EntriesSeeWhatIs ==
  \A k \in Keys :
    entries[k] # NoEntry /\ k \notin missed /\ Quiet(TableOf[k])
      => entries[k].data = Fresh(k) \/ entries[k].error

\* Who listens to the entry of its key shows it.
ShownIsEntry ==
  \A h \in Hooks :
    hook[h].phase = "mounted" /\ hook[h].listens = hook[h].key
      => hook[h].shown = entries[hook[h].key].data

LiveInv ==
  /\ BaseInv
  /\ ListenersHaveEntries
  /\ EntriesSeeWhatIs
  /\ ShownIsEntry
  /\ ListsArePrefixes

(***************************************************************************)
(* Types, and what the database and the provider do.                       *)
(***************************************************************************)

LEMMA NothingTyped == NoHook \in Hook /\ NoList \in List /\ 0 \in Contents
<1>1. 0 \in Contents
  BY LiveQueriesAssumption DEF Contents
<1>2. NoHook \in Hook
  BY <1>1 DEF NoHook, Hook
<1>3. <<>> \in Seq([index : Nat, data : Contents])
  OBVIOUS
<1>4. NoList \in List
  BY <1>3 DEF NoList, List
<1> QED
  BY <1>1, <1>2, <1>4

LEMMA BaseInitially == Init => BaseInv
<1> SUFFICES ASSUME Init PROVE BaseInv
  OBVIOUS
<1> USE LiveQueriesAssumption
<1>1. TypeOK
  <2>1. /\ live \in [Tables -> Contents] /\ saved \in [Tables -> Contents]
        /\ entries \in [Keys -> {NoEntry} \cup Entry]
        /\ hook \in [Hooks -> Hook] /\ list \in [Lists -> List]
    BY NothingTyped DEF Init
  <2>2. inbox \in Seq(SUBSET Tables)
    BY DEF Init
  <2>3. clock \in 0..MaxWrites /\ mounts \in 0..MaxMounts /\ faults \in 0..MaxFaults
    BY DEF Init
  <2> QED
    BY <2>1, <2>2, <2>3 DEF Init, TypeOK
<1> QED
  BY <1>1 DEF Init, BaseInv, RunsAreCounted, ScreensNeedProvider, ReadyMeansSubscribed, HooksAreKeyed,
         TouchedIsWhatChanged, NoHook, NoList

\* A new entry is one, with what its table holds now.
LEMMA NewEntryFacts ==
  ASSUME TypeOK, NEW k \in Keys
  PROVE  /\ NewEntry(k) \in Entry /\ NewEntry(k) # NoEntry
         /\ NewEntry(k).data = Fresh(k) /\ NewEntry(k).listeners = {}
         /\ Fresh(k) \in Contents
<1>1. Fresh(k) \in Contents
  BY LiveQueriesAssumption DEF TypeOK, Fresh
<1>2. NewEntry(k) \in Entry
  BY <1>1 DEF NewEntry, Entry
<1> QED
  BY <1>1, <1>2, EntryAssumption DEF NewEntry

LEMMA GetOrCreateFacts ==
  ASSUME TypeOK, NEW k \in Keys
  PROVE  /\ GetOrCreate(entries, k) \in [Keys -> {NoEntry} \cup Entry]
         /\ GetOrCreate(entries, k)[k] \in Entry
         /\ GetOrCreate(entries, k)[k] =
              (IF entries[k] = NoEntry THEN NewEntry(k) ELSE entries[k])
         /\ \A j \in Keys \ {k} : GetOrCreate(entries, k)[j] = entries[j]
BY NewEntryFacts DEF TypeOK, GetOrCreate

\* A list changes in its staleness alone.
LEMMA StaleTyped ==
  ASSUME NEW r \in List, NEW more \in BOOLEAN
  PROVE  LET d == [r EXCEPT !.stale = @ \/ more]
         IN  /\ d \in List /\ d.phase = r.phase /\ d.pages = r.pages /\ d.count = r.count
             /\ d.gap = r.gap
             /\ d.stale <=> r.stale \/ more
<1> DEFINE b == r.stale \/ more
<1>1. b \in BOOLEAN
  OBVIOUS
<1>2. [r EXCEPT !.stale = b] \in List
  <2> HIDE DEF b
  <2> QED
    BY <1>1 DEF List
<1>3. /\ [r EXCEPT !.stale = b].phase = r.phase /\ [r EXCEPT !.stale = b].pages = r.pages
      /\ [r EXCEPT !.stale = b].count = r.count /\ [r EXCEPT !.stale = b].gap = r.gap
      /\ [r EXCEPT !.stale = b].stale = b
  <2> HIDE DEF b
  <2> QED
    BY DEF List
<1> QED
  BY <1>2, <1>3

\* A list changes in its gap alone.
LEMMA GapTyped ==
  ASSUME NEW r \in List, NEW more \in BOOLEAN
  PROVE  LET d == [r EXCEPT !.gap = more]
         IN  /\ d \in List /\ d.phase = r.phase /\ d.pages = r.pages /\ d.count = r.count
             /\ d.gap = more
BY DEF List

\* A step of the database leaves every screen alone.
LEMMA DbBase ==
  ASSUME BaseInv, (\E t \in Tables : Write(t)) \/ Begin \/ Commit \/ Rollback
  PROVE  BaseInv'
<1> USE LiveQueriesAssumption
<1>0. /\ live \in [Tables -> Contents] /\ saved \in [Tables -> Contents] /\ inTx \in BOOLEAN
      /\ touched \in SUBSET Tables /\ inbox \in Seq(SUBSET Tables)
      /\ entries \in [Keys -> {NoEntry} \cup Entry] /\ hook \in [Hooks -> Hook]
      /\ list \in [Lists -> List] /\ missed \in SUBSET Keys /\ clock \in 0..MaxWrites
      /\ TouchedIsWhatChanged
  BY DEF BaseInv, TypeOK
<1>1. /\ UNCHANGED <<providerVars, entries, hook, mounts, faults>>
      /\ missed' \in SUBSET Keys
      /\ list' = list \/ list' = [l \in Lists |-> [list[l] EXCEPT !.stale = @ \/ ListTable \in touched]]
  BY <1>0 DEF Write, Begin, Commit, Rollback, screenVars
<1>2. /\ live' \in [Tables -> Contents] /\ saved' \in [Tables -> Contents] /\ inTx' \in BOOLEAN
      /\ touched' \in SUBSET Tables /\ clock' \in 0..MaxWrites
  <2>1. ASSUME NEW t \in Tables, Write(t)
        PROVE  /\ live' \in [Tables -> Contents] /\ saved' \in [Tables -> Contents] /\ inTx' \in BOOLEAN
               /\ touched' \in SUBSET Tables /\ clock' \in 0..MaxWrites
    <3>1. clock' \in 0..MaxWrites /\ clock' \in Contents
      BY <1>0, <2>1 DEF Write, Contents
    <3> QED
      BY <1>0, <2>1, <3>1 DEF Write
  <2>2. CASE Begin \/ Commit \/ Rollback
    BY <1>0, <2>2 DEF Begin, Commit, Rollback
  <2> QED
    BY <2>1, <2>2
<1>3. inbox' \in Seq(SUBSET Tables)
  <2>1. inbox' = inbox \/ \E T \in SUBSET Tables : inbox' = Append(inbox, T)
    BY <1>0 DEF Write, Begin, Commit, Rollback, Notify
  <2> QED
    BY <1>0, <2>1
<1>4. /\ list' \in [Lists -> List]
      /\ \A l \in Lists : list'[l].phase = list[l].phase
  <2> DEFINE more == ListTable \in touched
  <2>1. CASE list' = [l \in Lists |-> [list[l] EXCEPT !.stale = @ \/ more]]
    <3>1. more \in BOOLEAN
      OBVIOUS
    <3> HIDE DEF more
    <3> DEFINE d(l) == [list[l] EXCEPT !.stale = @ \/ more]
    <3>2. ASSUME NEW l \in Lists PROVE d(l) \in List /\ d(l).phase = list[l].phase
      BY <1>0, <3>1, StaleTyped
    <3>3. list' = [l \in Lists |-> d(l)]
      BY <2>1
    <3> HIDE DEF d
    <3> QED
      BY <3>2, <3>3
  <2> QED
    BY <1>0, <1>1, <2>1
<1>5. TouchedIsWhatChanged'
  <2>1. ASSUME NEW t \in Tables, Write(t)
        PROVE  TouchedIsWhatChanged'
    BY <1>0, <2>1 DEF Write, TouchedIsWhatChanged
  <2>2. CASE Begin \/ Commit \/ Rollback
    BY <1>0, <2>2 DEF Begin, Commit, Rollback, TouchedIsWhatChanged
  <2> QED
    BY <2>1, <2>2
<1>6. TypeOK'
  BY <1>1, <1>2, <1>3, <1>4, <1>0 DEF BaseInv, TypeOK, providerVars
<1>7. (RunsAreCounted /\ ScreensNeedProvider /\ ReadyMeansSubscribed /\ HooksAreKeyed)'
  BY <1>1, <1>4 DEF BaseInv, providerVars, RunsAreCounted, ScreensNeedProvider, ReadyMeansSubscribed,
     HooksAreKeyed
<1> QED
  BY <1>5, <1>6, <1>7 DEF BaseInv

\* The steps of the other kinds leave the database alone.
LEMMA TouchedKept ==
  ASSUME BaseInv, UNCHANGED dbVars
  PROVE  /\ TouchedIsWhatChanged'
         /\ live' \in [Tables -> Contents] /\ saved' \in [Tables -> Contents] /\ inTx' \in BOOLEAN
         /\ touched' \in SUBSET Tables /\ clock' \in 0..MaxWrites
BY DEF BaseInv, TypeOK, TouchedIsWhatChanged, dbVars

LEMMA MountCounts ==
  ASSUME TypeOK
  PROVE  /\ mounts < MaxMounts => mounts + 1 \in 0..MaxMounts
         /\ faults < MaxFaults => faults + 1 \in 0..MaxFaults
BY LiveQueriesAssumption DEF TypeOK

\* However providers come and go, the run of the one that registers is counted,
\* and only the last to go takes the subscription with it.
LEMMA ProviderBase ==
  ASSUME BaseInv, Provide
  PROVE  BaseInv'
<1>0. TypeOK
  BY DEF BaseInv
<1> DEFINE Run == MountProvider \/ Ready \/ RegistrationFails \/ CancelledRunEnds \/ CancelledRunFails
<1>1. UNCHANGED <<dbVars, inbox>> /\ faults' \in 0..MaxFaults
  <2>1. /\ UNCHANGED <<dbVars, inbox>>
        /\ faults' = faults \/ (faults < MaxFaults /\ faults' = faults + 1)
    BY DEF Provide, MountProvider, Ready, RegistrationFails, CancelledRunEnds, CancelledRunFails,
       UnmountProvider, screenVars
  <2>2. faults \in 0..MaxFaults
    BY <1>0 DEF TypeOK
  <2> QED
    BY <1>0, <2>1, <2>2, MountCounts
<1>2. /\ TouchedIsWhatChanged'
      /\ live' \in [Tables -> Contents] /\ saved' \in [Tables -> Contents] /\ inTx' \in BOOLEAN
      /\ touched' \in SUBSET Tables /\ clock' \in 0..MaxWrites
  BY <1>1, TouchedKept
<1>3. CASE Run
  <2>1. UNCHANGED <<entries, hook, list, missed>> /\ mounts' \in 0..MaxMounts
    BY <1>0, <1>3, LiveQueriesAssumption
       DEF MountProvider, Ready, RegistrationFails, CancelledRunEnds, CancelledRunFails, screenVars, TypeOK
  <2>2. /\ provider' \in {"off", "registering", "ready", "failed"} /\ mounting' \in Nat
        /\ native' \in BOOLEAN /\ RunsAreCounted'
    <3>1. /\ provider \in {"off", "registering", "ready", "failed"} /\ mounting \in Nat
          /\ native \in BOOLEAN
          /\ provider = "registering" => mounting >= 1
      BY <1>0 DEF TypeOK, BaseInv, RunsAreCounted
    <3>2. CASE MountProvider
      BY <3>1, <3>2 DEF MountProvider, RunsAreCounted
    <3>3. CASE Ready
      BY <3>1, <3>3 DEF Ready, RunsAreCounted
    <3>4. CASE RegistrationFails
      BY <3>1, <3>4 DEF RegistrationFails, RunsAreCounted
    <3>5. CASE CancelledRunEnds
      BY <3>1, <3>5 DEF CancelledRunEnds, RunsAreCounted
    <3>6. CASE CancelledRunFails
      BY <3>1, <3>6 DEF CancelledRunFails, RunsAreCounted
    <3> QED
      BY <1>3, <3>2, <3>3, <3>4, <3>5, <3>6
  <2>3. TypeOK'
    BY <1>0, <1>1, <1>2, <2>1, <2>2 DEF TypeOK
  <2>4. ScreensNeedProvider' /\ HooksAreKeyed'
    BY <1>3, <2>1 DEF MountProvider, Ready, RegistrationFails, CancelledRunEnds, CancelledRunFails,
       BaseInv, ScreensNeedProvider, HooksAreKeyed
  <2>5. ReadyMeansSubscribed'
    BY <1>3 DEF MountProvider, Ready, RegistrationFails, CancelledRunEnds, CancelledRunFails,
       BaseInv, ReadyMeansSubscribed
  <2> QED
    BY <1>2, <2>2, <2>3, <2>4, <2>5 DEF BaseInv
<1>4. CASE UnmountProvider
  <2>1. /\ provider' = "off" /\ native' = FALSE /\ missed' = {}
        /\ entries' = [k \in Keys |-> NoEntry]
        /\ hook' = [h \in Hooks |-> NoHook]
        /\ list' = [l \in Lists |-> NoList]
        /\ mounts' = mounts /\ mounting' = mounting
    BY <1>4 DEF UnmountProvider
  <2>3. TypeOK'
    BY <1>0, <1>1, <1>2, <2>1, NothingTyped DEF TypeOK
  <2>4. (ScreensNeedProvider /\ HooksAreKeyed /\ ReadyMeansSubscribed /\ RunsAreCounted)'
    BY <2>1 DEF ScreensNeedProvider, HooksAreKeyed, ReadyMeansSubscribed, RunsAreCounted, NoHook, NoList
  <2> QED
    BY <1>2, <2>3, <2>4 DEF BaseInv
<1> QED
  BY <1>3, <1>4 DEF Provide

(***************************************************************************)
(* What the screens do, by what it does to entries, hooks and lists.       *)
(***************************************************************************)

\* A step of the screens: types and keys are all that has to be shown.
LEMMA ScreenBase ==
  ASSUME BaseInv, UNCHANGED <<dbVars, inbox, providerVars>>, provider = "ready",
         entries' \in [Keys -> {NoEntry} \cup Entry], hook' \in [Hooks -> Hook],
         list' \in [Lists -> List], missed' \in SUBSET Keys,
         mounts' \in 0..MaxMounts, faults' \in 0..MaxFaults,
         HooksAreKeyed'
  PROVE  BaseInv'
<1>1. TypeOK'
  BY TouchedKept DEF BaseInv, TypeOK, providerVars
<1>2. (RunsAreCounted /\ ScreensNeedProvider /\ ReadyMeansSubscribed)'
  BY DEF BaseInv, RunsAreCounted, ScreensNeedProvider, ReadyMeansSubscribed, providerVars
<1> QED
  BY <1>1, <1>2, TouchedKept DEF BaseInv

\* Where a component is, the provider is ready.
LEMMA ScreensAreUnderReady ==
  ASSUME BaseInv
  PROVE  /\ \A h \in Hooks : hook[h].phase # "off" => provider = "ready" /\ hook[h].key \in Keys
         /\ \A l \in Lists : list[l].phase # "off" => provider = "ready"
         /\ \A k \in Keys : entries[k] # NoEntry => provider = "ready"
BY DEF BaseInv, ScreensNeedProvider, HooksAreKeyed

\* The hook h renders with key k: it shows what k's entry holds, which is there
\* afterwards.
Renders(h, k) ==
  /\ k \in Keys /\ h \in Hooks /\ provider = "ready"
  /\ UNCHANGED <<dbVars, inbox, providerVars, list, faults>>
  /\ entries' \in [Keys -> {NoEntry} \cup Entry] /\ entries'[k] \in Entry
  /\ entries'[k] = IF entries[k] = NoEntry THEN NewEntry(k) ELSE entries[k]
  /\ \A j \in Keys \ {k} : entries'[j] = entries[j]
  /\ hook' \in [Hooks -> Hook]
  /\ \A g \in Hooks \ {h} : hook'[g] = hook[g]
  /\ hook'[h].key = k /\ hook'[h].shown = entries'[k].data
  /\ hook'[h].phase \in {"rendered", "mounted"} /\ hook'[h].listens = hook[h].listens
  /\ missed' = IF entries[k] = NoEntry THEN missed \ {k} ELSE missed
  /\ mounts' \in 0..MaxMounts

LEMMA RenderFacts ==
  ASSUME BaseInv, NEW h \in Hooks, NEW k \in Keys, Render(h, k)
  PROVE  Renders(h, k) /\ hook'[h].phase = "rendered"
<1>1. TypeOK
  BY DEF BaseInv
<1>2. entries' = GetOrCreate(entries, k)
  BY DEF Render
<1>3. entries'[k] \in Entry /\ entries'[k].data \in Contents
  BY <1>1, <1>2, GetOrCreateFacts DEF Entry
<1>4. hook[h].listens \in {NoKey} \cup Keys
  BY <1>1 DEF TypeOK, Hook
<1>5. hook' = [hook EXCEPT ![h] = [phase |-> "rendered", key |-> k, listens |-> hook[h].listens,
                                   shown |-> entries'[k].data]]
  BY <1>1 DEF Render, TypeOK
<1>6. [phase |-> "rendered", key |-> k, listens |-> hook[h].listens,
       shown |-> entries'[k].data] \in Hook
  BY <1>3, <1>4 DEF Hook
<1>7. /\ hook' \in [Hooks -> Hook]
      /\ \A g \in Hooks \ {h} : hook'[g] = hook[g]
      /\ hook'[h].key = k /\ hook'[h].shown = entries'[k].data
      /\ hook'[h].phase = "rendered" /\ hook'[h].listens = hook[h].listens
  BY <1>1, <1>5, <1>6 DEF TypeOK
<1>8. mounts' \in 0..MaxMounts
  BY <1>1, MountCounts DEF Render
<1> QED
  BY <1>1, <1>2, <1>3, <1>7, <1>8, GetOrCreateFacts DEF Render, Renders

LEMMA RerenderFacts ==
  ASSUME BaseInv, NEW h \in Hooks, Rerender(h)
  PROVE  Renders(h, hook[h].key) /\ hook'[h].listens = NoKey
<1> DEFINE k == hook[h].key
<1>1. TypeOK /\ k \in Keys /\ provider = "ready"
  BY ScreensAreUnderReady DEF BaseInv, Rerender
<1>2. entries' = GetOrCreate(entries, k) /\ hook' = [hook EXCEPT ![h].shown = entries'[k].data]
  BY DEF Rerender
<1>3. entries'[k] \in Entry /\ entries'[k].data \in Contents
  BY <1>1, <1>2, GetOrCreateFacts DEF Entry
<1>4. /\ hook' \in [Hooks -> Hook]
      /\ \A g \in Hooks \ {h} : hook'[g] = hook[g]
      /\ hook'[h].key = k /\ hook'[h].shown = entries'[k].data
      /\ hook'[h].phase = "mounted" /\ hook'[h].listens = hook[h].listens /\ hook[h].listens = NoKey
  BY <1>1, <1>2, <1>3 DEF TypeOK, Hook, Rerender
<1>5. mounts' \in 0..MaxMounts
  BY <1>1 DEF Rerender, TypeOK
<1> HIDE DEF k
<1>6. /\ UNCHANGED <<dbVars, inbox, providerVars, list, faults>>
      /\ missed' = IF entries[k] = NoEntry THEN missed \ {k} ELSE missed
  BY DEF Rerender, k
<1> QED
  BY <1>1, <1>2, <1>3, <1>4, <1>5, <1>6, GetOrCreateFacts DEF Renders, k

LEMMA RendersBase ==
  ASSUME BaseInv, NEW h, NEW k, Renders(h, k)
  PROVE  BaseInv'
<1>1. TypeOK /\ HooksAreKeyed
  BY DEF BaseInv
<1>2. HooksAreKeyed'
  BY <1>1 DEF Renders, HooksAreKeyed
<1>3. list' \in [Lists -> List] /\ missed' \in SUBSET Keys /\ faults' \in 0..MaxFaults
  BY <1>1 DEF Renders, TypeOK
<1> QED
  BY <1>2, <1>3, ScreenBase DEF Renders

\* A hook that leaves before it listens, or is about to leave.
LEMMA GoneBase ==
  ASSUME BaseInv, NEW h \in Hooks, Abandon(h) \/ Leave(h)
  PROVE  /\ BaseInv'
         /\ UNCHANGED <<dbVars, inbox, providerVars, entries, list, missed>>
         /\ \A g \in Hooks \ {h} : hook'[g] = hook[g]
         /\ hook'[h].phase # "mounted" /\ hook'[h].listens = hook[h].listens
<1>1. TypeOK /\ HooksAreKeyed
  BY DEF BaseInv
<1>2. /\ UNCHANGED <<dbVars, inbox, providerVars, entries, list, missed, mounts, faults>>
      /\ hook[h].phase # "off"
  BY DEF Abandon, Leave
<1>3. /\ hook' \in [Hooks -> Hook]
      /\ \A g \in Hooks \ {h} : hook'[g] = hook[g]
      /\ hook'[h].phase \in {"off", "leaving"} /\ hook'[h].listens = hook[h].listens
      /\ hook'[h].phase # "off" => hook'[h].key = hook[h].key
  <2>1. CASE Abandon(h)
    BY <1>1, <2>1, NothingTyped DEF Abandon, TypeOK, NoHook
  <2>2. CASE Leave(h)
    BY <1>1, <2>2 DEF Leave, TypeOK, Hook
  <2> QED
    BY <2>1, <2>2
<1>4. HooksAreKeyed'
  BY <1>1, <1>2, <1>3 DEF HooksAreKeyed
<1>5. provider = "ready"
  BY <1>2, ScreensAreUnderReady
<1>6. BaseInv'
  <2>1. /\ entries' \in [Keys -> {NoEntry} \cup Entry] /\ list' \in [Lists -> List]
        /\ missed' \in SUBSET Keys /\ mounts' \in 0..MaxMounts /\ faults' \in 0..MaxFaults
    BY <1>1, <1>2 DEF TypeOK
  <2> QED
    BY <1>2, <1>3, <1>4, <1>5, <2>1, ScreenBase
<1> QED
  BY <1>2, <1>3, <1>6

(***************************************************************************)
(* The effects of a commit: cleanups, then subscriptions.                  *)
(***************************************************************************)

Going(k) == {h \in Hooks : hook[h].phase \in {"rendered", "leaving"} /\ hook[h].listens = k}
Coming(k) == {h \in Hooks : hook[h].phase = "rendered" /\ hook[h].key = k}

\* When the subscriptions are made, the key has no entry.
Emptied(k) ==
  \/ entries[k] = NoEntry
  \/ Going(k) # {} /\ entries[k].listeners \subseteq Going(k)

Listened(e, L) == [e EXCEPT !.listeners = L]

LEMMA ListenedFacts ==
  ASSUME NEW e \in Entry, NEW L \in SUBSET Hooks
  PROVE  /\ Listened(e, L) \in Entry /\ Listened(e, L) # NoEntry
         /\ Listened(e, L).data = e.data /\ Listened(e, L).error = e.error
         /\ Listened(e, L).listeners = L
         /\ Listened(e, e.listeners) = e
         /\ \A M \in SUBSET Hooks : Listened(Listened(e, L), M) = Listened(e, M)
<1>1. Listened(e, L) \in Entry
  BY DEF Listened, Entry
<1>2. Listened(e, L).data = e.data /\ Listened(e, L).error = e.error /\ Listened(e, L).listeners = L
  BY DEF Listened, Entry
<1>3. Listened(e, e.listeners) = e
  BY DEF Listened, Entry
<1>4. \A M \in SUBSET Hooks : Listened(Listened(e, L), M) = Listened(e, M)
  BY DEF Listened, Entry
<1> QED
  BY <1>1, <1>2, <1>3, <1>4, EntryAssumption

LEMMA EffectsFacts ==
  ASSUME BaseInv, Effects
  PROVE  /\ provider = "ready"
         /\ \A k \in Keys :
              entries'[k] = IF Emptied(k)
                            THEN IF Coming(k) = {} THEN NoEntry ELSE NewEntry(k)
                            ELSE Listened(entries[k], (entries[k].listeners \ Going(k)) \cup Coming(k))
         /\ \A h \in Hooks :
              hook'[h] = CASE hook[h].phase = "leaving" -> NoHook
                           [] hook[h].phase = "rendered" ->
                                [phase |-> "mounted", key |-> hook[h].key,
                                 shown |-> entries'[hook[h].key].data,
                                 listens |-> IF Emptied(hook[h].key) THEN NoKey ELSE hook[h].key]
                           [] OTHER -> hook[h]
         /\ missed' = (missed \ {k \in Keys : entries'[k] = NoEntry})
                        \ {k \in Keys : Emptied(k) /\ Coming(k) # {}}
<1> DEFINE coming  == {h \in Hooks : hook[h].phase = "rendered"}
           leaving == {h \in Hooks : hook[h].phase = "leaving"}
           cleaned == Unsubscribed(coming \cup leaving)
           joined  == Subscribed(cleaned, coming)
           again   == {hook[h].key : h \in {z \in coming : cleaned[hook[z].key] = NoEntry}}
<1>1. /\ coming \cup leaving # {}
      /\ entries' = [k \in Keys |-> IF k \in again THEN NewEntry(k) ELSE joined[k]]
      /\ hook' = [h \in Hooks |->
           IF h \in leaving THEN NoHook
           ELSE IF h \notin coming THEN hook[h]
           ELSE [phase |-> "mounted", key |-> hook[h].key, shown |-> entries'[hook[h].key].data,
                 listens |-> IF hook[h].key \in again THEN NoKey ELSE hook[h].key]]
      /\ missed' = (missed \ {k \in Keys : entries'[k] = NoEntry}) \ again
  BY DEF Effects
<1>2. /\ entries \in [Keys -> {NoEntry} \cup Entry]
      /\ \A h \in coming : hook[h].key \in Keys
  BY ScreensAreUnderReady DEF BaseInv, TypeOK
<1>3. ASSUME NEW k \in Keys
      PROVE  {h \in coming \cup leaving : hook[h].listens = k} = Going(k)
  BY DEF Going
<1>4. ASSUME NEW k \in Keys
      PROVE  /\ {h \in coming : hook[h].key = k} = Coming(k)
             /\ Coming(k) # {} <=> \E h \in coming : hook[h].key = k
  BY DEF Coming
<1>5. ASSUME NEW k \in Keys
      PROVE  cleaned[k] = IF Emptied(k) THEN NoEntry
                          ELSE Listened(entries[k], entries[k].listeners \ Going(k))
  <2> DEFINE going == {h \in coming \cup leaving : hook[h].listens = k}
  <2>1. cleaned[k] = CASE entries[k] = NoEntry \/ going = {} -> entries[k]
                       [] OTHER -> IF entries[k].listeners \subseteq going THEN NoEntry
                                   ELSE Listened(entries[k], entries[k].listeners \ going)
    BY DEF Unsubscribed, Listened
  <2>2. going = Going(k)
    BY <1>3
  <2> HIDE DEF going, cleaned
  <2>3. CASE entries[k] = NoEntry
    BY <2>1, <2>3 DEF Emptied
  <2>4. CASE entries[k] # NoEntry
    <3>1. entries[k] \in Entry
      BY <1>2, <2>4
    <3>2. CASE going = {}
      <4>1. entries[k].listeners \ going = entries[k].listeners
        BY <3>2
      <4>2. entries[k] = Listened(entries[k], entries[k].listeners \ going)
        BY <3>1, <4>1, ListenedFacts DEF Entry
      <4> QED
        BY <2>1, <2>2, <2>4, <3>2, <4>2 DEF Emptied
    <3>3. CASE going # {}
      BY <2>1, <2>2, <2>4, <3>3 DEF Emptied
    <3> QED
      BY <3>2, <3>3
  <2> QED
    BY <2>3, <2>4
<1>6. ASSUME NEW k \in Keys
      PROVE  ~Emptied(k) => cleaned[k] # NoEntry
  <2> SUFFICES ASSUME ~Emptied(k) PROVE cleaned[k] # NoEntry
    OBVIOUS
  <2>1. entries[k] \in Entry /\ entries[k].listeners \ Going(k) \in SUBSET Hooks
    BY <1>2 DEF Emptied, Entry
  <2>2. cleaned[k] = Listened(entries[k], entries[k].listeners \ Going(k))
    BY <1>5
  <2> HIDE DEF cleaned
  <2> QED
    BY <2>1, <2>2, ListenedFacts
<1>7. ASSUME NEW k \in Keys
      PROVE  k \in again <=> Emptied(k) /\ Coming(k) # {}
  <2>1. k \in again <=> cleaned[k] = NoEntry /\ \E h \in coming : hook[h].key = k
    <3> HIDE DEF cleaned, coming
    <3> QED
      OBVIOUS
  <2>2. cleaned[k] = NoEntry <=> Emptied(k)
    BY <1>5, <1>6
  <2> QED
    BY <1>4, <2>1, <2>2
<1>8. ASSUME NEW k \in Keys
      PROVE  joined[k] = IF Emptied(k) THEN NoEntry
                         ELSE Listened(entries[k], (entries[k].listeners \ Going(k)) \cup Coming(k))
  <2>1. joined[k] = IF cleaned[k] = NoEntry THEN NoEntry
                    ELSE Listened(cleaned[k], cleaned[k].listeners \cup {h \in coming : hook[h].key = k})
    BY DEF Subscribed, Listened
  <2>2. CASE Emptied(k)
    <3> HIDE DEF cleaned, joined, coming
    <3> QED
      BY <1>5, <2>1, <2>2
  <2>3. CASE ~Emptied(k)
    <3> HIDE DEF cleaned, joined, coming
    <3> DEFINE L == entries[k].listeners \ Going(k)
    <3>1. entries[k] \in Entry /\ L \in SUBSET Hooks /\ L \cup Coming(k) \in SUBSET Hooks
      BY <1>2, <2>3 DEF Emptied, Entry, Coming
    <3>2. cleaned[k] = Listened(entries[k], L) /\ cleaned[k] # NoEntry
      BY <1>5, <1>6, <2>3
    <3>3. joined[k] = Listened(cleaned[k], cleaned[k].listeners \cup Coming(k))
      BY <1>4, <2>1, <3>2
    <3> HIDE DEF L
    <3>4. joined[k] = Listened(Listened(entries[k], L), L \cup Coming(k))
      <4>1. Listened(entries[k], L).listeners = L
        BY <3>1, ListenedFacts
      <4>2. cleaned[k].listeners = L
        BY <3>2, <4>1
      <4> QED
        BY <3>2, <3>3, <4>2
    <3>5. joined[k] = Listened(entries[k], L \cup Coming(k))
      BY <3>1, <3>4, ListenedFacts
    <3> QED
      BY <2>3, <3>5 DEF L
  <2> QED
    BY <2>2, <2>3
<1>9. provider = "ready"
  BY <1>1, ScreensAreUnderReady
<1>10. ASSUME NEW k \in Keys
       PROVE  entries'[k] = IF Emptied(k)
                            THEN IF Coming(k) = {} THEN NoEntry ELSE NewEntry(k)
                            ELSE Listened(entries[k], (entries[k].listeners \ Going(k)) \cup Coming(k))
  <2>1. entries'[k] = IF k \in again THEN NewEntry(k) ELSE joined[k]
    BY <1>1
  <2> HIDE DEF again, joined
  <2> QED
    BY <1>7, <1>8, <2>1
<1>11. again = {k \in Keys : Emptied(k) /\ Coming(k) # {}}
  <2>1. again \subseteq Keys
    BY <1>2
  <2> HIDE DEF again
  <2> QED
    BY <1>7, <2>1
<1>12. ASSUME NEW h \in Hooks
       PROVE  hook'[h] = CASE hook[h].phase = "leaving" -> NoHook
                           [] hook[h].phase = "rendered" ->
                                [phase |-> "mounted", key |-> hook[h].key,
                                 shown |-> entries'[hook[h].key].data,
                                 listens |-> IF Emptied(hook[h].key) THEN NoKey ELSE hook[h].key]
                           [] OTHER -> hook[h]
  <2>1. hook'[h] = IF h \in leaving THEN NoHook
                   ELSE IF h \notin coming THEN hook[h]
                   ELSE [phase |-> "mounted", key |-> hook[h].key,
                         shown |-> entries'[hook[h].key].data,
                         listens |-> IF hook[h].key \in again THEN NoKey ELSE hook[h].key]
    BY <1>1
  <2>2. h \in coming => hook[h].key \in Keys /\ (hook[h].key \in again <=> Emptied(hook[h].key))
    <3> SUFFICES ASSUME h \in coming
                 PROVE  hook[h].key \in Keys /\ (hook[h].key \in again <=> Emptied(hook[h].key))
      OBVIOUS
    <3>1. hook[h].key \in Keys /\ Coming(hook[h].key) # {}
      BY <1>2 DEF Coming
    <3> QED
      BY <1>7, <3>1
  <2>3. /\ h \in leaving <=> hook[h].phase = "leaving"
        /\ h \in coming <=> hook[h].phase = "rendered"
    OBVIOUS
  <2> HIDE DEF again, coming, leaving
  <2> QED
    BY <2>1, <2>2, <2>3
<1> QED
  BY <1>1, <1>9, <1>10, <1>11, <1>12

LEMMA EffectsBase == ASSUME BaseInv, Effects PROVE BaseInv'
<1>1. TypeOK /\ HooksAreKeyed
  BY DEF BaseInv
<1>2. /\ UNCHANGED <<dbVars, inbox, providerVars, list, mounts, faults>>
      /\ entries' = [k \in Keys |-> entries'[k]] /\ hook' = [h \in Hooks |-> hook'[h]]
  BY DEF Effects
<1>3. ASSUME NEW k \in Keys
      PROVE  entries'[k] \in {NoEntry} \cup Entry /\ (Coming(k) # {} => entries'[k] \in Entry)
  <2>1. CASE Emptied(k)
    BY <1>1, <2>1, EffectsFacts, NewEntryFacts
  <2>2. CASE ~Emptied(k)
    <3>1. entries[k] \in Entry
      BY <1>1, <2>2 DEF Emptied, TypeOK
    <3>2. (entries[k].listeners \ Going(k)) \cup Coming(k) \in SUBSET Hooks
      BY <3>1 DEF Coming, Entry
    <3>3. entries'[k] = Listened(entries[k], (entries[k].listeners \ Going(k)) \cup Coming(k))
      BY <2>2, EffectsFacts
    <3> QED
      BY <3>1, <3>2, <3>3, ListenedFacts
  <2> QED
    BY <2>1, <2>2
<1>4. ASSUME NEW h \in Hooks
      PROVE  hook'[h] \in Hook /\ (hook'[h].phase # "off" => hook'[h].key \in Keys)
  <2>0. hook[h] \in Hook
    BY <1>1 DEF TypeOK
  <2>1. CASE hook[h].phase = "leaving"
    <3>1. hook'[h] = NoHook
      BY <2>1, EffectsFacts
    <3> QED
      BY <3>1, NothingTyped DEF NoHook
  <2>2. CASE hook[h].phase = "rendered"
    <3>1. hook[h].key \in Keys
      BY <1>1, <2>2 DEF HooksAreKeyed
    <3>2. entries'[hook[h].key].data \in Contents
      <4>1. Coming(hook[h].key) # {}
        BY <2>2 DEF Coming
      <4>2. entries'[hook[h].key] \in Entry
        BY <1>3, <3>1, <4>1
      <4> QED
        BY <4>2 DEF Entry
    <3>3. hook'[h] = [phase |-> "mounted", key |-> hook[h].key,
                      shown |-> entries'[hook[h].key].data,
                      listens |-> IF Emptied(hook[h].key) THEN NoKey ELSE hook[h].key]
      BY <2>2, EffectsFacts
    <3> QED
      BY <3>1, <3>2, <3>3 DEF Hook
  <2>3. CASE hook[h].phase \notin {"leaving", "rendered"}
    <3>1. hook'[h] = hook[h]
      BY <2>3, EffectsFacts
    <3> QED
      BY <1>1, <2>0, <3>1 DEF HooksAreKeyed
  <2> QED
    BY <2>1, <2>2, <2>3
<1>5. entries' \in [Keys -> {NoEntry} \cup Entry] /\ hook' \in [Hooks -> Hook]
  BY <1>2, <1>3, <1>4
<1>6. HooksAreKeyed'
  BY <1>4 DEF HooksAreKeyed
<1>7. /\ list' \in [Lists -> List] /\ missed' \in SUBSET Keys
      /\ mounts' \in 0..MaxMounts /\ faults' \in 0..MaxFaults
  BY <1>1, <1>2, EffectsFacts DEF TypeOK
<1> QED
  BY <1>2, <1>5, <1>6, <1>7, EffectsFacts, ScreenBase

(***************************************************************************)
(* Lists.                                                                  *)
(***************************************************************************)

\* ListsArePrefixes, of one list.
IsPrefix(r) ==
  r.phase = "mounted" =>
    /\ Len(r.pages) <= r.count
    /\ ~r.gap => r.count = Len(r.pages)
    /\ \A i \in DOMAIN r.pages :
         /\ r.pages[i].index + Len(r.pages) = r.count + i - 1
         /\ ~r.stale /\ Quiet(ListTable) => r.pages[i].data = live[ListTable]

LEMMA PrefixOfEach == ListsArePrefixes <=> \A l \in Lists : IsPrefix(list[l])
BY DEF ListsArePrefixes, IsPrefix

LEMMA ReloadFacts ==
  ASSUME TypeOK, NEW r \in List
  PROVE  /\ Reloaded(r) \in List /\ Reloaded(r).phase = r.phase /\ IsPrefix(Reloaded(r))
         /\ Reloaded(r).count = Len(Reloaded(r).pages) /\ Len(Reloaded(r).pages) <= Reloaded(r).count
         /\ \A i \in DOMAIN Reloaded(r).pages :
              /\ Reloaded(r).pages[i].index + Len(Reloaded(r).pages) = Reloaded(r).count + i - 1
              /\ Reloaded(r).pages[i].data = live[ListTable]
         /\ ReloadFails(r) \in List /\ ReloadFails(r).phase = r.phase /\ IsPrefix(ReloadFails(r))
<1>1. live[ListTable] \in Contents
  BY LiveQueriesAssumption DEF TypeOK
<1> DEFINE pages == <<[index |-> 0, data |-> live[ListTable]]>>
           more == r.count > 0
<1>2. /\ pages \in Seq([index : Nat, data : Contents])
      /\ Len(pages) = 1 /\ DOMAIN pages = {1}
      /\ pages[1].index = 0 /\ pages[1].data = live[ListTable]
  BY <1>1
<1>3. <<>> \in Seq([index : Nat, data : Contents]) /\ Len(<<>>) = 0 /\ DOMAIN <<>> = {}
  OBVIOUS
<1>4. /\ r.count \in Nat /\ more \in BOOLEAN
      /\ ~more => r.count = 0
  BY DEF List
<1>5. /\ Reloaded(r) \in List /\ Reloaded(r).phase = r.phase
      /\ Reloaded(r).pages = pages /\ Reloaded(r).count = 1
  <2>1. Reloaded(r) = [r EXCEPT !.pages = pages, !.count = 1, !.error = FALSE, !.gap = FALSE,
                                !.stale = FALSE]
    BY DEF Reloaded
  <2> DEFINE g == [r EXCEPT !.pages = pages, !.count = 1]
  <2>2. pages \in Seq([index : Nat, data : Contents])
    BY <1>2
  <2> HIDE DEF pages
  <2>3. g \in List /\ g.phase = r.phase /\ g.pages = pages /\ g.count = 1
    BY <2>2 DEF List
  <2>4. Reloaded(r) = [g EXCEPT !.error = FALSE, !.gap = FALSE, !.stale = FALSE]
    BY <2>1 DEF List
  <2> HIDE DEF g
  <2> QED
    BY <2>3, <2>4 DEF List
<1>6. /\ Reloaded(r).count = Len(Reloaded(r).pages) /\ Len(Reloaded(r).pages) <= Reloaded(r).count
      /\ \A i \in DOMAIN Reloaded(r).pages :
           /\ Reloaded(r).pages[i].index + Len(Reloaded(r).pages) = Reloaded(r).count + i - 1
           /\ Reloaded(r).pages[i].data = live[ListTable]
  <2>1. Reloaded(r).pages = pages /\ Reloaded(r).count = 1
    BY <1>5
  <2>2. /\ Len(pages) = 1 /\ Len(pages) <= 1
        /\ \A i \in DOMAIN pages : pages[i].index + Len(pages) = 1 + i - 1 /\ pages[i].data = live[ListTable]
    <3> HIDE DEF pages
    <3> QED
      BY <1>2
  <2> HIDE DEF pages
  <2> QED
    BY <2>1, <2>2
<1>7. IsPrefix(Reloaded(r))
  BY <1>6 DEF IsPrefix
<1> DEFINE f == [r EXCEPT !.pages = <<>>, !.error = TRUE, !.stale = FALSE]
<1>8. f \in List /\ f.phase = r.phase /\ f.pages = <<>> /\ f.count = r.count
  BY <1>3 DEF List
<1>9. ReloadFails(r) = [f EXCEPT !.gap = more]
  <2>1. ReloadFails(r) = [r EXCEPT !.pages = <<>>, !.error = TRUE, !.gap = more, !.stale = FALSE]
    BY DEF ReloadFails
  <2> HIDE DEF more
  <2> QED
    BY <2>1 DEF List
<1>10. /\ ReloadFails(r) \in List /\ ReloadFails(r).phase = r.phase
       /\ ReloadFails(r).pages = <<>> /\ ReloadFails(r).count = r.count
       /\ ~ReloadFails(r).gap => r.count = 0
  <2> HIDE DEF f, more
  <2> QED
    BY <1>4, <1>8, <1>9, GapTyped
<1>11. IsPrefix(ReloadFails(r))
  BY <1>3, <1>4, <1>10 DEF IsPrefix
<1> QED
  BY <1>5, <1>6, <1>7, <1>10, <1>11

\* A page that is fetched is the next of its list.
LEMMA FetchFacts ==
  ASSUME BaseInv, NEW l \in Lists, NEW ok \in BOOLEAN, FetchNextPage(l, ok)
  PROVE  /\ list' \in [Lists -> List]
         /\ \A m \in Lists \ {l} : list'[m] = list[m]
         /\ list'[l].phase = list[l].phase
         /\ IsPrefix(list[l]) => IsPrefix(list'[l])
<1>1. list \in [Lists -> List] /\ live[ListTable] \in Contents
  BY LiveQueriesAssumption DEF BaseInv, TypeOK
<1> DEFINE r == list[l]
           page == [index |-> r.count, data |-> live[ListTable]]
<1>2. r \in List /\ r.count \in Nat /\ r.pages \in Seq([index : Nat, data : Contents])
  BY <1>1 DEF List
<1>3. page \in [index : Nat, data : Contents]
  BY <1>1, <1>2
<1>4. CASE ok
  <2> DEFINE n == [r EXCEPT !.pages = Append(r.pages, page), !.count = r.count + 1, !.error = FALSE]
  <2>1. list' = [list EXCEPT ![l] = n]
    BY <1>1, <1>4 DEF FetchNextPage, List
  <2> HIDE DEF page
  <2>2. /\ Append(r.pages, page) \in Seq([index : Nat, data : Contents])
        /\ r.count + 1 \in Nat
    BY <1>2, <1>3
  <2>3. /\ n \in List /\ n.phase = r.phase /\ n.gap = r.gap /\ n.stale = r.stale
        /\ n.pages = Append(r.pages, page) /\ n.count = r.count + 1
    BY <1>2, <2>2 DEF List
  <2>4. IsPrefix(r) => IsPrefix(n)
    <3> SUFFICES ASSUME IsPrefix(r), r.phase = "mounted"
                 PROVE  /\ Len(n.pages) <= n.count
                        /\ ~n.gap => n.count = Len(n.pages)
                        /\ \A i \in DOMAIN n.pages :
                             /\ n.pages[i].index + Len(n.pages) = n.count + i - 1
                             /\ ~n.stale /\ Quiet(ListTable) => n.pages[i].data = live[ListTable]
      BY <2>3 DEF IsPrefix
    <3>1. /\ Len(r.pages) <= r.count
          /\ ~r.gap => r.count = Len(r.pages)
          /\ \A i \in DOMAIN r.pages :
               /\ r.pages[i].index + Len(r.pages) = r.count + i - 1
               /\ ~r.stale /\ Quiet(ListTable) => r.pages[i].data = live[ListTable]
      BY DEF IsPrefix
    <3>2. /\ Len(n.pages) = Len(r.pages) + 1 /\ DOMAIN n.pages = 1..Len(r.pages) + 1
          /\ \A i \in 1..Len(r.pages) : n.pages[i] = r.pages[i]
          /\ n.pages[Len(r.pages) + 1] = page
          /\ Len(r.pages) \in Nat /\ DOMAIN r.pages = 1..Len(r.pages)
      BY <1>2, <1>3, <2>3
    <3>3. page.index = r.count /\ page.data = live[ListTable]
      BY DEF page
    <3>4. n.count = r.count + 1 /\ r.count \in Nat
      BY <1>2, <2>3
    <3>5. ASSUME NEW i \in 1..Len(r.pages) PROVE r.pages[i].index \in Nat
      <4> DEFINE P == [index : Nat, data : Contents]
                 q == r.pages
      <4>1. q \in Seq(P) /\ i \in 1..Len(q)
        BY <1>2
      <4> HIDE DEF P, q
      <4>2. q[i] \in P
        BY <4>1
      <4> USE DEF P, q
      <4> QED
        BY <4>2
    <3>6. n.gap = r.gap /\ n.stale = r.stale
      BY <2>3
    <3> HIDE DEF n, r
    <3>7. ASSUME NEW i \in DOMAIN n.pages
          PROVE  /\ n.pages[i].index + Len(n.pages) = n.count + i - 1
                 /\ ~n.stale /\ Quiet(ListTable) => n.pages[i].data = live[ListTable]
      <4>1. CASE i = Len(r.pages) + 1
        <5>1. n.pages[i].index = r.count /\ n.pages[i].data = live[ListTable]
          BY <3>2, <3>3, <4>1
        <5>2. Len(n.pages) = i /\ i \in Nat
          BY <3>2, <4>1
        <5>3. r.count + i = n.count + i - 1
          BY <3>4, <5>2
        <5> QED
          BY <5>1, <5>2, <5>3
      <4>2. CASE i \in 1..Len(r.pages)
        <5>1. n.pages[i] = r.pages[i] /\ i \in DOMAIN r.pages /\ r.pages[i].index \in Nat
          BY <3>2, <3>5, <4>2
        <5>2. r.pages[i].index + Len(r.pages) = r.count + i - 1
          BY <3>1, <5>1
        <5>3. n.pages[i].index + Len(n.pages) = n.count + i - 1
          <6> DEFINE x == r.pages[i].index
                     m == Len(r.pages)
                     c == r.count
          <6>1. /\ x \in Nat /\ m \in Nat /\ c \in Nat /\ i \in Nat /\ x + m = c + i - 1
                /\ n.pages[i].index = x /\ Len(n.pages) = m + 1 /\ n.count = c + 1
            BY <3>2, <3>4, <4>2, <5>1, <5>2
          <6> HIDE DEF x, m, c
          <6> QED
            BY <6>1
        <5>4. ~n.stale /\ Quiet(ListTable) => n.pages[i].data = live[ListTable]
          BY <3>1, <3>6, <5>1
        <5> QED
          BY <5>3, <5>4
      <4> QED
        BY <3>2, <4>1, <4>2
    <3>8. Len(n.pages) <= n.count /\ (r.count = Len(r.pages) => n.count = Len(n.pages))
      BY <3>1, <3>2, <3>4
    <3> QED
      BY <3>1, <3>7, <3>6, <3>8
  <2> HIDE DEF n
  <2> QED
    BY <1>1, <2>1, <2>3, <2>4
<1>5. CASE ~ok
  <2> DEFINE n == [r EXCEPT !.error = TRUE]
  <2>1. list' = [list EXCEPT ![l] = n]
    BY <1>1, <1>5 DEF FetchNextPage, List
  <2>2. /\ n \in List /\ n.phase = r.phase /\ n.gap = r.gap /\ n.stale = r.stale
        /\ n.pages = r.pages /\ n.count = r.count
    BY <1>2 DEF List
  <2>3. IsPrefix(r) => IsPrefix(n)
    BY <2>2 DEF IsPrefix
  <2> HIDE DEF n
  <2> QED
    BY <1>1, <2>1, <2>2, <2>3
<1> QED
  BY <1>4, <1>5

\* What a list does leaves everything else alone, and it a list of first pages.
LEMMA ListFacts ==
  ASSUME BaseInv, NEW l \in Lists,
         UnmountList(l) \/ \E ok \in BOOLEAN :
           MountList(l, ok) \/ RekeyList(l, ok) \/ FetchNextPage(l, ok)
  PROVE  /\ BaseInv'
         /\ UNCHANGED <<dbVars, inbox, providerVars, entries, hook, missed>>
         /\ \A m \in Lists \ {l} : list'[m] = list[m]
         /\ IsPrefix(list[l]) => IsPrefix(list'[l])
<1>1. TypeOK
  BY DEF BaseInv
<1>2. list \in [Lists -> List] /\ mounts \in 0..MaxMounts /\ faults \in 0..MaxFaults
  BY <1>1 DEF TypeOK
<1>3. /\ UNCHANGED <<dbVars, inbox, providerVars, entries, hook, missed>>
      /\ provider = "ready"
  BY ScreensAreUnderReady DEF UnmountList, MountList, RekeyList, FetchNextPage
<1>4. mounts' \in 0..MaxMounts /\ faults' \in 0..MaxFaults
  BY <1>1, <1>2, MountCounts DEF UnmountList, MountList, RekeyList, FetchNextPage, Reload
<1>5. /\ list' \in [Lists -> List]
      /\ \A m \in Lists \ {l} : list'[m] = list[m]
      /\ IsPrefix(list[l]) => IsPrefix(list'[l])
  <2>1. CASE UnmountList(l)
    BY <1>2, <2>1, NothingTyped DEF UnmountList, NoList, IsPrefix
  <2>2. ASSUME NEW r \in List, NEW ok \in BOOLEAN, Reload(l, r, ok)
        PROVE  /\ list' \in [Lists -> List]
               /\ \A m \in Lists \ {l} : list'[m] = list[m]
               /\ IsPrefix(list'[l])
    <3>1. list' = [list EXCEPT ![l] = IF ok THEN Reloaded(r) ELSE ReloadFails(r)]
      BY <2>2 DEF Reload
    <3> QED
      BY <1>1, <1>2, <3>1, ReloadFacts
  <2>3. ASSUME NEW ok \in BOOLEAN, MountList(l, ok) \/ RekeyList(l, ok)
        PROVE  \E r \in List : Reload(l, r, ok)
    <3>1. [NoList EXCEPT !.phase = "mounted"] \in List
      BY NothingTyped DEF List
    <3> QED
      BY <1>2, <2>3, <3>1 DEF MountList, RekeyList
  <2> QED
    BY <2>1, <2>2, <2>3, FetchFacts
<1>6. BaseInv'
  <2>1. /\ entries' \in [Keys -> {NoEntry} \cup Entry] /\ hook' \in [Hooks -> Hook]
        /\ missed' \in SUBSET Keys
    BY <1>1, <1>3 DEF TypeOK
  <2>2. HooksAreKeyed'
    BY <1>3 DEF BaseInv, HooksAreKeyed
  <2> QED
    BY <1>3, <1>4, <1>5, <2>1, <2>2, ScreenBase
<1> QED
  BY <1>3, <1>5, <1>6

(***************************************************************************)
(* A notification is delivered.                                            *)
(***************************************************************************)

\* What was not told by the notification is as quiet as before.
LEMMA QuietHeard ==
  ASSUME TypeOK, inbox # <<>>, inbox' = Tail(inbox), UNCHANGED <<inTx, touched>>,
         NEW t \in Tables, t \notin Head(inbox), Quiet(t)'
  PROVE  Quiet(t)
<1>1. inbox \in Seq(SUBSET Tables)
  BY DEF TypeOK
<1>2. ASSUME NEW i \in DOMAIN inbox PROVE t \notin inbox[i]
  <2>1. CASE i = 1
    BY <1>1, <2>1
  <2>2. CASE i # 1
    <3>1. i - 1 \in DOMAIN Tail(inbox) /\ Tail(inbox)[i - 1] = inbox[i]
      BY <1>1, <1>2, <2>2
    <3>2. \A j \in DOMAIN Tail(inbox) : t \notin Tail(inbox)[j]
      BY DEF Quiet
    <3> QED
      BY <3>1, <3>2
  <2> QED
    BY <2>1, <2>2
<1>3. ~(inTx /\ t \in touched)
  BY DEF Quiet
<1> QED
  BY <1>2, <1>3 DEF Quiet

LEMMA RerunFacts ==
  ASSUME TypeOK, NEW e \in Entry, NEW k \in Keys, NEW ok \in BOOLEAN
  PROVE  /\ Rerun(e, k, ok) \in Entry /\ Rerun(e, k, ok) # NoEntry
         /\ Rerun(e, k, ok).listeners = e.listeners
         /\ ok => Rerun(e, k, ok).data = Fresh(k)
         /\ ~ok => Rerun(e, k, ok).error
<1>1. Fresh(k) \in Contents
  BY NewEntryFacts
<1>2. CASE ok
  <2> DEFINE f == [e EXCEPT !.data = Fresh(k), !.error = FALSE]
  <2>1. f \in Entry /\ f.listeners = e.listeners /\ f.data = Fresh(k)
    BY <1>1 DEF Entry
  <2>2. Rerun(e, k, ok) = f
    BY <1>2 DEF Rerun
  <2> HIDE DEF f
  <2> QED
    BY <1>2, <2>1, <2>2, EntryAssumption
<1>3. CASE ~ok
  <2> DEFINE f == [e EXCEPT !.error = TRUE]
  <2>1. f \in Entry /\ f.listeners = e.listeners /\ f.error = TRUE
    BY DEF Entry
  <2>2. Rerun(e, k, ok) = f
    BY <1>3 DEF Rerun
  <2> HIDE DEF f
  <2> QED
    BY <1>3, <2>1, <2>2, EntryAssumption
<1> QED
  BY <1>2, <1>3

\* A list that cannot be read again keeps its pages, and is stale.
LEMMA RefreshFailsFacts ==
  ASSUME NEW r \in List
  PROVE  /\ RefreshFails(r) \in List /\ RefreshFails(r).phase = r.phase
         /\ RefreshFails(r).pages = r.pages /\ RefreshFails(r).count = r.count
         /\ RefreshFails(r).gap = r.gap /\ RefreshFails(r).stale = TRUE
BY DEF List, RefreshFails

LEMMA DeliverFacts ==
  ASSUME BaseInv, NEW K \in SUBSET Keys, NEW L \in SUBSET Lists, Deliver(K, L)
  PROVE  LET T == Head(inbox)
         IN  /\ inbox # <<>> /\ inbox' = Tail(inbox) /\ inbox' \in Seq(SUBSET Tables)
             /\ T \in SUBSET Tables
             /\ UNCHANGED <<dbVars, providerVars, mounts>> /\ faults' \in 0..MaxFaults
             /\ \A k \in Keys :
                  entries'[k] = IF k \in Claimed(T) THEN Rerun(entries[k], k, k \notin K) ELSE entries[k]
             /\ \A h \in Hooks :
                  hook'[h] = IF hook[h].listens = hook[h].key /\ hook[h].key \in Claimed(T)
                             THEN [hook[h] EXCEPT !.shown = entries'[hook[h].key].data]
                             ELSE hook[h]
             /\ \A l \in Lists :
                  list'[l] = IF ListTable \in T /\ list[l].phase = "mounted"
                             THEN IF l \in L THEN RefreshFails(list[l]) ELSE Reloaded(list[l])
                             ELSE list[l]
             /\ missed' = (missed \cup {k \in Keys : TableOf[k] \in T /\ entries[k] # NoEntry})
                            \ (Claimed(T) \ K)
<1>1. TypeOK
  BY DEF BaseInv
<1>2. inbox # <<>> /\ inbox' = Tail(inbox) /\ inbox \in Seq(SUBSET Tables)
  BY <1>1 DEF Deliver, TypeOK
<1>3. inbox' \in Seq(SUBSET Tables) /\ Head(inbox) \in SUBSET Tables
  BY <1>2
<1>4. UNCHANGED <<dbVars, providerVars, mounts>>
  BY DEF Deliver
<1>5. faults' \in 0..MaxFaults
  <2>1. \/ faults' = faults
        \/ faults' = faults + 1 /\ faults < MaxFaults
    BY DEF Deliver
  <2>2. faults \in 0..MaxFaults
    BY <1>1 DEF TypeOK
  <2> QED
    BY <1>1, <2>1, <2>2, MountCounts
<1> DEFINE T == Head(inbox)
           reload == {l \in Lists : ListTable \in T /\ list[l].phase = "mounted"}
<1>6. /\ entries' = [k \in Keys |-> IF k \in Claimed(T) THEN Rerun(entries[k], k, k \notin K) ELSE entries[k]]
      /\ hook' = [h \in Hooks |->
           IF hook[h].listens = hook[h].key /\ hook[h].key \in Claimed(T)
             THEN [hook[h] EXCEPT !.shown = entries'[hook[h].key].data]
             ELSE hook[h]]
      /\ list' = [l \in Lists |->
           IF l \notin reload THEN list[l]
           ELSE IF l \in L THEN RefreshFails(list[l]) ELSE Reloaded(list[l])]
      /\ missed' = (missed \cup {k \in Keys : TableOf[k] \in T /\ entries[k] # NoEntry})
                     \ (Claimed(T) \ K)
  BY DEF Deliver
<1>7. ASSUME NEW l \in Lists
      PROVE  list'[l] = IF ListTable \in T /\ list[l].phase = "mounted"
                        THEN IF l \in L THEN RefreshFails(list[l]) ELSE Reloaded(list[l])
                        ELSE list[l]
  BY <1>6
<1>8. ASSUME NEW k \in Keys
      PROVE  entries'[k] = IF k \in Claimed(T) THEN Rerun(entries[k], k, k \notin K) ELSE entries[k]
  BY <1>6
<1>9. ASSUME NEW h \in Hooks
      PROVE  hook'[h] = IF hook[h].listens = hook[h].key /\ hook[h].key \in Claimed(T)
                        THEN [hook[h] EXCEPT !.shown = entries'[hook[h].key].data]
                        ELSE hook[h]
  BY <1>6
<1> HIDE DEF T, reload
<1>10. missed' = (missed \cup {k \in Keys : TableOf[k] \in T /\ entries[k] # NoEntry})
                   \ (Claimed(T) \ K)
  BY <1>6
<1> QED
  BY <1>2, <1>3, <1>4, <1>5, <1>7, <1>8, <1>9, <1>10 DEF T

\* What it does to an entry, a component and a list.
LEMMA DeliveredEntry ==
  ASSUME BaseInv, NEW K \in SUBSET Keys, NEW L \in SUBSET Lists, Deliver(K, L), NEW k \in Keys
  PROVE  /\ entries[k] = NoEntry => entries'[k] = NoEntry
         /\ entries[k] # NoEntry =>
              /\ entries'[k] \in Entry /\ entries'[k] # NoEntry
              /\ entries'[k].listeners = entries[k].listeners
         /\ k \in Claimed(Head(inbox)) =>
              /\ entries[k] # NoEntry
              /\ entries'[k].data = Fresh(k) \/ entries'[k].error
         /\ k \notin Claimed(Head(inbox)) => entries'[k] = entries[k]
<1>1. TypeOK /\ entries[k] \in {NoEntry} \cup Entry
  BY DEF BaseInv, TypeOK
<1>2. entries'[k] = IF k \in Claimed(Head(inbox)) THEN Rerun(entries[k], k, k \notin K) ELSE entries[k]
  BY DeliverFacts
<1>3. CASE k \in Claimed(Head(inbox))
  <2>1. entries[k] # NoEntry /\ entries[k] \in Entry
    BY <1>1, <1>3 DEF Claimed
  <2> DEFINE ok == k \notin K
  <2>2. entries'[k] = Rerun(entries[k], k, ok) /\ ok \in BOOLEAN
    BY <1>2, <1>3
  <2> HIDE DEF ok
  <2>3. /\ entries'[k] \in Entry /\ entries'[k] # NoEntry
        /\ entries'[k].listeners = entries[k].listeners
        /\ ok => entries'[k].data = Fresh(k)
        /\ ~ok => entries'[k].error
    BY <1>1, <2>1, <2>2, RerunFacts
  <2> QED
    BY <1>3, <2>1, <2>3
<1>4. CASE k \notin Claimed(Head(inbox))
  BY <1>1, <1>2, <1>4
<1> QED
  BY <1>3, <1>4

LEMMA DeliveredHook ==
  ASSUME BaseInv, NEW K \in SUBSET Keys, NEW L \in SUBSET Lists, Deliver(K, L), NEW h \in Hooks
  PROVE  /\ hook'[h] \in Hook
         /\ hook'[h].phase = hook[h].phase /\ hook'[h].key = hook[h].key
         /\ hook'[h].listens = hook[h].listens
         /\ hook'[h].shown = IF hook[h].listens = hook[h].key /\ hook[h].key \in Claimed(Head(inbox))
                             THEN entries'[hook[h].key].data ELSE hook[h].shown
<1>1. hook[h] \in Hook /\ entries \in [Keys -> {NoEntry} \cup Entry]
  BY DEF BaseInv, TypeOK
<1> DEFINE k == hook[h].key
<1>2. CASE hook[h].listens = k /\ k \in Claimed(Head(inbox))
  <2>1. k \in Keys /\ entries[k] # NoEntry
    BY <1>2 DEF Claimed
  <2>2. entries'[k].data \in Contents
    BY <2>1, DeliveredEntry DEF Entry
  <2>3. hook'[h] = [hook[h] EXCEPT !.shown = entries'[k].data]
    BY <1>2, DeliverFacts
  <2> QED
    BY <1>1, <1>2, <2>2, <2>3 DEF Hook
<1>3. CASE ~(hook[h].listens = k /\ k \in Claimed(Head(inbox)))
  <2>1. hook'[h] = hook[h]
    BY <1>3, DeliverFacts
  <2> QED
    BY <1>1, <1>3, <2>1
<1> QED
  BY <1>2, <1>3

LEMMA DeliveredList ==
  ASSUME BaseInv, NEW K \in SUBSET Keys, NEW L \in SUBSET Lists, Deliver(K, L), NEW l \in Lists
  PROVE  /\ list'[l] \in List /\ list'[l].phase = list[l].phase
         /\ IsPrefix(list[l]) => IsPrefix(list[l])'
<1>1. TypeOK /\ list[l] \in List /\ ListTable \in Tables
  BY LiveQueriesAssumption DEF BaseInv, TypeOK
<1>2. live' = live
  BY DeliverFacts DEF dbVars
<1>3. CASE ListTable \in Head(inbox) /\ list[l].phase = "mounted"
  <2>1. CASE l \notin L
    <3>1. list'[l] = Reloaded(list[l])
      BY <1>3, <2>1, DeliverFacts
    <3>2. /\ list'[l].count = Len(list'[l].pages) /\ Len(list'[l].pages) <= list'[l].count
          /\ \A i \in DOMAIN list'[l].pages :
               /\ list'[l].pages[i].index + Len(list'[l].pages) = list'[l].count + i - 1
               /\ list'[l].pages[i].data = live'[ListTable]
      BY <1>1, <1>2, <3>1, ReloadFacts
    <3>3. IsPrefix(list[l])'
      BY <3>2 DEF IsPrefix
    <3> QED
      BY <1>1, <3>1, <3>3, ReloadFacts
  <2>2. CASE l \in L
    <3>1. list'[l] = RefreshFails(list[l])
      BY <1>3, <2>2, DeliverFacts
    <3>2. /\ list'[l] \in List /\ list'[l].phase = list[l].phase
          /\ list'[l].pages = list[l].pages /\ list'[l].count = list[l].count
          /\ list'[l].gap = list[l].gap /\ list'[l].stale = TRUE
      BY <1>1, <3>1, RefreshFailsFacts
    <3> QED
      BY <3>2 DEF IsPrefix
  <2> QED
    BY <2>1, <2>2
<1>4. CASE ~(ListTable \in Head(inbox) /\ list[l].phase = "mounted")
  <2>1. list'[l] = list[l]
    BY <1>4, DeliverFacts
  <2>2. CASE list[l].phase # "mounted"
    BY <1>1, <2>1, <2>2 DEF IsPrefix
  <2>3. CASE ListTable \notin Head(inbox)
    <3>1. Quiet(ListTable)' => Quiet(ListTable)
      BY <1>1, <2>3, DeliverFacts, QuietHeard DEF dbVars
    <3>2. IsPrefix(list[l]) => IsPrefix(list[l])'
      BY <1>2, <2>1, <3>1 DEF IsPrefix
    <3> QED
      BY <1>1, <2>1, <3>2
  <2> QED
    BY <1>4, <2>2, <2>3
<1> QED
  BY <1>3, <1>4

LEMMA DeliverBase ==
  ASSUME BaseInv, NEW K \in SUBSET Keys, NEW L \in SUBSET Lists, Deliver(K, L)
  PROVE  BaseInv'
<1>1. TypeOK
  BY DEF BaseInv
<1>2. /\ entries' = [k \in Keys |-> entries'[k]]
      /\ hook' = [h \in Hooks |-> hook'[h]]
      /\ list' = [l \in Lists |-> list'[l]]
  <2> DEFINE T == Head(inbox)
             reload == {l \in Lists : ListTable \in T /\ list[l].phase = "mounted"}
             e(k) == IF k \in Claimed(T) THEN Rerun(entries[k], k, k \notin K) ELSE entries[k]
             g(h) == IF hook[h].listens = hook[h].key /\ hook[h].key \in Claimed(T)
                     THEN [hook[h] EXCEPT !.shown = entries'[hook[h].key].data]
                     ELSE hook[h]
             r(l) == IF l \notin reload THEN list[l]
                     ELSE IF l \in L THEN RefreshFails(list[l]) ELSE Reloaded(list[l])
  <2>1. /\ entries' = [k \in Keys |-> e(k)]
        /\ hook' = [h \in Hooks |-> g(h)]
        /\ list' = [l \in Lists |-> r(l)]
    BY DEF Deliver
  <2> HIDE DEF e, g, r
  <2> QED
    BY <2>1
<1>3. entries' \in [Keys -> {NoEntry} \cup Entry]
  <2>1. \A k \in Keys : entries'[k] \in {NoEntry} \cup Entry
    BY DeliveredEntry
  <2> QED
    BY <1>2, <2>1
<1>4. hook' \in [Hooks -> Hook]
  <2>1. \A h \in Hooks : hook'[h] \in Hook
    BY DeliveredHook
  <2> QED
    BY <1>2, <2>1
<1>5. list' \in [Lists -> List]
  <2>1. \A l \in Lists : list'[l] \in List
    BY DeliveredList
  <2> QED
    BY <1>2, <2>1
<1>6. missed' \in SUBSET Keys
  BY <1>1, DeliverFacts DEF TypeOK
<1>7. /\ UNCHANGED <<dbVars, providerVars, mounts>> /\ inbox' \in Seq(SUBSET Tables)
      /\ faults' \in 0..MaxFaults
  BY DeliverFacts
<1>8. TypeOK'
  <2>1. /\ live' \in [Tables -> Contents] /\ saved' \in [Tables -> Contents] /\ inTx' \in BOOLEAN
        /\ touched' \in SUBSET Tables /\ clock' \in 0..MaxWrites
    BY <1>7, TouchedKept
  <2>2. /\ provider' \in {"off", "registering", "ready", "failed"} /\ mounting' \in Nat /\ native' \in BOOLEAN
        /\ mounts' \in 0..MaxMounts
    BY <1>1, <1>7 DEF TypeOK, providerVars
  <2> QED
    BY <1>3, <1>4, <1>5, <1>6, <1>7, <2>1, <2>2 DEF TypeOK
<1>9. (RunsAreCounted /\ ReadyMeansSubscribed)'
  BY <1>7 DEF BaseInv, RunsAreCounted, ReadyMeansSubscribed, providerVars
<1>10. ScreensNeedProvider'
  <2> SUFFICES ASSUME provider # "ready"
               PROVE  /\ \A k \in Keys : entries'[k] = NoEntry
                      /\ \A h \in Hooks : hook'[h].phase = "off"
                      /\ \A l \in Lists : list'[l].phase = "off"
    BY <1>7 DEF ScreensNeedProvider, providerVars
  <2>1. /\ \A k \in Keys : entries[k] = NoEntry
        /\ \A h \in Hooks : hook[h].phase = "off"
        /\ \A l \in Lists : list[l].phase = "off"
    BY DEF BaseInv, ScreensNeedProvider
  <2>2. \A k \in Keys : entries'[k] = NoEntry
    BY <2>1, DeliveredEntry
  <2>3. \A h \in Hooks : hook'[h].phase = "off"
    BY <2>1, DeliveredHook
  <2>4. \A l \in Lists : list'[l].phase = "off"
    BY <2>1, DeliveredList
  <2> QED
    BY <2>2, <2>3, <2>4
<1>11. HooksAreKeyed'
  BY DeliveredHook DEF BaseInv, HooksAreKeyed
<1>12. TouchedIsWhatChanged'
  BY <1>7, TouchedKept
<1> QED
  BY <1>8, <1>9, <1>10, <1>11, <1>12 DEF BaseInv

(***************************************************************************)
(* Each part of the invariant, over every kind of step.                    *)
(***************************************************************************)

\* Of a table that is quiet after a step of the database, nothing has changed
\* and it was quiet before, unless the step has rolled it back.
LEMMA DbQuiet ==
  ASSUME BaseInv, provider = "ready", (\E t \in Tables : Write(t)) \/ Begin \/ Commit \/ Rollback,
         NEW u \in Tables, Quiet(u)', ~(Rollback /\ u \in touched)
  PROVE  Quiet(u) /\ live'[u] = live[u]
<1>1. /\ inbox \in Seq(SUBSET Tables) /\ native /\ TouchedIsWhatChanged
      /\ live \in [Tables -> Contents]
  BY DEF BaseInv, TypeOK, ReadyMeansSubscribed
<1>2. /\ \A i \in DOMAIN inbox' : u \notin inbox'[i]
      /\ ~(inTx' /\ u \in touched')
  BY DEF Quiet
<1>3. ASSUME NEW T \in SUBSET Tables, inbox' = Append(inbox, T)
      PROVE  u \notin T /\ \A i \in DOMAIN inbox : u \notin inbox[i]
  <2>1. /\ DOMAIN inbox = 1..Len(inbox) /\ DOMAIN inbox' = 1..Len(inbox) + 1 /\ Len(inbox) \in Nat
        /\ inbox'[Len(inbox) + 1] = T
        /\ \A i \in 1..Len(inbox) : inbox'[i] = inbox[i]
    BY <1>1, <1>3
  <2> QED
    BY <1>2, <2>1
<1>4. ASSUME NEW t \in Tables, Write(t)
      PROVE  Quiet(u) /\ live'[u] = live[u]
  <2>1. CASE inTx
    <3>1. touched' = touched \cup {t} /\ inbox' = inbox /\ inTx' = inTx
      BY <1>4, <2>1 DEF Write
    <3>2. u # t /\ Quiet(u)
      BY <1>2, <2>1, <3>1 DEF Quiet
    <3> QED
      BY <1>1, <1>4, <3>2 DEF Write
  <2>2. CASE ~inTx
    <3>1. inbox' = Append(inbox, {t})
      BY <1>1, <1>4, <2>2 DEF Write, Notify
    <3>2. u # t /\ Quiet(u)
      BY <1>3, <2>2, <3>1 DEF Quiet
    <3> QED
      BY <1>1, <1>4, <3>2 DEF Write
  <2> QED
    BY <2>1, <2>2
<1>5. CASE Begin
  BY <1>2, <1>5 DEF Begin, Quiet
<1>6. CASE Commit
  <2>1. touched \in SUBSET Tables /\ live' = live
    BY <1>6 DEF Commit, BaseInv, TypeOK
  <2>2. CASE touched = {}
    BY <1>2, <1>6, <2>1, <2>2 DEF Commit, Notify, Quiet
  <2>3. CASE touched # {}
    <3>1. inbox' = Append(inbox, touched)
      BY <1>1, <1>6, <2>3 DEF Commit, Notify
    <3> QED
      BY <1>3, <2>1, <3>1 DEF Quiet
  <2> QED
    BY <2>2, <2>3
<1>7. CASE Rollback
  <2>1. u \notin touched /\ inTx /\ inbox' = inbox /\ live' = saved
    BY <1>7 DEF Rollback
  <2>2. live'[u] = live[u]
    BY <1>1, <2>1 DEF TouchedIsWhatChanged
  <2> QED
    BY <1>2, <2>1, <2>2 DEF Quiet
<1> QED
  BY <1>4, <1>5, <1>6, <1>7

Db == (\E t \in Tables : Write(t)) \/ Begin \/ Commit \/ Rollback

LEMMA DbListens ==
  ASSUME LiveInv, Db
  PROVE  LiveInv'
<1>1. BaseInv /\ BaseInv'
  BY DbBase DEF LiveInv, Db
<1>2. /\ UNCHANGED <<providerVars, entries, hook>>
      /\ missed' = missed \cup {k \in Keys : Rollback /\ TableOf[k] \in touched}
  BY DEF Db, Write, Begin, Commit, Rollback, screenVars
<1>3. (ListenersHaveEntries /\ ShownIsEntry)'
  BY <1>2 DEF LiveInv, ListenersHaveEntries, ShownIsEntry
<1>4. EntriesSeeWhatIs'
  <2> SUFFICES ASSUME NEW k \in Keys, entries[k] # NoEntry, k \notin missed', Quiet(TableOf[k])'
               PROVE  entries[k].data = live'[TableOf[k]] \/ entries[k].error
    BY <1>2 DEF EntriesSeeWhatIs, Fresh
  <2>1. provider = "ready" /\ TableOf[k] \in Tables
    BY <1>1, ScreensAreUnderReady, LiveQueriesAssumption
  <2>2. k \notin missed /\ ~(Rollback /\ TableOf[k] \in touched)
    BY <1>2
  <2>3. Quiet(TableOf[k]) /\ live'[TableOf[k]] = live[TableOf[k]]
    <3> DEFINE u == TableOf[k]
    <3>1. u \in Tables /\ Quiet(u)' /\ ~(Rollback /\ u \in touched)
      BY <2>1, <2>2
    <3> HIDE DEF u
    <3>2. Quiet(u) /\ live'[u] = live[u]
      BY <1>1, <2>1, <3>1, DbQuiet DEF Db
    <3> QED
      BY <3>2 DEF u
  <2> QED
    BY <2>2, <2>3 DEF LiveInv, EntriesSeeWhatIs, Fresh
<1>5. ListsArePrefixes'
  <2> SUFFICES ASSUME NEW l \in Lists PROVE IsPrefix(list[l])'
    BY DEF ListsArePrefixes, IsPrefix
  <2>1. IsPrefix(list[l]) /\ list[l] \in List /\ ListTable \in Tables
    BY <1>1, PrefixOfEach, LiveQueriesAssumption DEF LiveInv, BaseInv, TypeOK
  <2>2. /\ list'[l].phase = list[l].phase /\ list'[l].pages = list[l].pages
        /\ list'[l].count = list[l].count
        /\ list'[l].gap = list[l].gap
        /\ list'[l].stale <=> list[l].stale \/ (Rollback /\ ListTable \in touched)
    <3>1. CASE Rollback
      <4> DEFINE more == ListTable \in touched
      <4>1. list' = [m \in Lists |-> [list[m] EXCEPT !.stale = @ \/ more]]
        BY <3>1 DEF Rollback
      <4>2. more \in BOOLEAN
        OBVIOUS
      <4> HIDE DEF more
      <4>3. list'[l] = [list[l] EXCEPT !.stale = @ \/ more]
        BY <4>1
      <4>4. /\ list'[l].phase = list[l].phase /\ list'[l].pages = list[l].pages
            /\ list'[l].count = list[l].count
            /\ list'[l].gap = list[l].gap
            /\ list'[l].stale <=> list[l].stale \/ more
        BY <2>1, <4>2, <4>3, StaleTyped
      <4> QED
        BY <3>1, <4>4 DEF more
    <3>2. CASE ~Rollback
      <4>1. list' = list
        BY <3>2 DEF Db, Write, Begin, Commit, screenVars
      <4> QED
        BY <3>2, <4>1
    <3> QED
      BY <3>1, <3>2
  <2>3. CASE list[l].phase = "mounted" /\ ~list[l].stale /\ ~(Rollback /\ ListTable \in touched)
    <3>1. provider = "ready"
      BY <1>1, <2>3, ScreensAreUnderReady
    <3>2. Quiet(ListTable)' => Quiet(ListTable) /\ live'[ListTable] = live[ListTable]
      BY <1>1, <2>1, <2>3, <3>1, DbQuiet DEF Db
    <3> QED
      BY <2>1, <2>2, <2>3, <3>2 DEF IsPrefix
  <2>4. CASE ~(list[l].phase = "mounted" /\ ~list[l].stale /\ ~(Rollback /\ ListTable \in touched))
    BY <2>1, <2>2, <2>4 DEF IsPrefix
  <2> QED
    BY <2>3, <2>4
<1> QED
  BY <1>1, <1>3, <1>4, <1>5 DEF LiveInv

\* A step that leaves the database and the notifications alone.
LEMMA QuietKept ==
  ASSUME UNCHANGED <<dbVars, inbox>>
  PROVE  /\ live' = live
         /\ \A t \in Tables : Quiet(t)' <=> Quiet(t)
BY DEF dbVars, Quiet

LEMMA ListsKept ==
  ASSUME LiveInv, UNCHANGED <<dbVars, inbox, list>>
  PROVE  ListsArePrefixes'
BY QuietKept, LiveQueriesAssumption DEF LiveInv, ListsArePrefixes

\* Whoever listens to its key finds its entry, and is among its listeners.
LEMMA ListenerIsListed ==
  ASSUME LiveInv, NEW h \in Hooks, hook[h].listens \in Keys
  PROVE  entries[hook[h].listens] # NoEntry /\ h \in entries[hook[h].listens].listeners
BY DEF LiveInv, ListenersHaveEntries

LEMMA RendersListens ==
  ASSUME LiveInv, NEW h, NEW k, Renders(h, k)
  PROVE  LiveInv'
<1>1. BaseInv /\ BaseInv'
  BY RendersBase DEF LiveInv
<1>2. TypeOK /\ k \in Keys /\ h \in Hooks /\ UNCHANGED <<dbVars, inbox, list>>
  BY <1>1 DEF Renders, BaseInv
<1>3. \A g \in Hooks : hook'[g].listens = hook[g].listens
  BY DEF Renders
<1>4. \A j \in Keys : entries[j] # NoEntry => entries'[j] = entries[j]
  BY DEF Renders
<1>5. entries[k] = NoEntry => entries'[k] = NewEntry(k)
  BY DEF Renders
<1>6. entries'[k] # NoEntry
  BY EntryAssumption DEF Renders
<1>7. ListenersHaveEntries'
  <2> SUFFICES ASSUME NEW j \in Keys
               PROVE  LET listening == {g \in Hooks : hook'[g].listens = j}
                      IN IF entries'[j] = NoEntry THEN listening = {}
                         ELSE entries'[j].listeners = listening
    BY DEF ListenersHaveEntries
  <2> DEFINE was == {g \in Hooks : hook[g].listens = j}
  <2>1. {g \in Hooks : hook'[g].listens = j} = was
    BY <1>3
  <2>2. IF entries[j] = NoEntry THEN was = {} ELSE entries[j].listeners = was
    BY DEF LiveInv, ListenersHaveEntries
  <2>3. CASE entries[j] = NoEntry /\ j = k
    <3>1. entries'[j].listeners = {} /\ entries'[j] # NoEntry
      BY <1>2, <1>5, <1>6, <2>3, NewEntryFacts
    <3> QED
      BY <2>1, <2>2, <2>3, <3>1
  <2>4. CASE ~(entries[j] = NoEntry /\ j = k)
    <3>1. entries'[j] = entries[j]
      BY <1>4, <2>4 DEF Renders
    <3> QED
      BY <2>1, <2>2, <3>1
  <2> QED
    BY <2>3, <2>4
<1>8. EntriesSeeWhatIs'
  <2> SUFFICES ASSUME NEW j \in Keys, entries'[j] # NoEntry, j \notin missed', Quiet(TableOf[j])'
               PROVE  entries'[j].data = live'[TableOf[j]] \/ entries'[j].error
    BY DEF EntriesSeeWhatIs, Fresh
  <2>1. TableOf[j] \in Tables
    BY LiveQueriesAssumption
  <2>2. live' = live /\ Quiet(TableOf[j])
    BY <1>2, <2>1, QuietKept
  <2>3. CASE entries[j] = NoEntry
    <3>1. j = k
      BY <2>3 DEF Renders
    <3>2. entries'[j].data = Fresh(j)
      BY <1>2, <1>5, <2>3, <3>1, NewEntryFacts
    <3> QED
      BY <2>2, <3>2 DEF Fresh
  <2>4. CASE entries[j] # NoEntry
    <3>1. entries'[j] = entries[j] /\ j \notin missed
      BY <1>4, <2>4 DEF Renders
    <3> QED
      BY <2>2, <2>4, <3>1 DEF LiveInv, EntriesSeeWhatIs, Fresh
  <2> QED
    BY <2>3, <2>4
<1>9. ShownIsEntry'
  <2> SUFFICES ASSUME NEW g \in Hooks, hook'[g].phase = "mounted", hook'[g].listens = hook'[g].key
               PROVE  hook'[g].shown = entries'[hook'[g].key].data
    BY DEF ShownIsEntry
  <2>1. CASE g = h
    BY <2>1 DEF Renders
  <2>2. CASE g # h
    <3>1. hook'[g] = hook[g]
      BY <2>2 DEF Renders
    <3>2. hook[g].key \in Keys /\ hook[g].listens = hook[g].key
      BY <1>1, <3>1 DEF BaseInv, HooksAreKeyed
    <3>3. entries'[hook[g].key] = entries[hook[g].key]
      BY <1>4, <3>2, ListenerIsListed
    <3> QED
      BY <3>1, <3>2, <3>3 DEF LiveInv, ShownIsEntry
  <2> QED
    BY <2>1, <2>2
<1> QED
  BY <1>1, <1>2, <1>7, <1>8, <1>9, ListsKept DEF LiveInv

LEMMA GoneListens ==
  ASSUME LiveInv, NEW h \in Hooks, Abandon(h) \/ Leave(h)
  PROVE  LiveInv'
<1>1. /\ BaseInv' /\ UNCHANGED <<dbVars, inbox, providerVars, entries, list, missed>>
      /\ \A g \in Hooks \ {h} : hook'[g] = hook[g]
      /\ hook'[h].phase # "mounted" /\ hook'[h].listens = hook[h].listens
  BY GoneBase DEF LiveInv
<1>2. ListenersHaveEntries'
  <2>1. \A g \in Hooks : hook'[g].listens = hook[g].listens
    BY <1>1
  <2> QED
    BY <1>1, <2>1 DEF LiveInv, ListenersHaveEntries
<1>3. EntriesSeeWhatIs'
  BY <1>1, QuietKept, LiveQueriesAssumption DEF LiveInv, EntriesSeeWhatIs, Fresh
<1>4. ShownIsEntry'
  BY <1>1 DEF LiveInv, ShownIsEntry
<1> QED
  BY <1>1, <1>2, <1>3, <1>4, ListsKept DEF LiveInv

LEMMA ListListens ==
  ASSUME LiveInv, NEW l \in Lists,
         UnmountList(l) \/ \E ok \in BOOLEAN :
           MountList(l, ok) \/ RekeyList(l, ok) \/ FetchNextPage(l, ok)
  PROVE  LiveInv'
<1>1. /\ BaseInv' /\ UNCHANGED <<dbVars, inbox, providerVars, entries, hook, missed>>
      /\ \A m \in Lists \ {l} : list'[m] = list[m]
      /\ IsPrefix(list[l]) => IsPrefix(list'[l])
  BY ListFacts DEF LiveInv
<1>2. (ListenersHaveEntries /\ ShownIsEntry)'
  BY <1>1 DEF LiveInv, ListenersHaveEntries, ShownIsEntry
<1>3. EntriesSeeWhatIs'
  BY <1>1, QuietKept, LiveQueriesAssumption DEF LiveInv, EntriesSeeWhatIs, Fresh
<1>4. ListsArePrefixes'
  <2> SUFFICES ASSUME NEW m \in Lists PROVE IsPrefix(list[m])'
    BY DEF ListsArePrefixes, IsPrefix
  <2>1. IsPrefix(list[m]) /\ IsPrefix(list[l])
    BY PrefixOfEach DEF LiveInv
  <2>2. IsPrefix(list'[m])
    BY <1>1, <2>1
  <2>3. live' = live /\ (Quiet(ListTable)' <=> Quiet(ListTable))
    BY <1>1, QuietKept, LiveQueriesAssumption
  <2> QED
    BY <2>2, <2>3 DEF IsPrefix
<1> QED
  BY <1>1, <1>2, <1>3, <1>4 DEF LiveInv

LEMMA ProviderListens ==
  ASSUME LiveInv, Provide
  PROVE  LiveInv'
<1>1. BaseInv' /\ UNCHANGED <<dbVars, inbox>>
  BY ProviderBase DEF LiveInv, Provide, MountProvider, Ready, RegistrationFails, CancelledRunEnds,
     CancelledRunFails, UnmountProvider
<1>2. CASE MountProvider \/ Ready \/ RegistrationFails \/ CancelledRunEnds \/ CancelledRunFails
  <2>1. UNCHANGED <<entries, hook, list, missed>>
    BY <1>2 DEF MountProvider, Ready, RegistrationFails, CancelledRunEnds, CancelledRunFails, screenVars
  <2>2. (ListenersHaveEntries /\ ShownIsEntry)'
    BY <2>1 DEF LiveInv, ListenersHaveEntries, ShownIsEntry
  <2>3. EntriesSeeWhatIs'
    BY <1>1, <2>1, QuietKept, LiveQueriesAssumption DEF LiveInv, EntriesSeeWhatIs, Fresh
  <2> QED
    BY <1>1, <2>1, <2>2, <2>3, ListsKept DEF LiveInv
<1>3. CASE UnmountProvider
  <2>1. /\ entries' = [k \in Keys |-> NoEntry]
        /\ hook' = [h \in Hooks |-> NoHook] /\ list' = [l \in Lists |-> NoList]
    BY <1>3 DEF UnmountProvider
  <2>2. ListenersHaveEntries'
    <3>1. \A h \in Hooks : hook'[h].listens = NoKey
      BY <2>1 DEF NoHook
    <3> QED
      BY <2>1, <3>1, LiveQueriesAssumption DEF ListenersHaveEntries
  <2>3. (EntriesSeeWhatIs /\ ShownIsEntry /\ ListsArePrefixes)'
    BY <2>1 DEF EntriesSeeWhatIs, ShownIsEntry, ListsArePrefixes, NoHook, NoList
  <2> QED
    BY <1>1, <2>2, <2>3 DEF LiveInv
<1> QED
  BY <1>2, <1>3 DEF Provide

\* They leave a hook that goes nothing, and mount one that has rendered.
LEMMA EffectsHook ==
  ASSUME BaseInv, Effects, NEW h \in Hooks
  PROVE  /\ hook[h].phase = "leaving" => hook'[h] = NoHook
         /\ hook[h].phase = "rendered" =>
              /\ hook'[h].phase = "mounted" /\ hook'[h].key = hook[h].key
              /\ hook'[h].shown = entries'[hook[h].key].data
              /\ hook'[h].listens = IF Emptied(hook[h].key) THEN NoKey ELSE hook[h].key
         /\ hook[h].phase \notin {"leaving", "rendered"} => hook'[h] = hook[h]
<1> DEFINE listens == IF Emptied(hook[h].key) THEN NoKey ELSE hook[h].key
           shown == entries'[hook[h].key].data
           next == [phase |-> "mounted", key |-> hook[h].key, shown |-> shown, listens |-> listens]
<1>1. hook'[h] = CASE hook[h].phase = "leaving" -> NoHook
                   [] hook[h].phase = "rendered" -> next
                   [] OTHER -> hook[h]
  BY EffectsFacts
<1>2. next.phase = "mounted" /\ next.key = hook[h].key /\ next.shown = shown /\ next.listens = listens
  <2> HIDE DEF shown, listens
  <2> QED
    OBVIOUS
<1> HIDE DEF next
<1>3. CASE hook[h].phase = "leaving"
  BY <1>1, <1>3
<1>4. CASE hook[h].phase = "rendered"
  <2>1. hook'[h] = next
    BY <1>1, <1>4
  <2> QED
    BY <1>2, <1>4, <2>1
<1>5. CASE hook[h].phase \notin {"leaving", "rendered"}
  BY <1>1, <1>5
<1> QED
  BY <1>3, <1>4, <1>5

\* The effects of a commit, for an entry that stays: who comes is added, who
\* goes is taken off, and what it holds stays.
LEMMA EffectsKeep ==
  ASSUME LiveInv, Effects, NEW k \in Keys, ~Emptied(k)
  PROVE  /\ entries[k] # NoEntry /\ entries'[k] # NoEntry
         /\ entries'[k].data = entries[k].data /\ entries'[k].error = entries[k].error
         /\ entries'[k].listeners = (entries[k].listeners \ Going(k)) \cup Coming(k)
<1>1. BaseInv /\ entries[k] # NoEntry /\ entries[k] \in Entry
  BY DEF LiveInv, BaseInv, TypeOK, Emptied
<1>2. (entries[k].listeners \ Going(k)) \cup Coming(k) \in SUBSET Hooks
  BY <1>1 DEF Coming, Entry
<1>3. entries'[k] = Listened(entries[k], (entries[k].listeners \ Going(k)) \cup Coming(k))
  BY <1>1, EffectsFacts
<1> QED
  BY <1>1, <1>2, <1>3, ListenedFacts

\* For an entry that goes, or is made again by the hooks that found it gone:
\* nobody listens.
LEMMA EffectsEmpty ==
  ASSUME LiveInv, Effects, NEW k \in Keys, Emptied(k)
  PROVE  /\ {h \in Hooks : hook'[h].listens = k} = {}
         /\ entries'[k] = IF Coming(k) = {} THEN NoEntry ELSE NewEntry(k)
<1>1. BaseInv /\ NoKey \notin Keys
  BY LiveQueriesAssumption DEF LiveInv
<1>2. entries'[k] = IF Coming(k) = {} THEN NoEntry ELSE NewEntry(k)
  BY <1>1, EffectsFacts
<1>3. ASSUME NEW h \in Hooks, hook'[h].listens = k
      PROVE  FALSE
  <2>1. CASE hook[h].phase = "leaving"
    <3>1. hook'[h] = NoHook
      BY <1>1, <2>1, EffectsHook
    <3> QED
      BY <1>1, <1>3, <3>1 DEF NoHook
  <2>2. CASE hook[h].phase = "rendered"
    <3>1. hook'[h].listens = IF Emptied(hook[h].key) THEN NoKey ELSE hook[h].key
      BY <1>1, <2>2, EffectsHook
    <3> QED
      BY <1>1, <1>3, <3>1
  <2>3. CASE hook[h].phase \notin {"leaving", "rendered"}
    <3>1. hook[h].listens = k
      BY <1>1, <1>3, <2>3, EffectsHook
    <3>2. entries[k] # NoEntry /\ h \in entries[k].listeners
      BY <3>1, ListenerIsListed
    <3>3. h \in Going(k)
      BY <3>2 DEF Emptied
    <3> QED
      BY <2>3, <3>3 DEF Going
  <2> QED
    BY <2>1, <2>2, <2>3
<1> QED
  BY <1>2, <1>3

LEMMA EffectsListens ==
  ASSUME LiveInv, Effects
  PROVE  LiveInv'
<1>1. BaseInv /\ BaseInv' /\ TypeOK
  BY EffectsBase DEF LiveInv, BaseInv
<1>2. UNCHANGED <<dbVars, inbox, list>>
  BY DEF Effects
<1>3. NoKey \notin Keys /\ \A k \in Keys : TableOf[k] \in Tables
  BY LiveQueriesAssumption
<1>4. ListenersHaveEntries'
  <2> SUFFICES ASSUME NEW k \in Keys
               PROVE  IF entries'[k] = NoEntry THEN {h \in Hooks : hook'[h].listens = k} = {}
                      ELSE entries'[k].listeners = {h \in Hooks : hook'[h].listens = k}
    BY DEF ListenersHaveEntries
  <2>1. CASE Emptied(k)
    BY <1>1, <2>1, EffectsEmpty, NewEntryFacts
  <2>2. CASE ~Emptied(k)
    <3>1. /\ entries[k] # NoEntry /\ entries'[k] # NoEntry
          /\ entries'[k].listeners = (entries[k].listeners \ Going(k)) \cup Coming(k)
      BY <2>2, EffectsKeep
    <3>2. entries[k].listeners = {h \in Hooks : hook[h].listens = k}
      BY <3>1 DEF LiveInv, ListenersHaveEntries
    <3>3. ASSUME NEW h \in Hooks
          PROVE  hook'[h].listens = k <=> h \in (entries[k].listeners \ Going(k)) \cup Coming(k)
      <4>1. CASE hook[h].phase = "leaving"
        <5>1. hook'[h] = NoHook
          BY <1>1, <4>1, EffectsHook
        <5> QED
          BY <1>3, <3>2, <4>1, <5>1 DEF NoHook, Going, Coming
      <4>2. CASE hook[h].phase = "rendered"
        <5>1. hook'[h].listens = IF Emptied(hook[h].key) THEN NoKey ELSE hook[h].key
          BY <1>1, <4>2, EffectsHook
        <5>2. hook'[h].listens = k <=> hook[h].key = k
          BY <1>3, <2>2, <5>1
        <5> QED
          BY <3>2, <4>2, <5>2 DEF Going, Coming
      <4>3. CASE hook[h].phase \notin {"leaving", "rendered"}
        <5>1. hook'[h] = hook[h]
          BY <1>1, <4>3, EffectsHook
        <5> QED
          BY <3>2, <4>3, <5>1 DEF Going, Coming
      <4> QED
        BY <4>1, <4>2, <4>3
    <3>4. (entries[k].listeners \ Going(k)) \cup Coming(k) \subseteq Hooks
      BY <3>2 DEF Coming
    <3> QED
      BY <3>1, <3>3, <3>4
  <2> QED
    BY <2>1, <2>2
<1>5. EntriesSeeWhatIs'
  <2> SUFFICES ASSUME NEW k \in Keys, entries'[k] # NoEntry, k \notin missed', Quiet(TableOf[k])'
               PROVE  entries'[k].data = live'[TableOf[k]] \/ entries'[k].error
    BY DEF EntriesSeeWhatIs, Fresh
  <2>1. live' = live /\ Quiet(TableOf[k])
    BY <1>2, <1>3, QuietKept
  <2>2. CASE Emptied(k)
    <3>1. entries'[k] = NewEntry(k)
      BY <2>2, EffectsEmpty
    <3>2. entries'[k].data = Fresh(k)
      BY <1>1, <3>1, NewEntryFacts
    <3> QED
      BY <2>1, <3>2 DEF Fresh
  <2>3. CASE ~Emptied(k)
    <3>1. k \notin missed
      BY <1>1, <2>3, EffectsFacts
    <3> QED
      BY <2>1, <2>3, <3>1, EffectsKeep DEF LiveInv, EntriesSeeWhatIs, Fresh
  <2> QED
    BY <2>2, <2>3
<1>6. ShownIsEntry'
  <2> SUFFICES ASSUME NEW h \in Hooks, hook'[h].phase = "mounted", hook'[h].listens = hook'[h].key
               PROVE  hook'[h].shown = entries'[hook'[h].key].data
    BY DEF ShownIsEntry
  <2>1. CASE hook[h].phase = "leaving"
    BY <1>1, <2>1, EffectsHook DEF NoHook
  <2>2. CASE hook[h].phase = "rendered"
    <3>1. hook'[h].key = hook[h].key /\ hook'[h].shown = entries'[hook[h].key].data
      BY <1>1, <2>2, EffectsHook
    <3> QED
      BY <3>1
  <2>3. CASE hook[h].phase \notin {"leaving", "rendered"}
    <3>1. hook'[h] = hook[h]
      BY <1>1, <2>3, EffectsHook
    <3> DEFINE k == hook[h].key
    <3>2. k \in Keys /\ hook[h].listens = k /\ hook[h].shown = entries[k].data
      BY <1>1, <3>1 DEF LiveInv, BaseInv, HooksAreKeyed, ShownIsEntry
    <3>3. entries[k] # NoEntry /\ h \in entries[k].listeners
      BY <3>2, ListenerIsListed
    <3>4. ~Emptied(k)
      BY <2>3, <3>3 DEF Emptied, Going
    <3>5. entries'[k].data = entries[k].data
      BY <3>2, <3>4, EffectsKeep
    <3> QED
      BY <3>1, <3>2, <3>5
  <2> QED
    BY <2>1, <2>2, <2>3
<1> QED
  BY <1>1, <1>2, <1>4, <1>5, <1>6, ListsKept DEF LiveInv

LEMMA DeliverListens ==
  ASSUME LiveInv, NEW K \in SUBSET Keys, NEW L \in SUBSET Lists, Deliver(K, L)
  PROVE  LiveInv'
<1>1. BaseInv /\ BaseInv' /\ TypeOK
  BY DeliverBase DEF LiveInv, BaseInv
<1> DEFINE T == Head(inbox)
<1>2. /\ inbox # <<>> /\ inbox' = Tail(inbox) /\ UNCHANGED <<inTx, touched>> /\ live' = live
      /\ missed' = (missed \cup {k \in Keys : TableOf[k] \in T /\ entries[k] # NoEntry})
                     \ (Claimed(T) \ K)
  BY <1>1, DeliverFacts DEF dbVars
<1>3. ASSUME NEW h \in Hooks
      PROVE  /\ hook'[h].phase = hook[h].phase /\ hook'[h].key = hook[h].key
             /\ hook'[h].listens = hook[h].listens
             /\ hook'[h].shown = IF hook[h].listens = hook[h].key /\ hook[h].key \in Claimed(T)
                                 THEN entries'[hook[h].key].data ELSE hook[h].shown
  BY <1>1, DeliveredHook
<1>4. ASSUME NEW k \in Keys
      PROVE  /\ entries[k] = NoEntry <=> entries'[k] = NoEntry
             /\ entries[k] # NoEntry => entries'[k].listeners = entries[k].listeners
             /\ k \in Claimed(T) => entries'[k].data = Fresh(k) \/ entries'[k].error
             /\ k \notin Claimed(T) => entries'[k] = entries[k]
  BY <1>1, DeliveredEntry
<1> HIDE DEF T
<1>5. ListenersHaveEntries'
  <2> SUFFICES ASSUME NEW k \in Keys
               PROVE  IF entries'[k] = NoEntry THEN {h \in Hooks : hook'[h].listens = k} = {}
                      ELSE entries'[k].listeners = {h \in Hooks : hook'[h].listens = k}
    BY DEF ListenersHaveEntries
  <2>1. {h \in Hooks : hook'[h].listens = k} = {h \in Hooks : hook[h].listens = k}
    BY <1>3
  <2> QED
    BY <1>4, <2>1 DEF LiveInv, ListenersHaveEntries
<1>6. EntriesSeeWhatIs'
  <2> SUFFICES ASSUME NEW k \in Keys, entries'[k] # NoEntry, k \notin missed', Quiet(TableOf[k])'
               PROVE  entries'[k].data = live'[TableOf[k]] \/ entries'[k].error
    BY DEF EntriesSeeWhatIs, Fresh
  <2>1. CASE k \in Claimed(T)
    BY <1>2, <1>4, <2>1 DEF Fresh
  <2>2. CASE k \notin Claimed(T)
    <3>1. entries'[k] = entries[k] /\ k \notin missed /\ TableOf[k] \notin T
      BY <1>2, <1>4, <2>2
    <3>2. Quiet(TableOf[k])
      <4> DEFINE u == TableOf[k]
      <4>1. u \in Tables /\ u \notin Head(inbox) /\ Quiet(u)'
        BY <3>1, LiveQueriesAssumption DEF T
      <4> HIDE DEF u
      <4>2. Quiet(u)
        BY <1>1, <1>2, <4>1, QuietHeard
      <4> QED
        BY <4>2 DEF u
    <3> QED
      BY <1>2, <3>1, <3>2 DEF LiveInv, EntriesSeeWhatIs, Fresh
  <2> QED
    BY <2>1, <2>2
<1>7. ShownIsEntry'
  <2> SUFFICES ASSUME NEW h \in Hooks, hook'[h].phase = "mounted", hook'[h].listens = hook'[h].key
               PROVE  hook'[h].shown = entries'[hook'[h].key].data
    BY DEF ShownIsEntry
  <2> DEFINE k == hook[h].key
  <2>1. k \in Keys /\ hook[h].listens = k /\ hook[h].shown = entries[k].data /\ hook'[h].key = k
    BY <1>1, <1>3 DEF LiveInv, BaseInv, HooksAreKeyed, ShownIsEntry
  <2> QED
    BY <1>3, <1>4, <2>1
<1>8. ListsArePrefixes'
  <2> SUFFICES ASSUME NEW l \in Lists PROVE IsPrefix(list[l])'
    BY DEF ListsArePrefixes, IsPrefix
  <2>1. IsPrefix(list[l])
    BY PrefixOfEach DEF LiveInv
  <2> QED
    BY <1>1, <2>1, DeliveredList
<1> QED
  BY <1>1, <1>5, <1>6, <1>7, <1>8 DEF LiveInv

(***************************************************************************)
(* The theorems.                                                           *)
(***************************************************************************)

LEMMA LiveInitially == Init => LiveInv
<1> SUFFICES ASSUME Init PROVE LiveInv
  OBVIOUS
<1>1. /\ entries = [k \in Keys |-> NoEntry] /\ hook = [h \in Hooks |-> NoHook]
      /\ list = [l \in Lists |-> NoList]
  BY DEF Init
<1>2. ListenersHaveEntries
  <2>1. \A h \in Hooks : hook[h].listens = NoKey
    BY <1>1 DEF NoHook
  <2> QED
    BY <1>1, <2>1, LiveQueriesAssumption DEF ListenersHaveEntries
<1>3. EntriesSeeWhatIs /\ ShownIsEntry /\ ListsArePrefixes
  BY <1>1 DEF EntriesSeeWhatIs, ShownIsEntry, ListsArePrefixes, NoHook, NoList
<1> QED
  BY <1>2, <1>3, BaseInitially DEF LiveInv

LEMMA LiveStep == LiveInv /\ [Next]_vars => LiveInv'
<1> SUFFICES ASSUME LiveInv, [Next]_vars PROVE LiveInv'
  OBVIOUS
<1>1. CASE Db
  BY <1>1, DbListens
<1>2. CASE Provide
  BY <1>2, ProviderListens
<1>3. ASSUME NEW h \in Hooks, Abandon(h) \/ Leave(h)
      PROVE  LiveInv'
  BY <1>3, GoneListens
<1>4. ASSUME NEW h \in Hooks, Rerender(h)
      PROVE  LiveInv'
  <2>1. Renders(h, hook[h].key)
    BY <1>4, RerenderFacts DEF LiveInv
  <2> QED
    BY <2>1, RendersListens
<1>5. ASSUME NEW h \in Hooks, NEW k \in Keys, Render(h, k)
      PROVE  LiveInv'
  <2>1. Renders(h, k)
    BY <1>5, RenderFacts DEF LiveInv
  <2> QED
    BY <2>1, RendersListens
<1>6. CASE Effects
  BY <1>6, EffectsListens
<1>7. ASSUME NEW l \in Lists,
             UnmountList(l) \/ \E ok \in BOOLEAN :
               MountList(l, ok) \/ RekeyList(l, ok) \/ FetchNextPage(l, ok)
      PROVE  LiveInv'
  BY <1>7, ListListens
<1>8. ASSUME NEW K \in SUBSET Keys, NEW L \in SUBSET Lists, Deliver(K, L)
      PROVE  LiveInv'
  BY <1>8, DeliverListens
<1>9. CASE UNCHANGED vars
  BY <1>9 DEF vars, dbVars, providerVars, screenVars, LiveInv, BaseInv, TypeOK, RunsAreCounted,
     ScreensNeedProvider, ReadyMeansSubscribed, HooksAreKeyed, TouchedIsWhatChanged,
     ListenersHaveEntries, EntriesSeeWhatIs, ShownIsEntry, ListsArePrefixes, Fresh, Quiet
<1> QED
  BY <1>1, <1>2, <1>3, <1>4, <1>5, <1>6, <1>7, <1>8, <1>9 DEF Next, TxEnds, Screens, Db, DeliverSome

LEMMA LiveAlways == Spec => []LiveInv
BY LiveInitially, LiveStep, PTL DEF Spec

\* Every variable keeps its type: contents, counters and entries stay within
\* what QueryCache and the hooks hold.
THEOREM TypeCorrect == Spec => []TypeOK
<1>1. LiveInv => TypeOK
  BY DEF LiveInv, BaseInv
<1> QED
  BY <1>1, LiveAlways, PTL

\* QueryCache keeps an entry's listeners exact: whoever subscribeToEntry() has
\* let in is in the entry the cache holds now, and nobody else, whatever
\* mounts, key changes and unmounts of components with one key come together.
THEOREM ListenersHaveEntriesCorrect == Spec => []ListenersHaveEntries
<1>1. LiveInv => ListenersHaveEntries
  BY DEF LiveInv
<1> QED
  BY <1>1, LiveAlways, PTL

\* A component that listens to its key shows the table as it is, as soon as
\* every committed change has been told: no commit between a hook's render and
\* its subscription, and no failed or repeated query, leaves it behind unseen.
THEOREM ListenersSeeWhatIsCorrect == Spec => []ListenersSeeWhatIs
<1>1. LiveInv => ListenersSeeWhatIs
  <2> SUFFICES ASSUME LiveInv, NEW h \in Hooks, hook[h].phase = "mounted",
                      hook[h].listens = hook[h].key, hook[h].key \notin missed,
                      Quiet(TableOf[hook[h].key])
               PROVE  hook[h].shown = Fresh(hook[h].key) \/ entries[hook[h].key].error
    BY DEF ListenersSeeWhatIs
  <2> DEFINE k == hook[h].key
  <2>1. k \in Keys /\ hook[h].shown = entries[k].data
    BY DEF LiveInv, BaseInv, HooksAreKeyed, ShownIsEntry
  <2>2. entries[k] # NoEntry
    BY <2>1, ListenerIsListed
  <2> QED
    BY <2>1, <2>2 DEF LiveInv, EntriesSeeWhatIs
<1> QED
  BY <1>1, LiveAlways, PTL

\* SalveDbProvider: children are rendered only with the native subscription in
\* place, also when earlier providers' onMount() runs end late.
THEOREM ReadyMeansSubscribedCorrect == Spec => []ReadyMeansSubscribed
<1>1. LiveInv => ReadyMeansSubscribed
  BY DEF LiveInv, BaseInv
<1> QED
  BY <1>1, LiveAlways, PTL

\* useInfiniteQuery: whatever is fetched, re-keyed, reloaded and told in whichever
\* order, the pages follow one another, each once, up to the last that is counted.
\* They are the first ones unless a new key's first page has failed (gap), and what
\* the table holds once every change is told, unless the last could not be read or
\* was rolled back (stale).
THEOREM ListsArePrefixesCorrect == Spec => []ListsArePrefixes
<1>1. LiveInv => ListsArePrefixes
  BY DEF LiveInv
<1> QED
  BY <1>1, LiveAlways, PTL

=============================================================================
