---------------------------- MODULE LiveQueries -----------------------------
(***************************************************************************)
(* What a screen shows: QueryCache, useQuery and useInfiniteQuery over the *)
(* change notifications of the native connection. A commit, on whichever   *)
(* thread, queues one notification for the JavaScript thread; a hook       *)
(* queries while it renders and subscribes later, in an effect, and other  *)
(* tasks of the JavaScript thread may run between the two. React runs the  *)
(* effects of a commit together, those of leaving hooks first.             *)
(*                                                                         *)
(* A table's content is a number that every write replaces by a new one; a *)
(* query's result is its table's content when the query ran.               *)
(***************************************************************************)
EXTENDS Naturals, Sequences

CONSTANTS
  Tables,
  Keys,        \* the query keys
  TableOf,     \* the table each of them reads
  Hooks,       \* components that call useQuery
  Lists,       \* components that call useInfiniteQuery
  ListTable,   \* the table those read
  NoKey, NoEntry,
  MaxWrites,   \* bound: writes
  MaxMounts,   \* bound: how often a component mounts, or changes its key
  MaxPages,    \* bound: pages of a list
  MaxFaults    \* bound: queries and registrations that throw

ASSUME LiveQueriesAssumption ==
  /\ TableOf \in [Keys -> Tables] /\ ListTable \in Tables
  /\ Hooks \cap Lists = {} /\ NoKey \notin Keys
  /\ MaxWrites \in Nat /\ MaxMounts \in Nat /\ MaxPages \in Nat /\ MaxFaults \in Nat

VARIABLES
  live,      \* each table as a statement of the connection sees it
  saved,     \* each table at BEGIN
  inTx,      \* the sync worker has a transaction open
  touched,   \* the tables written in it
  inbox,     \* notifications on their way to JavaScript
  provider,  \* "off", "registering", "ready", "failed"
  mounting,  \* runs of the provider's onMount() that have not ended
  native,    \* the native subscription is there
  entries,   \* QueryCache._entries
  hook,      \* each useQuery
  list,      \* each useInfiniteQuery
  missed,    \* history: keys whose entry a change has passed by
  clock, mounts, faults

dbVars == <<live, saved, inTx, touched, clock>>
providerVars == <<provider, mounting, native>>
screenVars == <<entries, hook, list, missed, mounts, faults>>
vars == <<dbVars, inbox, providerVars, screenVars>>

Contents == 0..MaxWrites

Hook == [phase : {"off", "rendered", "mounted", "leaving"},
         key : {NoKey} \cup Keys,        \* rendered with
         listens : {NoKey} \cup Keys,    \* the entry its subscription is on
         shown : Contents]
\* Each page of a list has its index and the content it is a slice of.
List == [phase : {"off", "mounted"}, pages : Seq([index : Nat, data : Contents]),
         count : Nat,                    \* pageCountRef
         error : BOOLEAN,
         gap : BOOLEAN,                  \* history: see ReloadFails
         stale : BOOLEAN]                \* history: it has not read the latest change it should have
Entry == [data : Contents, error : BOOLEAN, listeners : SUBSET Hooks]

ASSUME EntryAssumption == NoEntry \notin Entry

TypeOK ==
  /\ live \in [Tables -> Contents] /\ saved \in [Tables -> Contents]
  /\ inTx \in BOOLEAN
  /\ touched \in SUBSET Tables
  /\ inbox \in Seq(SUBSET Tables)
  /\ provider \in {"off", "registering", "ready", "failed"}
  /\ mounting \in Nat
  /\ native \in BOOLEAN
  /\ entries \in [Keys -> {NoEntry} \cup Entry]
  /\ hook \in [Hooks -> Hook]
  /\ list \in [Lists -> List]
  /\ missed \in SUBSET Keys
  /\ clock \in 0..MaxWrites /\ mounts \in 0..MaxMounts /\ faults \in 0..MaxFaults

NoHook == [phase |-> "off", key |-> NoKey, listens |-> NoKey, shown |-> 0]
NoList == [phase |-> "off", pages |-> <<>>, count |-> 0, error |-> FALSE,
           gap |-> FALSE, stale |-> FALSE]

Init ==
  /\ live = [t \in Tables |-> 0] /\ saved = live
  /\ inTx = FALSE /\ touched = {}
  /\ inbox = <<>>
  /\ provider = "off" /\ mounting = 0 /\ native = FALSE
  /\ entries = [k \in Keys |-> NoEntry]
  /\ hook = [h \in Hooks |-> NoHook]
  /\ list = [l \in Lists |-> NoList]
  /\ missed = {}
  /\ clock = 0 /\ mounts = 0 /\ faults = 0

-----------------------------------------------------------------------------
(* The database, and what it tells JavaScript.                             *)

\* A slip: subscribers are told before the flag is cleared, and so not at all.
NotifyOutsideTx(T) == inbox' = IF native /\ T # {} /\ ~inTx THEN Append(inbox, T) ELSE inbox

Notify(T) == inbox' = IF native /\ T # {} THEN Append(inbox, T) ELSE inbox

\* A statement, of the sync worker or of the application. Outside a
\* transaction it is told of at once; in one, with the commit.
Write(t) ==
  /\ clock < MaxWrites
  /\ clock' = clock + 1
  /\ live' = [live EXCEPT ![t] = clock']
  /\ IF inTx THEN touched' = touched \cup {t} /\ UNCHANGED inbox
             ELSE Notify({t}) /\ UNCHANGED touched
  /\ UNCHANGED <<saved, inTx, providerVars, screenVars>>

Begin ==
  /\ ~inTx
  /\ inTx' = TRUE /\ saved' = live
  /\ UNCHANGED <<live, touched, clock, inbox, providerVars, screenVars>>

Commit ==
  /\ inTx
  /\ inTx' = FALSE /\ touched' = {}
  /\ Notify(touched)
  /\ UNCHANGED <<live, saved, clock, providerVars, screenVars>>

\* Nobody is told, also not those who have read what is rolled back.
Rollback ==
  /\ inTx
  /\ inTx' = FALSE /\ touched' = {} /\ live' = saved
  /\ missed' = missed \cup {k \in Keys : TableOf[k] \in touched}
  /\ list' = [l \in Lists |-> [list[l] EXCEPT !.stale = @ \/ ListTable \in touched]]
  /\ UNCHANGED <<saved, clock, inbox, providerVars, entries, hook, mounts, faults>>

-----------------------------------------------------------------------------
(* SalveDbProvider.                                                        *)

MountProvider ==
  /\ provider = "off" /\ mounts < MaxMounts
  /\ provider' = "registering"
  /\ mounting' = mounting + 1
  /\ mounts' = mounts + 1
  /\ UNCHANGED <<dbVars, inbox, native, entries, hook, list, missed, faults>>

\* onMount() has registered every schema: it subscribes, and is ready.
Ready ==
  /\ provider = "registering"
  /\ provider' = "ready" /\ native' = TRUE /\ mounting' = mounting - 1
  /\ UNCHANGED <<dbVars, inbox, screenVars>>

\* A slip: a run that finds itself cancelled undoes the subscription.
CancelledRunUndoes ==
  /\ mounting > (IF provider = "registering" THEN 1 ELSE 0)
  /\ mounting' = mounting - 1
  /\ native' = FALSE
  /\ UNCHANGED <<provider, dbVars, inbox, screenVars>>

\* The run of a provider that has gone subscribes all the same.
CancelledRunEnds ==
  /\ mounting > (IF provider = "registering" THEN 1 ELSE 0)
  /\ mounting' = mounting - 1
  /\ native' = TRUE
  /\ UNCHANGED <<provider, dbVars, inbox, screenVars>>

\* configure() or a registration throws: children see the error, and no query runs.
RegistrationFails ==
  /\ provider = "registering" /\ faults < MaxFaults
  /\ provider' = "failed" /\ mounting' = mounting - 1 /\ faults' = faults + 1
  /\ UNCHANGED <<native, dbVars, inbox, entries, hook, list, missed, mounts>>

\* A run that fails for a provider that has gone leaves nothing.
CancelledRunFails ==
  /\ mounting > (IF provider = "registering" THEN 1 ELSE 0) /\ faults < MaxFaults
  /\ mounting' = mounting - 1 /\ faults' = faults + 1
  /\ UNCHANGED <<provider, native, dbVars, inbox, entries, hook, list, missed, mounts>>

\* Its screens unmount with it: unsubscribeNative() drops every entry.
UnmountProvider ==
  /\ provider # "off"
  /\ provider' = "off" /\ native' = FALSE
  /\ entries' = [k \in Keys |-> NoEntry]
  /\ hook' = [h \in Hooks |-> NoHook]
  /\ list' = [l \in Lists |-> NoList]
  /\ missed' = {}
  /\ UNCHANGED <<dbVars, inbox, mounting, mounts, faults>>

Provide ==
  \/ MountProvider \/ Ready \/ RegistrationFails
  \/ CancelledRunEnds \/ CancelledRunFails \/ UnmountProvider

-----------------------------------------------------------------------------
(* QueryCache and the hooks.                                               *)

Fresh(k) == live[TableOf[k]]
NewEntry(k) == [data |-> Fresh(k), error |-> FALSE, listeners |-> {}]

\* getOrCreateEntry(): the query runs only for a key without an entry.
GetOrCreate(es, k) == IF es[k] = NoEntry THEN [es EXCEPT ![k] = NewEntry(k)] ELSE es

\* A component renders for the first time, or with other deps.
Render(h, k) ==
  /\ provider = "ready" /\ mounts < MaxMounts
  /\ hook[h].phase \in {"off", "mounted"} /\ hook[h].key # k
  /\ entries' = GetOrCreate(entries, k)
  /\ hook' = [hook EXCEPT ![h] = [phase |-> "rendered", key |-> k, listens |-> @.listens,
                                  shown |-> entries'[k].data]]
  /\ missed' = IF entries[k] = NoEntry THEN missed \ {k} ELSE missed
  /\ mounts' = mounts + 1
  /\ UNCHANGED <<dbVars, inbox, providerVars, list, faults>>

\* A render React gives up before it commits leaves its entry behind.
Abandon(h) ==
  /\ hook[h].phase = "rendered" /\ hook[h].listens = NoKey
  /\ hook' = [hook EXCEPT ![h] = NoHook]
  /\ UNCHANGED <<dbVars, inbox, providerVars, entries, list, missed, mounts, faults>>

\* A component is not part of what is rendered next.
Leave(h) ==
  /\ hook[h].phase = "mounted"
  /\ hook' = [hook EXCEPT ![h].phase = "leaving"]
  /\ UNCHANGED <<dbVars, inbox, providerVars, entries, list, missed, mounts, faults>>

\* A slip: the first listener to go deletes the entry.
UnsubscribedForAll(H) ==
  [k \in Keys |-> IF \E h \in H : hook[h].listens = k THEN NoEntry ELSE entries[k]]

\* subscribeToEntry()'s cleanup, of the hooks H: the last to go deletes the entry.
Unsubscribed(H) ==
  [k \in Keys |->
     LET going == {h \in H : hook[h].listens = k}
     IN CASE entries[k] = NoEntry \/ going = {} -> entries[k]
          [] OTHER -> IF entries[k].listeners \subseteq going THEN NoEntry
                      ELSE [entries[k] EXCEPT !.listeners = @ \ going]]

\* subscribeToEntry(): a hook whose key has no entry subscribes to nothing.
Subscribed(es, H) ==
  [k \in Keys |-> IF es[k] = NoEntry THEN NoEntry
                  ELSE [es[k] EXCEPT !.listeners = @ \cup {h \in H : hook[h].key = k}]]

\* React runs the effects of what it has committed: cleanups first, then the
\* subscriptions. useSyncExternalStore looks at the snapshot again, and a hook
\* whose entry is gone renders once more, which makes a new one.
Effects ==
  LET coming  == {h \in Hooks : hook[h].phase = "rendered"}
      leaving == {h \in Hooks : hook[h].phase = "leaving"}
      cleaned == Unsubscribed(coming \cup leaving)
      joined  == Subscribed(cleaned, coming)
      again   == {hook[h].key : h \in {z \in coming : cleaned[hook[z].key] = NoEntry}}
  IN /\ coming \cup leaving # {}
     /\ entries' = [k \in Keys |-> IF k \in again THEN NewEntry(k) ELSE joined[k]]
     /\ hook' = [h \in Hooks |->
          IF h \in leaving THEN NoHook
          ELSE IF h \notin coming THEN hook[h]
          ELSE [phase |-> "mounted", key |-> hook[h].key, shown |-> entries'[hook[h].key].data,
                listens |-> IF hook[h].key \in again THEN NoKey ELSE hook[h].key]]
     /\ missed' = (missed \ {k \in Keys : entries'[k] = NoEntry}) \ again
     /\ UNCHANGED <<dbVars, inbox, providerVars, list, mounts, faults>>

\* It renders again for a reason of its own; a hook that listens has already.
Rerender(h) ==
  /\ hook[h].phase = "mounted" /\ hook[h].listens = NoKey
  /\ entries' = GetOrCreate(entries, hook[h].key)
  /\ hook' = [hook EXCEPT ![h].shown = entries'[hook[h].key].data]
  /\ missed' = IF entries[hook[h].key] = NoEntry THEN missed \ {hook[h].key} ELSE missed
  /\ UNCHANGED <<dbVars, inbox, providerVars, list, mounts, faults>>

-----------------------------------------------------------------------------
(* useInfiniteQuery. Its reload() and its subscription are effects of one  *)
(* commit, and a reload for a new key is one with the render that asks for *)
(* it: until then the list shows nothing.                                  *)

Reloaded(r) ==
  [r EXCEPT !.pages = <<[index |-> 0, data |-> live[ListTable]]>>, !.count = 1,
            !.error = FALSE, !.gap = FALSE, !.stale = FALSE]

\* A slip: a reload that fails takes a page off the count.
ReloadFailsUncounting(r) == [r EXCEPT !.pages = <<>>, !.count = @ - 1, !.error = TRUE]

\* The first page of a new key cannot be read: the pages of the old key go and
\* their count stays, which the next page then starts from.
ReloadFails(r) ==
  [r EXCEPT !.pages = <<>>, !.error = TRUE, !.gap = r.count > 0, !.stale = FALSE]

\* The table has changed and cannot be read: the old pages stay.
RefreshFails(r) == [r EXCEPT !.error = TRUE, !.stale = TRUE]

Reload(l, r, ok) ==
  /\ list' = [list EXCEPT ![l] = IF ok THEN Reloaded(r) ELSE ReloadFails(r)]
  /\ ok \/ faults < MaxFaults
  /\ faults' = IF ok THEN faults ELSE faults + 1

MountList(l, ok) ==
  /\ provider = "ready" /\ list[l].phase = "off" /\ mounts < MaxMounts
  /\ Reload(l, [NoList EXCEPT !.phase = "mounted"], ok)
  /\ mounts' = mounts + 1
  /\ UNCHANGED <<dbVars, inbox, providerVars, entries, hook, missed>>

RekeyList(l, ok) ==
  /\ list[l].phase = "mounted" /\ mounts < MaxMounts
  /\ Reload(l, list[l], ok)
  /\ mounts' = mounts + 1
  /\ UNCHANGED <<dbVars, inbox, providerVars, entries, hook, missed>>

UnmountList(l) ==
  /\ list[l].phase = "mounted"
  /\ list' = [list EXCEPT ![l] = NoList]
  /\ UNCHANGED <<dbVars, inbox, providerVars, entries, hook, missed, mounts, faults>>

\* A slip: a page that cannot be read is counted.
FetchNextPageCounting(l, ok) ==
  /\ list[l].phase = "mounted" /\ list[l].count < MaxPages
  /\ list' = [list EXCEPT
       ![l].pages = IF ok THEN Append(@, [index |-> list[l].count, data |-> live[ListTable]]) ELSE @,
       ![l].count = @ + 1,
       ![l].error = ~ok]
  /\ ok \/ faults < MaxFaults
  /\ faults' = IF ok THEN faults ELSE faults + 1
  /\ UNCHANGED <<dbVars, inbox, providerVars, entries, hook, missed, mounts>>

FetchNextPage(l, ok) ==
  /\ list[l].phase = "mounted" /\ list[l].count < MaxPages
  /\ list' = [list EXCEPT
       ![l].pages = IF ok THEN Append(@, [index |-> list[l].count, data |-> live[ListTable]]) ELSE @,
       ![l].count = IF ok THEN @ + 1 ELSE @,
       ![l].error = ~ok]
  /\ ok \/ faults < MaxFaults
  /\ faults' = IF ok THEN faults ELSE faults + 1
  /\ UNCHANGED <<dbVars, inbox, providerVars, entries, hook, missed, mounts>>

-----------------------------------------------------------------------------
\* Entries of the tables T that somebody listens to.
Claimed(T) ==
  {k \in Keys : TableOf[k] \in T /\ entries[k] # NoEntry /\ entries[k].listeners # {}}

\* A slip: a query that has failed gets its error cleared and not its data.
RerunAfterError(e, k, ok) ==
  IF ~ok THEN [e EXCEPT !.error = TRUE]
  ELSE IF e.error THEN [e EXCEPT !.error = FALSE] ELSE [e EXCEPT !.data = Fresh(k)]

\* _runQuery(): a query that throws keeps the data it had.
Rerun(e, k, ok) ==
  IF ok THEN [e EXCEPT !.data = Fresh(k), !.error = FALSE] ELSE [e EXCEPT !.error = TRUE]

\* _onTablesChanged(): the entries somebody listens to run again and their
\* listeners render; a list reloads, keeping its pages if that fails (and the
\* next page that can be read takes the error away). The queries of the keys K
\* and of the lists L throw.
Deliver(K, L) ==
  LET T == Head(inbox)
      reload == {l \in Lists : ListTable \in T /\ list[l].phase = "mounted"}
  IN /\ inbox # <<>>
     /\ K \subseteq Claimed(T) /\ L \subseteq reload
     /\ (K = {} /\ L = {}) \/ faults < MaxFaults
     /\ inbox' = Tail(inbox)
     /\ entries' = [k \in Keys |->
          IF k \in Claimed(T) THEN Rerun(entries[k], k, k \notin K) ELSE entries[k]]
     /\ hook' = [h \in Hooks |->
          IF hook[h].listens = hook[h].key /\ hook[h].key \in Claimed(T)
            THEN [hook[h] EXCEPT !.shown = entries'[hook[h].key].data]
            ELSE hook[h]]
     /\ list' = [l \in Lists |->
          IF l \notin reload THEN list[l]
          ELSE IF l \in L THEN RefreshFails(list[l]) ELSE Reloaded(list[l])]
     /\ missed' = (missed \cup {k \in Keys : TableOf[k] \in T /\ entries[k] # NoEntry})
                    \ (Claimed(T) \ K)
     /\ faults' = IF K = {} /\ L = {} THEN faults ELSE faults + 1
     /\ UNCHANGED <<dbVars, providerVars, mounts>>

DeliverSome == \E K \in SUBSET Keys, L \in SUBSET Lists : Deliver(K, L)

TxEnds == Commit \/ Rollback

Screens ==
  \/ \E h \in Hooks : Abandon(h) \/ Leave(h) \/ Rerender(h) \/ \E k \in Keys : Render(h, k)
  \/ Effects
  \/ \E l \in Lists : UnmountList(l) \/ \E ok \in BOOLEAN :
       MountList(l, ok) \/ RekeyList(l, ok) \/ FetchNextPage(l, ok)

Next ==
  \/ \E t \in Tables : Write(t)
  \/ Begin \/ TxEnds
  \/ Provide
  \/ Screens
  \/ DeliverSome

Spec == Init /\ [][Next]_vars

\* The JavaScript thread takes up what is queued, and an apply ends.
FairSpec == Spec /\ WF_vars(DeliverSome) /\ WF_vars(TxEnds)

-----------------------------------------------------------------------------
(* What a screen may rely on.                                              *)

\* No change to t is under way to JavaScript, and none is uncommitted.
Quiet(t) ==
  /\ \A i \in DOMAIN inbox : t \notin inbox[i]
  /\ ~(inTx /\ t \in touched)

\* An entry's listeners are exactly the hooks whose subscription is on its key, and
\* nobody listens to an entry that is no longer the cache's, however mounts, key
\* changes and unmounts of components with the same key follow one another. (An
\* entry nobody listens to may be left: by a render that React gave up, or before
\* its effects.)
ListenersHaveEntries ==
  \A k \in Keys :
    LET listening == {h \in Hooks : hook[h].listens = k}
    IN IF entries[k] = NoEntry THEN listening = {} ELSE entries[k].listeners = listening

\* Components that listen to a key show the table as it is once what has been
\* committed has been told, unless their query failed or the entry they share
\* has missed a change (see LiveQueryRefreshes).
ListenersSeeWhatIs ==
  \A h \in Hooks :
    LET k == hook[h].key
    IN hook[h].phase = "mounted" /\ hook[h].listens = k /\ k \notin missed /\ Quiet(TableOf[k])
         => hook[h].shown = Fresh(k) \/ entries[k].error

\* Under a provider that is ready the native subscription is there, also when
\* providers have come and gone while schemas were being registered.
ReadyMeansSubscribed == provider = "ready" => native

\* A list's pages follow one another, each once and in order, up to the last it
\* counts. They start with the first, unless the list has failed to load for a new
\* key and fetched on from the old key's count (gap), and they hold what the
\* table holds as soon as every change has been told, unless the list could not be
\* read when it was last told of one, or has read what was rolled back (stale).
\* "Pagination state never drifts from what's on disk" (useInfiniteQuery/index.ts:15,
\* website/docs/api-reference/hooks.md:82) makes neither of those two exceptions.
ListsArePrefixes ==
  \A l \in Lists : list[l].phase = "mounted" =>
    LET pages == list[l].pages
    IN /\ Len(pages) <= list[l].count
       /\ ~list[l].gap => list[l].count = Len(pages)
       /\ \A i \in DOMAIN pages :
            /\ pages[i].index + Len(pages) = list[l].count + i - 1
            /\ ~list[l].stale /\ Quiet(ListTable) => pages[i].data = live[ListTable]

\* Whatever is written meanwhile, every component that listens comes to show
\* its table as it is, again and again, or says that its query failed.
ScreensCatchUp ==
  \A h \in Hooks : []<>(\/ hook[h].phase # "mounted" \/ hook[h].listens = NoKey
                        \/ hook[h].key \in missed \/ entries[hook[h].key].error
                        \/ hook[h].shown = Fresh(hook[h].key))

-----------------------------------------------------------------------------
(* What the repository says of live queries and its code does not do.      *)

\* "it automatically re-runs and re-renders whenever a write touches schema's
\* table, no matter the source" (src/hooks/useQuery/index.ts:13,
\* website/docs/api-reference/hooks.md:33).
LiveQueryRefreshes ==
  \A h \in Hooks :
    LET k == hook[h].key
    IN hook[h].phase = "mounted" /\ Quiet(TableOf[k]) => hook[h].shown = Fresh(k) \/ entries[k].error

=============================================================================
