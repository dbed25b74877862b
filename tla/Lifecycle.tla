----------------------------- MODULE Lifecycle ------------------------------
(***************************************************************************)
(* One process and its restarts: configure() and logout() on the           *)
(* JavaScript thread, reset() on a thread of its own, and the sync         *)
(* sessions of foreground triggers, background wakes and calls of          *)
(* triggerSync(). The sync lock orders them; the configuration file and    *)
(* the two stored tokens outlive the process. A session makes authorized   *)
(* calls, and refreshes the tokens once for a call the server answers with *)
(* 401. The server rotates both tokens at every refresh and every login.   *)
(***************************************************************************)
EXTENDS Naturals

CONSTANTS
  Configs,      \* what configure() is given: database, network and endpoints, all of them
  Workers,      \* threads that run sync sessions
  NoConfig, NoToken, Nobody,
  MaxOps,       \* bound: calls of configure(), logout() and reset()
  MaxTriggers,  \* bound: sync triggers
  MaxLogins,    \* bound: token pairs the server issues
  MaxCalls,     \* bound: calls of one session
  MaxFaults     \* bound: crashes, lost refresh answers, and steps that throw

ASSUME LifecycleAssumption ==
  /\ NoConfig \notin Configs /\ NoToken \notin Nat
  /\ {"js", "reset", Nobody} \cap Workers = {} /\ Nobody \notin {"js", "reset"}
  /\ {MaxOps, MaxTriggers, MaxLogins, MaxCalls, MaxFaults} \subseteq Nat

VARIABLES
  lock,       \* the holder of _syncMutex
  db,         \* the configuration whose database is open
  config,     \* credentials, network and background of DatabaseManager
  app,        \* _appConfigured
  file,       \* _salve_config.json
  access, refresh,  \* the stored tokens, by the pair they belong to
  server,     \* the pair the server accepts
  js, given, tokens,  \* the JavaScript thread, and configure()'s arguments
  resetter,   \* the thread of reset()
  worker,     \* the sync sessions
  signedOut,  \* history: logout() or reset() has returned, and nobody has logged in
  spoilt,     \* history: the stored pair cannot be the server's (see Spoils)
  unsaved,    \* history: a save has failed, or come beside a reset
  ops, triggers, faults

managerVars == <<db, config, app>>
tokenVars == <<access, refresh, server>>
jsVars == <<js, given, tokens>>
historyVars == <<signedOut, spoilt, unsaved>>
boundVars == <<ops, triggers, faults>>
vars == <<lock, managerVars, file, tokenVars, jsVars, resetter, worker, historyVars, boundVars>>

Pairs == 0..MaxLogins

Worker ==
  [step : {"off", "reopen", "try", "wait", "call", "refresh", "access", "store"},
   foreground : BOOLEAN,   \* started by triggerSyncAllFromNative()
   calls : 0..MaxCalls,    \* calls left
   failed : 0..2,          \* failedAttempts
   refreshed : BOOLEAN,
   pair : {NoToken} \cup Pairs]   \* the tokens of a refresh's answer

TypeOK ==
  /\ lock \in {Nobody, "js", "reset"} \cup Workers
  /\ {db, config, file, given} \subseteq {NoConfig} \cup Configs
  /\ app \in BOOLEAN
  /\ {access, refresh, tokens} \subseteq {NoToken} \cup Pairs
  /\ server \in Pairs
  /\ js \in {"idle", "configure", "seed", "save", "schedule", "logout", "forget"}
  /\ resetter \in {"off", "wait", "access", "refresh", "config", "file", "schedule"}
  /\ worker \in [Workers -> Worker]
  /\ {signedOut, spoilt, unsaved} \subseteq BOOLEAN
  /\ ops \in 0..MaxOps /\ triggers \in 0..MaxTriggers /\ faults \in 0..MaxFaults

Off == [step |-> "off", foreground |-> FALSE, calls |-> 0, failed |-> 0, refreshed |-> FALSE,
        pair |-> NoToken]

Init ==
  /\ lock = Nobody
  /\ db = NoConfig /\ config = NoConfig /\ app = FALSE
  /\ file = NoConfig
  /\ access = NoToken /\ refresh = NoToken /\ server = 0
  /\ js = "idle" /\ given = NoConfig /\ tokens = NoToken
  /\ resetter = "off"
  /\ worker = [w \in Workers |-> Off]
  /\ signedOut = FALSE /\ spoilt = FALSE /\ unsaved = FALSE
  /\ ops = 0 /\ triggers = 0 /\ faults = 0

Fault == faults < MaxFaults /\ faults' = faults + 1

\* A login, a refresh and a seed write the access token first: what comes
\* between that and the refresh token, an answer that gets lost, and a login
\* whose tokens configure() ignores leave a pair the server does not accept.
Spoils == spoilt' = TRUE

-----------------------------------------------------------------------------
(* The JavaScript thread. It waits for the lock without running anything.  *)

\* The application, which may have logged in, calls configure().
CallConfigure(c, login) ==
  /\ js = "idle" /\ ops < MaxOps
  /\ js' = "configure" /\ given' = c /\ ops' = ops + 1
  /\ IF login
       THEN /\ server < MaxLogins /\ server' = server + 1 /\ tokens' = server'
            /\ IF access # NoToken \/ refresh # NoToken THEN Spoils ELSE UNCHANGED spoilt
       ELSE UNCHANGED <<server, spoilt>> /\ tokens' = NoToken
  /\ unsaved' = (resetter # "off")
  /\ UNCHANGED <<lock, managerVars, file, access, refresh, resetter, worker, signedOut,
                 triggers, faults>>

\* seedInitialTokens() keeps a pair that is there.
Seeds == tokens # NoToken /\ (access = NoToken \/ refresh = NoToken)

\* configure() under the lock, up to the access token.
Configure ==
  /\ js = "configure" /\ lock = Nobody
  /\ lock' = "js" /\ js' = "seed"
  /\ db' = given /\ config' = given
  /\ access' = IF Seeds THEN tokens ELSE access
  /\ tokens' = IF Seeds THEN tokens ELSE NoToken
  /\ signedOut' = (signedOut /\ ~Seeds)
  /\ UNCHANGED <<app, file, refresh, server, given, resetter, worker, spoilt, unsaved, boundVars>>

\* A slip: the job is scheduled before the lock is released.
SeedAndSchedule ==
  /\ js = "seed"
  /\ refresh' = IF tokens # NoToken THEN tokens ELSE refresh
  /\ app' = TRUE
  /\ js' = "schedule" /\ tokens' = NoToken
  /\ UNCHANGED <<lock, db, config, file, access, server, given, resetter, worker,
                 historyVars, boundVars>>

Seed ==
  /\ js = "seed"
  /\ refresh' = IF tokens # NoToken THEN tokens ELSE refresh
  /\ app' = TRUE
  /\ lock' = Nobody /\ js' = "save" /\ tokens' = NoToken
  /\ UNCHANGED <<db, config, file, access, server, given, resetter, worker, historyVars, boundVars>>

\* The file is written after the lock is released, and replaced whole.
Save ==
  /\ js = "save"
  /\ file' = given
  /\ js' = "schedule" /\ given' = NoConfig
  /\ UNCHANGED <<lock, managerVars, tokenVars, tokens, resetter, worker, historyVars, boundVars>>

\* configure() throws what NativeConfigStore::save() throws.
SaveThrows ==
  /\ js = "save" /\ Fault
  /\ js' = "idle" /\ given' = NoConfig /\ unsaved' = TRUE
  /\ UNCHANGED <<lock, managerVars, file, tokenVars, tokens, resetter, worker, signedOut,
                 spoilt, ops, triggers>>

\* scheduleBackgroundSync() reads the constraints under the lock.
Schedule ==
  /\ js = "schedule" /\ lock = Nobody
  /\ js' = "idle"
  /\ UNCHANGED <<lock, managerVars, file, tokenVars, given, tokens, resetter, worker,
                 historyVars, boundVars>>

CallLogout ==
  /\ js = "idle" /\ ops < MaxOps
  /\ js' = "logout" /\ ops' = ops + 1
  /\ UNCHANGED <<lock, managerVars, file, tokenVars, given, tokens, resetter, worker,
                 historyVars, triggers, faults>>

\* A slip: logout() does not wait for the lock.
LogoutAtOnce ==
  /\ js = "logout"
  /\ js' = "forget"
  /\ access' = NoToken
  /\ UNCHANGED <<lock, managerVars, file, refresh, server, given, tokens, resetter, worker,
                 historyVars, boundVars>>

Logout ==
  /\ js = "logout" /\ lock = Nobody
  /\ lock' = "js" /\ js' = "forget"
  /\ access' = NoToken
  /\ UNCHANGED <<managerVars, file, refresh, server, given, tokens, resetter, worker,
                 historyVars, boundVars>>

Forget ==
  /\ js = "forget"
  /\ refresh' = NoToken
  /\ lock' = Nobody /\ js' = "idle"
  /\ signedOut' = TRUE /\ spoilt' = FALSE
  /\ UNCHANGED <<managerVars, file, access, server, given, tokens, resetter, worker, unsaved,
                 boundVars>>

Js ==
  \/ \E c \in Configs, login \in BOOLEAN : CallConfigure(c, login)
  \/ CallLogout

JsGoesOn == Configure \/ Seed \/ Save \/ SaveThrows \/ Schedule \/ Logout \/ Forget

-----------------------------------------------------------------------------
(* reset(): nothing makes JavaScript await it.                             *)

CallReset ==
  /\ js = "idle" /\ resetter = "off" /\ ops < MaxOps
  /\ resetter' = "wait" /\ ops' = ops + 1
  /\ UNCHANGED <<lock, managerVars, file, tokenVars, jsVars, worker, historyVars, triggers, faults>>

\* The wipe succeeds or throws; either way the reset goes on.
Reset ==
  /\ resetter = "wait" /\ lock = Nobody
  /\ lock' = "reset" /\ resetter' = "access"
  /\ UNCHANGED <<managerVars, file, tokenVars, jsVars, worker, historyVars, boundVars>>

ResetAccess ==
  /\ resetter = "access"
  /\ access' = NoToken /\ resetter' = "refresh"
  /\ UNCHANGED <<lock, managerVars, file, refresh, server, jsVars, worker, historyVars, boundVars>>

ResetRefresh ==
  /\ resetter = "refresh"
  /\ refresh' = NoToken /\ resetter' = "config" /\ spoilt' = FALSE
  /\ UNCHANGED <<lock, managerVars, file, access, server, jsVars, worker, signedOut,
                 unsaved, boundVars>>

\* resetConfig() leaves the database open.
ResetConfig ==
  /\ resetter = "config"
  /\ config' = NoConfig /\ app' = FALSE /\ resetter' = "file"
  /\ UNCHANGED <<lock, db, file, tokenVars, jsVars, worker, historyVars, boundVars>>

\* remove() may throw, which reset() passes on when it has done the rest.
ResetFile ==
  /\ resetter = "file"
  /\ \/ file' = NoConfig /\ UNCHANGED <<faults, unsaved>>
     \/ Fault /\ unsaved' = TRUE /\ UNCHANGED file
  /\ lock' = Nobody /\ resetter' = "schedule"
  /\ signedOut' = TRUE
  /\ UNCHANGED <<managerVars, tokenVars, jsVars, worker, spoilt, ops, triggers>>

ResetSchedule ==
  /\ resetter = "schedule" /\ lock = Nobody
  /\ resetter' = "off"
  /\ UNCHANGED <<lock, managerVars, file, tokenVars, jsVars, worker, historyVars, boundVars>>

Resetter == Reset \/ ResetAccess \/ ResetRefresh \/ ResetConfig \/ ResetFile \/ ResetSchedule

-----------------------------------------------------------------------------
(* Sync sessions.                                                          *)

Goes(w, r) == worker' = [worker EXCEPT ![w] = r]

sessionFrame == <<managerVars, file, jsVars, resetter, signedOut, unsaved, ops>>

Trigger(w, foreground, step) ==
  /\ worker[w].step = "off" /\ triggers < MaxTriggers
  /\ triggers' = triggers + 1
  /\ Goes(w, [Off EXCEPT !.step = step, !.foreground = foreground])
  /\ UNCHANGED <<lock, sessionFrame, tokenVars, spoilt, faults>>

\* A slip: the gate asks whether a database is open.
TriggerForegroundWhenOpen(w) == db # NoConfig /\ Trigger(w, TRUE, "try")

\* The application comes to the foreground.
TriggerForeground(w) == app /\ Trigger(w, TRUE, "try")

\* The system wakes the application; JavaScript may never run.
WakeBackground(w) == Trigger(w, FALSE, IF db = NoConfig THEN "reopen" ELSE "try")

\* triggerSync() and triggerSyncAll(), which wait or are discarded.
TriggerSync(w) == db # NoConfig /\ \E step \in {"wait", "try"} : Trigger(w, FALSE, step)

\* A slip: what is open is not looked at again under the lock.
ReopenAnyway(w) ==
  /\ worker[w].step = "reopen" /\ lock = Nobody
  /\ IF file # NoConfig
       THEN Goes(w, [worker[w] EXCEPT !.step = "try"]) /\ db' = file /\ config' = file
       ELSE Goes(w, Off) /\ UNCHANGED <<db, config>>
  /\ UNCHANGED <<lock, app, file, tokenVars, jsVars, resetter, historyVars, boundVars>>

\* reopenFromPersistedConfigIfNeeded(), which looks again under the lock.
Reopen(w) ==
  /\ worker[w].step = "reopen" /\ lock = Nobody
  /\ CASE db # NoConfig -> Goes(w, [worker[w] EXCEPT !.step = "try"]) /\ UNCHANGED <<db, config>>
       [] db = NoConfig /\ file # NoConfig ->
            Goes(w, [worker[w] EXCEPT !.step = "try"]) /\ db' = file /\ config' = file
       [] OTHER -> Goes(w, Off) /\ UNCHANGED <<db, config>>
  /\ UNCHANGED <<lock, app, file, tokenVars, jsVars, resetter, historyVars, boundVars>>

\* try_lock() fails, and the trigger is discarded.
Discard(w) ==
  /\ worker[w].step = "try" /\ lock # Nobody
  /\ Goes(w, Off)
  /\ UNCHANGED <<lock, sessionFrame, tokenVars, spoilt, triggers, faults>>

Enter(w) ==
  /\ worker[w].step \in {"try", "wait"} /\ lock = Nobody
  /\ lock' = w
  /\ Goes(w, [worker[w] EXCEPT !.step = "call", !.calls = MaxCalls])
  /\ UNCHANGED <<sessionFrame, tokenVars, spoilt, triggers, faults>>

Leave(w) == lock' = Nobody /\ Goes(w, Off)

\* A session without calls left ends. Without credentials, network or an
\* access token, or with a call that fails, it ends early.
EndSession(w) ==
  /\ worker[w].step = "call"
  /\ Leave(w)
  /\ UNCHANGED <<sessionFrame, tokenVars, spoilt, triggers, faults>>

CanCall(w) ==
  worker[w].step = "call" /\ worker[w].calls > 0 /\ config # NoConfig /\ access # NoToken

NextCall(w) == [worker[w] EXCEPT !.calls = @ - 1, !.failed = 0, !.refreshed = FALSE]

\* The server accepts the token.
CallSucceeds(w) ==
  /\ CanCall(w) /\ access = server
  /\ Goes(w, NextCall(w))
  /\ UNCHANGED <<lock, sessionFrame, tokenVars, spoilt, triggers, faults>>

\* A slip: one attempt more.
CallLostOften(w) ==
  /\ CanCall(w)
  /\ IF worker[w].failed <= 2
       THEN Goes(w, [worker[w] EXCEPT !.failed = @ + 1]) /\ UNCHANGED lock
       ELSE Leave(w)
  /\ UNCHANGED <<sessionFrame, tokenVars, spoilt, triggers, faults>>

\* kMaxAttempts failures of the network end the session.
CallLost(w) ==
  /\ CanCall(w)
  /\ IF worker[w].failed < 2
       THEN Goes(w, [worker[w] EXCEPT !.failed = @ + 1]) /\ UNCHANGED lock
       ELSE Leave(w)
  /\ UNCHANGED <<sessionFrame, tokenVars, spoilt, triggers, faults>>

\* 401, also for a token that has expired: the first of a call is answered
\* with a refresh, a second one is the call's answer.
CallRefused(w) ==
  /\ CanCall(w)
  /\ Goes(w, IF worker[w].refreshed THEN NextCall(w) ELSE [worker[w] EXCEPT !.step = "refresh"])
  /\ UNCHANGED <<lock, sessionFrame, tokenVars, spoilt, triggers, faults>>

\* The server rotates the pair for the refresh token it has issued last.
Refresh(w) ==
  /\ worker[w].step = "refresh" /\ refresh = server /\ server < MaxLogins
  /\ server' = server + 1
  /\ Goes(w, [worker[w] EXCEPT !.step = "access", !.pair = server'])
  /\ UNCHANGED <<lock, sessionFrame, access, refresh, spoilt, triggers, faults>>

\* The server rotates the pair, and its answer does not arrive.
RefreshLost(w) ==
  /\ worker[w].step = "refresh" /\ refresh = server /\ server < MaxLogins /\ Fault
  /\ server' = server + 1 /\ Spoils
  /\ Leave(w)
  /\ UNCHANGED <<sessionFrame, access, refresh, triggers>>

\* No refresh token, or not the server's, or the network fails.
RefreshFails(w) ==
  /\ worker[w].step = "refresh"
  /\ Leave(w)
  /\ UNCHANGED <<sessionFrame, tokenVars, spoilt, triggers, faults>>

StoreAccess(w) ==
  /\ worker[w].step = "access"
  /\ access' = worker[w].pair
  /\ Goes(w, [worker[w] EXCEPT !.step = "store"])
  /\ UNCHANGED <<lock, sessionFrame, refresh, server, spoilt, triggers, faults>>

\* A slip: the rotated refresh token is not kept.
StoreAccessOnly(w) ==
  /\ worker[w].step = "store"
  /\ Goes(w, [worker[w] EXCEPT !.step = "call", !.refreshed = TRUE, !.pair = NoToken])
  /\ UNCHANGED <<lock, sessionFrame, tokenVars, spoilt, triggers, faults>>

StoreRefresh(w) ==
  /\ worker[w].step = "store"
  /\ refresh' = worker[w].pair
  /\ Goes(w, [worker[w] EXCEPT !.step = "call", !.refreshed = TRUE, !.pair = NoToken])
  /\ UNCHANGED <<lock, sessionFrame, access, server, spoilt, triggers, faults>>

SessionGoesOn(w) ==
  \/ Reopen(w) \/ Discard(w) \/ Enter(w) \/ EndSession(w)
  \/ CallSucceeds(w) \/ CallLost(w) \/ CallRefused(w)
  \/ Refresh(w) \/ RefreshLost(w) \/ RefreshFails(w) \/ StoreAccess(w) \/ StoreRefresh(w)

-----------------------------------------------------------------------------
\* The process dies. The file and the tokens stay as they are.
Crash ==
  /\ Fault
  /\ lock' = Nobody
  /\ db' = NoConfig /\ config' = NoConfig /\ app' = FALSE
  /\ js' = "idle" /\ given' = NoConfig /\ tokens' = NoToken
  /\ resetter' = "off"
  /\ worker' = [w \in Workers |-> Off]
  /\ spoilt' = (spoilt \/ access # refresh \/ \E w \in Workers : worker[w].step = "access")
  /\ unsaved' = FALSE
  /\ UNCHANGED <<file, tokenVars, signedOut, ops, triggers>>

Next ==
  \/ Js \/ JsGoesOn
  \/ CallReset \/ Resetter
  \/ \E w \in Workers :
       TriggerForeground(w) \/ WakeBackground(w) \/ TriggerSync(w) \/ SessionGoesOn(w)
  \/ Crash

Spec == Init /\ [][Next]_vars

\* Every thread goes on; a call of the network returns, if only by its timeout.
FairSpec ==
  /\ Spec
  /\ WF_vars(JsGoesOn) /\ WF_vars(Resetter)
  /\ \A w \in Workers : WF_vars(SessionGoesOn(w))

-----------------------------------------------------------------------------
(* What the lock is for.                                                   *)

InSession(w) == worker[w].step \in {"call", "refresh", "access", "store"}

\* A session begins and ends under one configuration, and nobody else writes
\* the tokens it works with.
SessionIsUndisturbed ==
  [][\A w \in Workers : InSession(w) /\ InSession(w)' =>
       /\ UNCHANGED <<db, config>>
       /\ worker'[w] = worker[w] => UNCHANGED <<access, refresh>>]_vars

\* Once logout() or reset() has returned, also a reset whose wipe has failed,
\* no token is stored until the application logs in again: a refresh that was
\* under way does not bring one back.
SignedOutStaysSignedOut == signedOut => access = NoToken /\ refresh = NoToken

\* With the lock free, the stored tokens are the pair the server has issued
\* last, or none: calls can be authorized, or refreshed, unless the process
\* died between the two writes, an answer was lost, or a login went unheeded.
StoredPairIsCurrent ==
  lock = Nobody /\ ~spoilt => access = refresh /\ access \in {NoToken, server}

\* The first configure() of a process, on the JavaScript thread, does not wait
\* for the network calls of a foreground trigger.
FirstConfigureIsQuick ==
  \A w \in Workers :
    js = "configure" /\ ~app /\ lock = w /\ worker[w].foreground => ~CanCall(w)

\* What a background wake would find after a restart is what is configured
\* now, unless the file could not be written or removed, or the application
\* called configure() without awaiting reset().
FileIsConfiguration ==
  js = "idle" /\ resetter = "off" /\ db # NoConfig /\ ~unsaved => file = config

\* configure() and logout() return, whoever holds the lock when they come.
JsReturns == js # "idle" ~> js = "idle"

=============================================================================
