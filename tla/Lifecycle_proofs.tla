------------------------- MODULE Lifecycle_proofs ----------------------------
(***************************************************************************)
(* The sync lock keeps sessions, configure(), logout() and reset() apart,  *)
(* and with them the tokens, the configuration and its file in step: for   *)
(* any number of sessions, calls, logins and faults.                       *)
(***************************************************************************)
EXTENDS Lifecycle, TLAPS

(***************************************************************************)
(* The inductive invariant.                                                *)
(***************************************************************************)

\* One holder: the thread that is where the lock is taken and not yet released.
LockFits ==
  /\ lock = "js" <=> js \in {"seed", "forget"}
  /\ lock = "reset" <=> resetter \in {"access", "refresh", "config", "file"}
  /\ \A w \in Workers : lock = w <=> InSession(w)

\* Nothing is newer than the pair the server has issued last, and a login that
\* configure() has not stored yet is that pair and nowhere else.
PairsFit ==
  /\ {access, refresh, tokens} \subseteq {NoToken} \cup 0..server
  /\ \A w \in Workers : worker[w].pair \in {NoToken} \cup 0..server
  /\ js \in {"configure", "seed"} /\ tokens # NoToken => tokens = server
  /\ js = "configure" /\ tokens # NoToken =>
       access # server /\ refresh # server /\ \A w \in Workers : worker[w].pair # server

\* Who writes a token has found one, or has just logged in.
SignedOutFits ==
  /\ signedOut => access = NoToken /\ refresh = NoToken
  /\ js = "seed" /\ tokens # NoToken => access = tokens /\ ~signedOut
  /\ js = "forget" => access = NoToken
  /\ resetter \in {"refresh", "config", "file"} => access = NoToken
  /\ resetter \in {"config", "file"} => refresh = NoToken
  /\ \A w \in Workers :
       /\ worker[w].step \in {"refresh", "access", "store"} => access # NoToken
       /\ worker[w].step \in {"access", "store"} => worker[w].pair # NoToken
       /\ worker[w].step = "store" => access = worker[w].pair

IsCurrent == access = refresh /\ access \in {NoToken, server}

\* The stored pair is the server's wherever it is whole, and what is on its
\* way to the store is too.
CurrentFits ==
  ~spoilt =>
    /\ lock = Nobody \/ resetter = "access" \/ (js = "seed" /\ tokens = NoToken) => IsCurrent
    /\ \A w \in Workers :
         /\ worker[w].step \in {"call", "refresh"} => IsCurrent
         /\ worker[w].step \in {"access", "store"} => worker[w].pair = server

\* A foreground trigger has passed the gate in a process that has configured,
\* and a reset since then has left it nothing to call with.
GateFits ==
  /\ app => db # NoConfig
  /\ js = "seed" => db # NoConfig
  /\ js \in {"configure", "seed", "save"} => given # NoConfig
  /\ \A w \in Workers :
       worker[w].step # "off" /\ worker[w].foreground =>
         /\ db # NoConfig
         /\ app \/ config = NoConfig \/ js = "seed"

\* Nobody is between the file and the configuration, or they agree.
FileFits ==
  /\ db = NoConfig \/ resetter = "file" => config = NoConfig
  /\ ~unsaved =>
       /\ js \in {"configure", "seed", "save"} => resetter = "off"
       /\ js \in {"seed", "save"} => config = given
       /\ js \notin {"configure", "seed", "save"} /\ resetter # "file" /\ db # NoConfig
          => file = config

LifecycleInv ==
  TypeOK /\ LockFits /\ PairsFit /\ SignedOutFits /\ CurrentFits /\ GateFits /\ FileFits


(***************************************************************************)
(* What the types and the assumptions say.                                 *)
(***************************************************************************)

\* The holders of the lock are not the same.
LEMMA Holders ==
  /\ "js" # "reset" /\ Nobody # "js" /\ Nobody # "reset"
  /\ \A w \in Workers : w # "js" /\ w # "reset" /\ w # Nobody
BY LifecycleAssumption

LEMMA Numbers ==
  /\ NoToken \notin Nat /\ NoConfig \notin Configs
  /\ MaxOps \in Nat /\ MaxTriggers \in Nat /\ MaxLogins \in Nat /\ MaxCalls \in Nat /\ MaxFaults \in Nat
BY LifecycleAssumption

\* A session that goes on with record r leaves the other sessions alone.
LEMMA Moves ==
  ASSUME worker \in [Workers -> Worker], NEW w \in Workers, NEW r \in Worker,
         worker' = [worker EXCEPT ![w] = r]
  PROVE  /\ worker' \in [Workers -> Worker]
         /\ worker'[w] = r
         /\ \A v \in Workers : v # w => worker'[v] = worker[v]
OBVIOUS

LEMMA OffIsWorker ==
  /\ Off \in Worker
  /\ Off.step = "off" /\ Off.foreground = FALSE /\ Off.pair = NoToken
BY Numbers DEF Off, Worker

\* The next call of a session begins with nothing tried.
LEMMA Another ==
  ASSUME NEW r \in Worker, NEW n \in 0..MaxCalls
  PROVE  LET s == [r EXCEPT !.calls = n, !.failed = 0, !.refreshed = FALSE]
         IN  /\ s \in Worker
             /\ s.step = r.step /\ s.pair = r.pair /\ s.foreground = r.foreground
<1> DEFINE a == [r EXCEPT !.calls = n]
           b == [a EXCEPT !.failed = 0]
           c == [b EXCEPT !.refreshed = FALSE]
<1>1. a \in Worker /\ a.step = r.step /\ a.pair = r.pair /\ a.foreground = r.foreground
  BY DEF Worker
<1>2. ASSUME NEW x \in Worker
      PROVE  LET y == [x EXCEPT !.failed = 0]
             IN  y \in Worker /\ y.step = x.step /\ y.pair = x.pair /\ y.foreground = x.foreground
  BY DEF Worker
<1>3. ASSUME NEW x \in Worker
      PROVE  LET y == [x EXCEPT !.refreshed = FALSE]
             IN  y \in Worker /\ y.step = x.step /\ y.pair = x.pair /\ y.foreground = x.foreground
  BY DEF Worker
<1>4. c = [r EXCEPT !.calls = n, !.failed = 0, !.refreshed = FALSE]
  OBVIOUS
<1> HIDE DEF a
<1>5. b \in Worker /\ b.step = a.step /\ b.pair = a.pair /\ b.foreground = a.foreground
  BY <1>1, <1>2
<1> HIDE DEF b
<1>6. c \in Worker /\ c.step = b.step /\ c.pair = b.pair /\ c.foreground = b.foreground
  BY <1>3, <1>5
<1> HIDE DEF c
<1>7. QED
  BY <1>1, <1>4, <1>5, <1>6

LEMMA InitEstablishes == Init => LifecycleInv
<1> SUFFICES ASSUME Init PROVE LifecycleInv
  OBVIOUS
<1>1. Off \in Worker
  BY OffIsWorker
<1>2. TypeOK
  <2>1. worker \in [Workers -> Worker]
    BY <1>1 DEF Init
  <2>2. server \in Pairs /\ ops \in 0..MaxOps /\ triggers \in 0..MaxTriggers /\ faults \in 0..MaxFaults
    BY Numbers DEF Init, Pairs
  <2>3. QED
    BY <2>1, <2>2 DEF Init, TypeOK
<1>3. \A w \in Workers : worker[w] = Off /\ ~InSession(w)
  BY DEF Init, Off, InSession
<1>4. \A w \in Workers : worker[w].step = "off" /\ worker[w].pair = NoToken
  BY <1>3, OffIsWorker
<1>5. QED
  BY <1>2, <1>3, <1>4, Holders, Numbers
     DEF Init, LifecycleInv, LockFits, PairsFit, SignedOutFits, CurrentFits, IsCurrent, GateFits, FileFits

(***************************************************************************)
(* The JavaScript thread.                                                  *)
(***************************************************************************)

\* The application calls configure(), perhaps after a login.
LEMMA CallConfigureKeeps ==
  ASSUME LifecycleInv, NEW c \in Configs, NEW login \in BOOLEAN, CallConfigure(c, login)
  PROVE  LifecycleInv'
<1> USE Holders, Numbers DEF LifecycleInv
<1>1. /\ js = "idle" /\ ops < MaxOps
      /\ \/ server' = server + 1 /\ server < MaxLogins /\ tokens' = server + 1
         \/ server' = server /\ tokens' = NoToken
      /\ spoilt' \in BOOLEAN /\ (spoilt => spoilt')
      /\ tokens' # NoToken => spoilt' \/ (access = NoToken /\ refresh = NoToken)
      /\ js' = "configure"
      /\ given' = c
      /\ ops' = ops + 1
      /\ unsaved' = (resetter # "off")
      /\ lock' = lock /\ db' = db /\ config' = config /\ app' = app /\ file' = file
      /\ access' = access /\ refresh' = refresh /\ resetter' = resetter
      /\ worker' = worker /\ signedOut' = signedOut /\ triggers' = triggers
      /\ faults' = faults
  BY DEF CallConfigure, Spoils, TypeOK, managerVars, tokenVars, jsVars, historyVars, boundVars
<1>2. \A v \in Workers : InSession(v)' <=> InSession(v)
  BY <1>1 DEF InSession
<1>3. TypeOK'
  <2>1. server' \in Pairs /\ tokens' \in {NoToken} \cup Pairs
    BY <1>1 DEF TypeOK, Pairs
  <2>2. ops' \in 0..MaxOps /\ unsaved' \in BOOLEAN
    BY <1>1 DEF TypeOK
  <2>3. QED
    BY <1>1, <2>1, <2>2 DEF TypeOK
<1>4. LockFits'
  BY <1>1, <1>2 DEF LockFits, InSession
<1>5. PairsFit'
  BY <1>1, <1>2 DEF PairsFit, TypeOK, Pairs, InSession
<1>6. SignedOutFits'
  BY <1>1, <1>2 DEF SignedOutFits, PairsFit, LockFits, InSession
<1>7. CurrentFits'
  BY <1>1, <1>2 DEF CurrentFits, IsCurrent, LockFits, PairsFit, SignedOutFits, InSession
<1>8. GateFits'
  BY <1>1, <1>2 DEF GateFits, LockFits, TypeOK, InSession
<1>9. FileFits'
  BY <1>1, <1>2 DEF FileFits, LockFits, GateFits
<1>10. QED
  BY <1>3, <1>4, <1>5, <1>6, <1>7, <1>8, <1>9

\* configure() under the lock.
LEMMA ConfigureKeeps ==
  ASSUME LifecycleInv, Configure
  PROVE  LifecycleInv'
<1> USE Holders, Numbers DEF LifecycleInv
<1>1. /\ js = "configure" /\ lock = Nobody
      /\ signedOut' \in BOOLEAN /\ (signedOut' => signedOut /\ ~Seeds)
      /\ Seeds <=> tokens # NoToken /\ (access = NoToken \/ refresh = NoToken)
      /\ lock' = "js"
      /\ js' = "seed"
      /\ db' = given
      /\ config' = given
      /\ access' = IF Seeds THEN tokens ELSE access
      /\ tokens' = IF Seeds THEN tokens ELSE NoToken
      /\ app' = app /\ file' = file /\ refresh' = refresh /\ server' = server
      /\ given' = given /\ resetter' = resetter /\ worker' = worker /\ spoilt' = spoilt
      /\ unsaved' = unsaved /\ ops' = ops /\ triggers' = triggers /\ faults' = faults
  BY DEF Configure, Seeds, TypeOK, managerVars, tokenVars, jsVars, historyVars, boundVars
<1>2. \A v \in Workers : InSession(v)' <=> InSession(v)
  BY <1>1 DEF InSession
<1>3. TypeOK'
  BY <1>1 DEF TypeOK, Seeds
<1>4. LockFits'
  BY <1>1, <1>2 DEF LockFits, InSession
<1>5. PairsFit'
  BY <1>1, <1>2 DEF PairsFit, TypeOK, Pairs, InSession
<1>6. SignedOutFits'
  BY <1>1, <1>2 DEF SignedOutFits, PairsFit, LockFits, InSession
<1>7. CurrentFits'
  BY <1>1, <1>2 DEF CurrentFits, IsCurrent, LockFits, PairsFit, SignedOutFits, InSession
<1>8. GateFits'
  BY <1>1, <1>2 DEF GateFits, LockFits, TypeOK, InSession
<1>9. FileFits'
  BY <1>1, <1>2 DEF FileFits, LockFits, GateFits
<1>10. QED
  BY <1>3, <1>4, <1>5, <1>6, <1>7, <1>8, <1>9

\* The refresh token is seeded, the lock released.
LEMMA SeedKeeps ==
  ASSUME LifecycleInv, Seed
  PROVE  LifecycleInv'
<1> USE Holders, Numbers DEF LifecycleInv
<1>1. /\ js = "seed"
      /\ refresh' = IF tokens # NoToken THEN tokens ELSE refresh
      /\ app' = TRUE
      /\ lock' = Nobody
      /\ js' = "save"
      /\ tokens' = NoToken
      /\ db' = db /\ config' = config /\ file' = file /\ access' = access
      /\ server' = server /\ given' = given /\ resetter' = resetter /\ worker' = worker
      /\ signedOut' = signedOut /\ spoilt' = spoilt /\ unsaved' = unsaved /\ ops' = ops
      /\ triggers' = triggers /\ faults' = faults
  BY DEF Seed, managerVars, tokenVars, jsVars, historyVars, boundVars
<1>2. \A v \in Workers : InSession(v)' <=> InSession(v)
  BY <1>1 DEF InSession
<1>3. TypeOK'
  BY <1>1 DEF TypeOK
<1>4. LockFits'
  BY <1>1, <1>2 DEF LockFits, InSession
<1>5. PairsFit'
  BY <1>1, <1>2 DEF PairsFit, TypeOK, Pairs, InSession
<1>6. SignedOutFits'
  BY <1>1, <1>2 DEF SignedOutFits, PairsFit, LockFits, InSession
<1>7. CurrentFits'
  BY <1>1, <1>2 DEF CurrentFits, IsCurrent, LockFits, PairsFit, SignedOutFits, InSession
<1>8. GateFits'
  BY <1>1, <1>2 DEF GateFits, LockFits, TypeOK, InSession
<1>9. FileFits'
  BY <1>1, <1>2 DEF FileFits, LockFits, GateFits
<1>10. QED
  BY <1>3, <1>4, <1>5, <1>6, <1>7, <1>8, <1>9

\* The file is written.
LEMMA SaveKeeps ==
  ASSUME LifecycleInv, Save
  PROVE  LifecycleInv'
<1> USE Holders, Numbers DEF LifecycleInv
<1>1. /\ js = "save"
      /\ file' = given
      /\ js' = "schedule"
      /\ given' = NoConfig
      /\ lock' = lock /\ db' = db /\ config' = config /\ app' = app /\ access' = access
      /\ refresh' = refresh /\ server' = server /\ tokens' = tokens
      /\ resetter' = resetter /\ worker' = worker /\ signedOut' = signedOut
      /\ spoilt' = spoilt /\ unsaved' = unsaved /\ ops' = ops /\ triggers' = triggers
      /\ faults' = faults
  BY DEF Save, managerVars, tokenVars, jsVars, historyVars, boundVars
<1>2. \A v \in Workers : InSession(v)' <=> InSession(v)
  BY <1>1 DEF InSession
<1>3. TypeOK'
  BY <1>1 DEF TypeOK
<1>4. LockFits'
  BY <1>1, <1>2 DEF LockFits, InSession
<1>5. PairsFit'
  BY <1>1, <1>2 DEF PairsFit, TypeOK, Pairs, InSession
<1>6. SignedOutFits'
  BY <1>1, <1>2 DEF SignedOutFits, PairsFit, LockFits, InSession
<1>7. CurrentFits'
  BY <1>1, <1>2 DEF CurrentFits, IsCurrent, LockFits, PairsFit, SignedOutFits, InSession
<1>8. GateFits'
  BY <1>1, <1>2 DEF GateFits, LockFits, TypeOK, InSession
<1>9. FileFits'
  BY <1>1, <1>2 DEF FileFits, LockFits, GateFits
<1>10. QED
  BY <1>3, <1>4, <1>5, <1>6, <1>7, <1>8, <1>9

\* The file cannot be written.
LEMMA SaveThrowsKeeps ==
  ASSUME LifecycleInv, SaveThrows
  PROVE  LifecycleInv'
<1> USE Holders, Numbers DEF LifecycleInv
<1>1. /\ js = "save" /\ faults < MaxFaults
      /\ faults' = faults + 1
      /\ js' = "idle"
      /\ given' = NoConfig
      /\ unsaved' = TRUE
      /\ lock' = lock /\ db' = db /\ config' = config /\ app' = app /\ file' = file
      /\ access' = access /\ refresh' = refresh /\ server' = server /\ tokens' = tokens
      /\ resetter' = resetter /\ worker' = worker /\ signedOut' = signedOut
      /\ spoilt' = spoilt /\ ops' = ops /\ triggers' = triggers
  BY DEF SaveThrows, Fault, managerVars, tokenVars, jsVars, historyVars, boundVars
<1>2. \A v \in Workers : InSession(v)' <=> InSession(v)
  BY <1>1 DEF InSession
<1>3. TypeOK'
  BY <1>1 DEF TypeOK
<1>4. LockFits'
  BY <1>1, <1>2 DEF LockFits, InSession
<1>5. PairsFit'
  BY <1>1, <1>2 DEF PairsFit, TypeOK, Pairs, InSession
<1>6. SignedOutFits'
  BY <1>1, <1>2 DEF SignedOutFits, PairsFit, LockFits, InSession
<1>7. CurrentFits'
  BY <1>1, <1>2 DEF CurrentFits, IsCurrent, LockFits, PairsFit, SignedOutFits, InSession
<1>8. GateFits'
  BY <1>1, <1>2 DEF GateFits, LockFits, TypeOK, InSession
<1>9. FileFits'
  BY <1>1, <1>2 DEF FileFits, LockFits, GateFits
<1>10. QED
  BY <1>3, <1>4, <1>5, <1>6, <1>7, <1>8, <1>9

\* The background job is scheduled.
LEMMA ScheduleKeeps ==
  ASSUME LifecycleInv, Schedule
  PROVE  LifecycleInv'
<1> USE Holders, Numbers DEF LifecycleInv
<1>1. /\ js = "schedule" /\ lock = Nobody
      /\ js' = "idle"
      /\ lock' = lock /\ db' = db /\ config' = config /\ app' = app /\ file' = file
      /\ access' = access /\ refresh' = refresh /\ server' = server /\ given' = given
      /\ tokens' = tokens /\ resetter' = resetter /\ worker' = worker
      /\ signedOut' = signedOut /\ spoilt' = spoilt /\ unsaved' = unsaved /\ ops' = ops
      /\ triggers' = triggers /\ faults' = faults
  BY DEF Schedule, managerVars, tokenVars, jsVars, historyVars, boundVars
<1>2. \A v \in Workers : InSession(v)' <=> InSession(v)
  BY <1>1 DEF InSession
<1>3. TypeOK'
  BY <1>1 DEF TypeOK
<1>4. LockFits'
  BY <1>1, <1>2 DEF LockFits, InSession
<1>5. PairsFit'
  BY <1>1, <1>2 DEF PairsFit, TypeOK, Pairs, InSession
<1>6. SignedOutFits'
  BY <1>1, <1>2 DEF SignedOutFits, PairsFit, LockFits, InSession
<1>7. CurrentFits'
  BY <1>1, <1>2 DEF CurrentFits, IsCurrent, LockFits, PairsFit, SignedOutFits, InSession
<1>8. GateFits'
  BY <1>1, <1>2 DEF GateFits, LockFits, TypeOK, InSession
<1>9. FileFits'
  BY <1>1, <1>2 DEF FileFits, LockFits, GateFits
<1>10. QED
  BY <1>3, <1>4, <1>5, <1>6, <1>7, <1>8, <1>9

\* The application calls logout().
LEMMA CallLogoutKeeps ==
  ASSUME LifecycleInv, CallLogout
  PROVE  LifecycleInv'
<1> USE Holders, Numbers DEF LifecycleInv
<1>1. /\ js = "idle" /\ ops < MaxOps
      /\ js' = "logout"
      /\ ops' = ops + 1
      /\ lock' = lock /\ db' = db /\ config' = config /\ app' = app /\ file' = file
      /\ access' = access /\ refresh' = refresh /\ server' = server /\ given' = given
      /\ tokens' = tokens /\ resetter' = resetter /\ worker' = worker
      /\ signedOut' = signedOut /\ spoilt' = spoilt /\ unsaved' = unsaved
      /\ triggers' = triggers /\ faults' = faults
  BY DEF CallLogout, managerVars, tokenVars, jsVars, historyVars, boundVars
<1>2. \A v \in Workers : InSession(v)' <=> InSession(v)
  BY <1>1 DEF InSession
<1>3. TypeOK'
  BY <1>1 DEF TypeOK
<1>4. LockFits'
  BY <1>1, <1>2 DEF LockFits, InSession
<1>5. PairsFit'
  BY <1>1, <1>2 DEF PairsFit, TypeOK, Pairs, InSession
<1>6. SignedOutFits'
  BY <1>1, <1>2 DEF SignedOutFits, PairsFit, LockFits, InSession
<1>7. CurrentFits'
  BY <1>1, <1>2 DEF CurrentFits, IsCurrent, LockFits, PairsFit, SignedOutFits, InSession
<1>8. GateFits'
  BY <1>1, <1>2 DEF GateFits, LockFits, TypeOK, InSession
<1>9. FileFits'
  BY <1>1, <1>2 DEF FileFits, LockFits, GateFits
<1>10. QED
  BY <1>3, <1>4, <1>5, <1>6, <1>7, <1>8, <1>9

\* logout() under the lock.
LEMMA LogoutKeeps ==
  ASSUME LifecycleInv, Logout
  PROVE  LifecycleInv'
<1> USE Holders, Numbers DEF LifecycleInv
<1>1. /\ js = "logout" /\ lock = Nobody
      /\ lock' = "js"
      /\ js' = "forget"
      /\ access' = NoToken
      /\ db' = db /\ config' = config /\ app' = app /\ file' = file /\ refresh' = refresh
      /\ server' = server /\ given' = given /\ tokens' = tokens /\ resetter' = resetter
      /\ worker' = worker /\ signedOut' = signedOut /\ spoilt' = spoilt
      /\ unsaved' = unsaved /\ ops' = ops /\ triggers' = triggers /\ faults' = faults
  BY DEF Logout, managerVars, tokenVars, jsVars, historyVars, boundVars
<1>2. \A v \in Workers : InSession(v)' <=> InSession(v)
  BY <1>1 DEF InSession
<1>3. TypeOK'
  BY <1>1 DEF TypeOK
<1>4. LockFits'
  BY <1>1, <1>2 DEF LockFits, InSession
<1>5. PairsFit'
  BY <1>1, <1>2 DEF PairsFit, TypeOK, Pairs, InSession
<1>6. SignedOutFits'
  BY <1>1, <1>2 DEF SignedOutFits, PairsFit, LockFits, InSession
<1>7. CurrentFits'
  BY <1>1, <1>2 DEF CurrentFits, IsCurrent, LockFits, PairsFit, SignedOutFits, InSession
<1>8. GateFits'
  BY <1>1, <1>2 DEF GateFits, LockFits, TypeOK, InSession
<1>9. FileFits'
  BY <1>1, <1>2 DEF FileFits, LockFits, GateFits
<1>10. QED
  BY <1>3, <1>4, <1>5, <1>6, <1>7, <1>8, <1>9

\* logout() releases the lock.
LEMMA ForgetKeeps ==
  ASSUME LifecycleInv, Forget
  PROVE  LifecycleInv'
<1> USE Holders, Numbers DEF LifecycleInv
<1>1. /\ js = "forget"
      /\ refresh' = NoToken
      /\ lock' = Nobody
      /\ js' = "idle"
      /\ signedOut' = TRUE
      /\ spoilt' = FALSE
      /\ db' = db /\ config' = config /\ app' = app /\ file' = file /\ access' = access
      /\ server' = server /\ given' = given /\ tokens' = tokens /\ resetter' = resetter
      /\ worker' = worker /\ unsaved' = unsaved /\ ops' = ops /\ triggers' = triggers
      /\ faults' = faults
  BY DEF Forget, managerVars, tokenVars, jsVars, historyVars, boundVars
<1>2. \A v \in Workers : InSession(v)' <=> InSession(v)
  BY <1>1 DEF InSession
<1>3. TypeOK'
  BY <1>1 DEF TypeOK
<1>4. LockFits'
  BY <1>1, <1>2 DEF LockFits, InSession
<1>5. PairsFit'
  BY <1>1, <1>2 DEF PairsFit, TypeOK, Pairs, InSession
<1>6. SignedOutFits'
  BY <1>1, <1>2 DEF SignedOutFits, PairsFit, LockFits, InSession
<1>7. CurrentFits'
  BY <1>1, <1>2 DEF CurrentFits, IsCurrent, LockFits, PairsFit, SignedOutFits, InSession
<1>8. GateFits'
  BY <1>1, <1>2 DEF GateFits, LockFits, TypeOK, InSession
<1>9. FileFits'
  BY <1>1, <1>2 DEF FileFits, LockFits, GateFits
<1>10. QED
  BY <1>3, <1>4, <1>5, <1>6, <1>7, <1>8, <1>9

(***************************************************************************)
(* reset().                                                                *)
(***************************************************************************)

\* The application calls reset().
LEMMA CallResetKeeps ==
  ASSUME LifecycleInv, CallReset
  PROVE  LifecycleInv'
<1> USE Holders, Numbers DEF LifecycleInv
<1>1. /\ js = "idle" /\ resetter = "off" /\ ops < MaxOps
      /\ resetter' = "wait"
      /\ ops' = ops + 1
      /\ lock' = lock /\ db' = db /\ config' = config /\ app' = app /\ file' = file
      /\ access' = access /\ refresh' = refresh /\ server' = server /\ js' = js
      /\ given' = given /\ tokens' = tokens /\ worker' = worker /\ signedOut' = signedOut
      /\ spoilt' = spoilt /\ unsaved' = unsaved /\ triggers' = triggers
      /\ faults' = faults
  BY DEF CallReset, managerVars, tokenVars, jsVars, historyVars, boundVars
<1>2. \A v \in Workers : InSession(v)' <=> InSession(v)
  BY <1>1 DEF InSession
<1>3. TypeOK'
  BY <1>1 DEF TypeOK
<1>4. LockFits'
  BY <1>1, <1>2 DEF LockFits, InSession
<1>5. PairsFit'
  BY <1>1, <1>2 DEF PairsFit, TypeOK, Pairs, InSession
<1>6. SignedOutFits'
  BY <1>1, <1>2 DEF SignedOutFits, PairsFit, LockFits, InSession
<1>7. CurrentFits'
  BY <1>1, <1>2 DEF CurrentFits, IsCurrent, LockFits, PairsFit, SignedOutFits, InSession
<1>8. GateFits'
  BY <1>1, <1>2 DEF GateFits, LockFits, TypeOK, InSession
<1>9. FileFits'
  BY <1>1, <1>2 DEF FileFits, LockFits, GateFits
<1>10. QED
  BY <1>3, <1>4, <1>5, <1>6, <1>7, <1>8, <1>9

\* The wipe.
LEMMA ResetKeeps ==
  ASSUME LifecycleInv, Reset
  PROVE  LifecycleInv'
<1> USE Holders, Numbers DEF LifecycleInv
<1>1. /\ resetter = "wait" /\ lock = Nobody
      /\ lock' = "reset"
      /\ resetter' = "access"
      /\ db' = db /\ config' = config /\ app' = app /\ file' = file /\ access' = access
      /\ refresh' = refresh /\ server' = server /\ js' = js /\ given' = given
      /\ tokens' = tokens /\ worker' = worker /\ signedOut' = signedOut
      /\ spoilt' = spoilt /\ unsaved' = unsaved /\ ops' = ops /\ triggers' = triggers
      /\ faults' = faults
  BY DEF Reset, managerVars, tokenVars, jsVars, historyVars, boundVars
<1>2. \A v \in Workers : InSession(v)' <=> InSession(v)
  BY <1>1 DEF InSession
<1>3. TypeOK'
  BY <1>1 DEF TypeOK
<1>4. LockFits'
  BY <1>1, <1>2 DEF LockFits, InSession
<1>5. PairsFit'
  BY <1>1, <1>2 DEF PairsFit, TypeOK, Pairs, InSession
<1>6. SignedOutFits'
  BY <1>1, <1>2 DEF SignedOutFits, PairsFit, LockFits, InSession
<1>7. CurrentFits'
  BY <1>1, <1>2 DEF CurrentFits, IsCurrent, LockFits, PairsFit, SignedOutFits, InSession
<1>8. GateFits'
  BY <1>1, <1>2 DEF GateFits, LockFits, TypeOK, InSession
<1>9. FileFits'
  BY <1>1, <1>2 DEF FileFits, LockFits, GateFits
<1>10. QED
  BY <1>3, <1>4, <1>5, <1>6, <1>7, <1>8, <1>9

\* The access token goes.
LEMMA ResetAccessKeeps ==
  ASSUME LifecycleInv, ResetAccess
  PROVE  LifecycleInv'
<1> USE Holders, Numbers DEF LifecycleInv
<1>1. /\ resetter = "access"
      /\ access' = NoToken
      /\ resetter' = "refresh"
      /\ lock' = lock /\ db' = db /\ config' = config /\ app' = app /\ file' = file
      /\ refresh' = refresh /\ server' = server /\ js' = js /\ given' = given
      /\ tokens' = tokens /\ worker' = worker /\ signedOut' = signedOut
      /\ spoilt' = spoilt /\ unsaved' = unsaved /\ ops' = ops /\ triggers' = triggers
      /\ faults' = faults
  BY DEF ResetAccess, managerVars, tokenVars, jsVars, historyVars, boundVars
<1>2. \A v \in Workers : InSession(v)' <=> InSession(v)
  BY <1>1 DEF InSession
<1>3. TypeOK'
  BY <1>1 DEF TypeOK
<1>4. LockFits'
  BY <1>1, <1>2 DEF LockFits, InSession
<1>5. PairsFit'
  BY <1>1, <1>2 DEF PairsFit, TypeOK, Pairs, InSession
<1>6. SignedOutFits'
  BY <1>1, <1>2 DEF SignedOutFits, PairsFit, LockFits, InSession
<1>7. CurrentFits'
  BY <1>1, <1>2 DEF CurrentFits, IsCurrent, LockFits, PairsFit, SignedOutFits, InSession
<1>8. GateFits'
  BY <1>1, <1>2 DEF GateFits, LockFits, TypeOK, InSession
<1>9. FileFits'
  BY <1>1, <1>2 DEF FileFits, LockFits, GateFits
<1>10. QED
  BY <1>3, <1>4, <1>5, <1>6, <1>7, <1>8, <1>9

\* The refresh token goes.
LEMMA ResetRefreshKeeps ==
  ASSUME LifecycleInv, ResetRefresh
  PROVE  LifecycleInv'
<1> USE Holders, Numbers DEF LifecycleInv
<1>1. /\ resetter = "refresh"
      /\ refresh' = NoToken
      /\ resetter' = "config"
      /\ spoilt' = FALSE
      /\ lock' = lock /\ db' = db /\ config' = config /\ app' = app /\ file' = file
      /\ access' = access /\ server' = server /\ js' = js /\ given' = given
      /\ tokens' = tokens /\ worker' = worker /\ signedOut' = signedOut
      /\ unsaved' = unsaved /\ ops' = ops /\ triggers' = triggers /\ faults' = faults
  BY DEF ResetRefresh, managerVars, tokenVars, jsVars, historyVars, boundVars
<1>2. \A v \in Workers : InSession(v)' <=> InSession(v)
  BY <1>1 DEF InSession
<1>3. TypeOK'
  BY <1>1 DEF TypeOK
<1>4. LockFits'
  BY <1>1, <1>2 DEF LockFits, InSession
<1>5. PairsFit'
  BY <1>1, <1>2 DEF PairsFit, TypeOK, Pairs, InSession
<1>6. SignedOutFits'
  BY <1>1, <1>2 DEF SignedOutFits, PairsFit, LockFits, InSession
<1>7. CurrentFits'
  BY <1>1, <1>2 DEF CurrentFits, IsCurrent, LockFits, PairsFit, SignedOutFits, InSession
<1>8. GateFits'
  BY <1>1, <1>2 DEF GateFits, LockFits, TypeOK, InSession
<1>9. FileFits'
  BY <1>1, <1>2 DEF FileFits, LockFits, GateFits
<1>10. QED
  BY <1>3, <1>4, <1>5, <1>6, <1>7, <1>8, <1>9

\* The configuration goes; the database stays open.
LEMMA ResetConfigKeeps ==
  ASSUME LifecycleInv, ResetConfig
  PROVE  LifecycleInv'
<1> USE Holders, Numbers DEF LifecycleInv
<1>1. /\ resetter = "config"
      /\ config' = NoConfig
      /\ app' = FALSE
      /\ resetter' = "file"
      /\ lock' = lock /\ db' = db /\ file' = file /\ access' = access
      /\ refresh' = refresh /\ server' = server /\ js' = js /\ given' = given
      /\ tokens' = tokens /\ worker' = worker /\ signedOut' = signedOut
      /\ spoilt' = spoilt /\ unsaved' = unsaved /\ ops' = ops /\ triggers' = triggers
      /\ faults' = faults
  BY DEF ResetConfig, managerVars, tokenVars, jsVars, historyVars, boundVars
<1>2. \A v \in Workers : InSession(v)' <=> InSession(v)
  BY <1>1 DEF InSession
<1>3. TypeOK'
  BY <1>1 DEF TypeOK
<1>4. LockFits'
  BY <1>1, <1>2 DEF LockFits, InSession
<1>5. PairsFit'
  BY <1>1, <1>2 DEF PairsFit, TypeOK, Pairs, InSession
<1>6. SignedOutFits'
  BY <1>1, <1>2 DEF SignedOutFits, PairsFit, LockFits, InSession
<1>7. CurrentFits'
  BY <1>1, <1>2 DEF CurrentFits, IsCurrent, LockFits, PairsFit, SignedOutFits, InSession
<1>8. GateFits'
  BY <1>1, <1>2 DEF GateFits, LockFits, TypeOK, InSession
<1>9. FileFits'
  BY <1>1, <1>2 DEF FileFits, LockFits, GateFits
<1>10. QED
  BY <1>3, <1>4, <1>5, <1>6, <1>7, <1>8, <1>9

\* The file goes, or stays with an error.
LEMMA ResetFileKeeps ==
  ASSUME LifecycleInv, ResetFile
  PROVE  LifecycleInv'
<1> USE Holders, Numbers DEF LifecycleInv
<1>0. /\ file' \in {file, NoConfig} /\ faults' \in 0..MaxFaults
      /\ unsaved' \in BOOLEAN /\ (~unsaved' => ~unsaved /\ file' = NoConfig)
  <2>1. faults \in 0..MaxFaults /\ unsaved \in BOOLEAN
    BY DEF TypeOK
  <2>2. CASE file' = NoConfig /\ UNCHANGED <<faults, unsaved>>
    BY <2>1, <2>2
  <2>3. CASE Fault /\ unsaved' = TRUE /\ UNCHANGED file
    BY <2>1, <2>3 DEF Fault
  <2>4. QED
    BY <2>2, <2>3 DEF ResetFile
<1>1. /\ resetter = "file"
      /\ file' \in {file, NoConfig} /\ faults' \in 0..MaxFaults
      /\ unsaved' \in BOOLEAN /\ (~unsaved' => ~unsaved /\ file' = NoConfig)
      /\ lock' = Nobody
      /\ resetter' = "schedule"
      /\ signedOut' = TRUE
      /\ db' = db /\ config' = config /\ app' = app /\ access' = access
      /\ refresh' = refresh /\ server' = server /\ js' = js /\ given' = given
      /\ tokens' = tokens /\ worker' = worker /\ spoilt' = spoilt /\ ops' = ops
      /\ triggers' = triggers
  BY <1>0 DEF ResetFile, managerVars, tokenVars, jsVars, historyVars, boundVars
<1>2. \A v \in Workers : InSession(v)' <=> InSession(v)
  BY <1>1 DEF InSession
<1>3. TypeOK'
  BY <1>1 DEF TypeOK
<1>4. LockFits'
  BY <1>1, <1>2 DEF LockFits, InSession
<1>5. PairsFit'
  BY <1>1, <1>2 DEF PairsFit, TypeOK, Pairs, InSession
<1>6. SignedOutFits'
  BY <1>1, <1>2 DEF SignedOutFits, PairsFit, LockFits, InSession
<1>7. CurrentFits'
  BY <1>1, <1>2 DEF CurrentFits, IsCurrent, LockFits, PairsFit, SignedOutFits, InSession
<1>8. GateFits'
  BY <1>1, <1>2 DEF GateFits, LockFits, TypeOK, InSession
<1>9. FileFits'
  BY <1>1, <1>2 DEF FileFits, LockFits, GateFits
<1>10. QED
  BY <1>3, <1>4, <1>5, <1>6, <1>7, <1>8, <1>9

\* The background job is scheduled.
LEMMA ResetScheduleKeeps ==
  ASSUME LifecycleInv, ResetSchedule
  PROVE  LifecycleInv'
<1> USE Holders, Numbers DEF LifecycleInv
<1>1. /\ resetter = "schedule" /\ lock = Nobody
      /\ resetter' = "off"
      /\ lock' = lock /\ db' = db /\ config' = config /\ app' = app /\ file' = file
      /\ access' = access /\ refresh' = refresh /\ server' = server /\ js' = js
      /\ given' = given /\ tokens' = tokens /\ worker' = worker /\ signedOut' = signedOut
      /\ spoilt' = spoilt /\ unsaved' = unsaved /\ ops' = ops /\ triggers' = triggers
      /\ faults' = faults
  BY DEF ResetSchedule, managerVars, tokenVars, jsVars, historyVars, boundVars
<1>2. \A v \in Workers : InSession(v)' <=> InSession(v)
  BY <1>1 DEF InSession
<1>3. TypeOK'
  BY <1>1 DEF TypeOK
<1>4. LockFits'
  BY <1>1, <1>2 DEF LockFits, InSession
<1>5. PairsFit'
  BY <1>1, <1>2 DEF PairsFit, TypeOK, Pairs, InSession
<1>6. SignedOutFits'
  BY <1>1, <1>2 DEF SignedOutFits, PairsFit, LockFits, InSession
<1>7. CurrentFits'
  BY <1>1, <1>2 DEF CurrentFits, IsCurrent, LockFits, PairsFit, SignedOutFits, InSession
<1>8. GateFits'
  BY <1>1, <1>2 DEF GateFits, LockFits, TypeOK, InSession
<1>9. FileFits'
  BY <1>1, <1>2 DEF FileFits, LockFits, GateFits
<1>10. QED
  BY <1>3, <1>4, <1>5, <1>6, <1>7, <1>8, <1>9

(***************************************************************************)
(* Sync sessions. A session has the lock, or it is not in its calls yet.    *)
(***************************************************************************)

\* A trigger of any kind.
LEMMA TriggerKeeps ==
  ASSUME LifecycleInv, NEW w \in Workers, NEW foreground \in BOOLEAN, NEW target \in {"reopen", "try", "wait"},
         Trigger(w, foreground, target), foreground => app
  PROVE  LifecycleInv'
<1> USE Holders, Numbers DEF LifecycleInv
<1>1. /\ worker[w].step = "off" /\ triggers < MaxTriggers /\ (foreground => app)
      /\ triggers' = triggers + 1
      /\ lock' = lock /\ db' = db /\ config' = config /\ app' = app /\ file' = file
      /\ access' = access /\ refresh' = refresh /\ server' = server /\ js' = js
      /\ given' = given /\ tokens' = tokens /\ resetter' = resetter
      /\ signedOut' = signedOut /\ spoilt' = spoilt /\ unsaved' = unsaved /\ ops' = ops
      /\ faults' = faults
  BY DEF Trigger, sessionFrame, managerVars, tokenVars, jsVars
<1>2. PICK r \in Worker : /\ worker' = [worker EXCEPT ![w] = r]
                          /\ r.step = target /\ r.foreground = foreground /\ r.pair = NoToken
  <2>1. [Off EXCEPT !.step = target, !.foreground = foreground] \in Worker
    BY OffIsWorker DEF Worker
  <2>2. /\ [Off EXCEPT !.step = target, !.foreground = foreground].step = target
        /\ [Off EXCEPT !.step = target, !.foreground = foreground].foreground = foreground
        /\ [Off EXCEPT !.step = target, !.foreground = foreground].pair = NoToken
    BY OffIsWorker DEF Worker
  <2>3. QED
    BY <2>1, <2>2 DEF Trigger, Goes
<1>3. /\ worker' \in [Workers -> Worker] /\ worker'[w] = r
      /\ \A v \in Workers : v # w => worker'[v] = worker[v]
  BY <1>2, Moves DEF TypeOK
<1>4. TypeOK'
  BY <1>1, <1>3 DEF TypeOK, Pairs
<1>5. LockFits'
  BY <1>1, <1>2, <1>3 DEF LockFits, InSession
<1>6. PairsFit'
  BY <1>1, <1>2, <1>3 DEF PairsFit, TypeOK, Pairs, LockFits, InSession
<1>7. SignedOutFits'
  BY <1>1, <1>2, <1>3 DEF SignedOutFits, PairsFit, LockFits, InSession
<1>8. CurrentFits'
  BY <1>1, <1>2, <1>3 DEF CurrentFits, IsCurrent, LockFits, PairsFit, SignedOutFits, InSession
<1>9. GateFits'
  BY <1>1, <1>2, <1>3 DEF GateFits, LockFits, TypeOK, InSession
<1>10. FileFits'
  BY <1>1, <1>2, <1>3 DEF FileFits, LockFits, GateFits, InSession
<1>11. QED
  BY <1>4, <1>5, <1>6, <1>7, <1>8, <1>9, <1>10

\* try_lock() fails.
LEMMA DiscardKeeps ==
  ASSUME LifecycleInv, NEW w \in Workers, Discard(w)
  PROVE  LifecycleInv'
<1> USE Holders, Numbers DEF LifecycleInv
<1>1. /\ worker[w].step = "try"
      /\ lock' = lock /\ db' = db /\ config' = config /\ app' = app /\ file' = file
      /\ access' = access /\ refresh' = refresh /\ server' = server /\ js' = js
      /\ given' = given /\ tokens' = tokens /\ resetter' = resetter
      /\ signedOut' = signedOut /\ spoilt' = spoilt /\ unsaved' = unsaved /\ ops' = ops
      /\ triggers' = triggers /\ faults' = faults
  BY DEF Discard, sessionFrame, managerVars, tokenVars, jsVars
<1>2. PICK r \in Worker : /\ worker' = [worker EXCEPT ![w] = r]
                          /\ r.step = "off" /\ r.pair = NoToken
  BY OffIsWorker DEF Discard, Goes
<1>3. /\ worker' \in [Workers -> Worker] /\ worker'[w] = r
      /\ \A v \in Workers : v # w => worker'[v] = worker[v]
  BY <1>2, Moves DEF TypeOK
<1>4. TypeOK'
  BY <1>1, <1>3 DEF TypeOK, Pairs
<1>5. LockFits'
  BY <1>1, <1>2, <1>3 DEF LockFits, InSession
<1>6. PairsFit'
  BY <1>1, <1>2, <1>3 DEF PairsFit, TypeOK, Pairs, LockFits, InSession
<1>7. SignedOutFits'
  BY <1>1, <1>2, <1>3 DEF SignedOutFits, PairsFit, LockFits, InSession
<1>8. CurrentFits'
  BY <1>1, <1>2, <1>3 DEF CurrentFits, IsCurrent, LockFits, PairsFit, SignedOutFits, InSession
<1>9. GateFits'
  BY <1>1, <1>2, <1>3 DEF GateFits, LockFits, TypeOK, InSession
<1>10. FileFits'
  BY <1>1, <1>2, <1>3 DEF FileFits, LockFits, GateFits, InSession
<1>11. QED
  BY <1>4, <1>5, <1>6, <1>7, <1>8, <1>9, <1>10

\* A session takes the lock.
LEMMA EnterKeeps ==
  ASSUME LifecycleInv, NEW w \in Workers, Enter(w)
  PROVE  LifecycleInv'
<1> USE Holders, Numbers DEF LifecycleInv
<1>1. /\ worker[w].step \in {"try", "wait"} /\ lock = Nobody
      /\ lock' = w
      /\ db' = db /\ config' = config /\ app' = app /\ file' = file /\ access' = access
      /\ refresh' = refresh /\ server' = server /\ js' = js /\ given' = given
      /\ tokens' = tokens /\ resetter' = resetter /\ signedOut' = signedOut
      /\ spoilt' = spoilt /\ unsaved' = unsaved /\ ops' = ops /\ triggers' = triggers
      /\ faults' = faults
  BY DEF Enter, sessionFrame, managerVars, tokenVars, jsVars
<1>2. PICK r \in Worker : /\ worker' = [worker EXCEPT ![w] = r]
                          /\ r.step = "call" /\ r.foreground = worker[w].foreground /\ r.pair = worker[w].pair
  <2>1. worker[w] \in Worker
    BY DEF TypeOK
  <2>2. MaxCalls \in 0..MaxCalls
    OBVIOUS
  <2>3. [worker[w] EXCEPT !.step = "call", !.calls = MaxCalls] \in Worker
    BY <2>1, <2>2 DEF Worker
  <2>4. QED
    BY <2>1, <2>3 DEF Enter, Goes, Worker
<1>3. /\ worker' \in [Workers -> Worker] /\ worker'[w] = r
      /\ \A v \in Workers : v # w => worker'[v] = worker[v]
  BY <1>2, Moves DEF TypeOK
<1>4. TypeOK'
  BY <1>1, <1>3 DEF TypeOK, Pairs
<1>5. LockFits'
  BY <1>1, <1>2, <1>3 DEF LockFits, InSession
<1>6. PairsFit'
  BY <1>1, <1>2, <1>3 DEF PairsFit, TypeOK, Pairs, LockFits, InSession
<1>7. SignedOutFits'
  BY <1>1, <1>2, <1>3 DEF SignedOutFits, PairsFit, LockFits, InSession
<1>8. CurrentFits'
  BY <1>1, <1>2, <1>3 DEF CurrentFits, IsCurrent, LockFits, PairsFit, SignedOutFits, InSession
<1>9. GateFits'
  BY <1>1, <1>2, <1>3 DEF GateFits, LockFits, TypeOK, InSession
<1>10. FileFits'
  BY <1>1, <1>2, <1>3 DEF FileFits, LockFits, GateFits, InSession
<1>11. QED
  BY <1>4, <1>5, <1>6, <1>7, <1>8, <1>9, <1>10

\* A session ends.
LEMMA EndSessionKeeps ==
  ASSUME LifecycleInv, NEW w \in Workers, EndSession(w)
  PROVE  LifecycleInv'
<1> USE Holders, Numbers DEF LifecycleInv
<1>1. /\ worker[w].step = "call"
      /\ lock' = Nobody
      /\ db' = db /\ config' = config /\ app' = app /\ file' = file /\ access' = access
      /\ refresh' = refresh /\ server' = server /\ js' = js /\ given' = given
      /\ tokens' = tokens /\ resetter' = resetter /\ signedOut' = signedOut
      /\ spoilt' = spoilt /\ unsaved' = unsaved /\ ops' = ops /\ triggers' = triggers
      /\ faults' = faults
  BY DEF EndSession, Leave, sessionFrame, managerVars, tokenVars, jsVars
<1>2. PICK r \in Worker : /\ worker' = [worker EXCEPT ![w] = r]
                          /\ r.step = "off" /\ r.pair = NoToken
  BY OffIsWorker DEF EndSession, Leave, Goes
<1>3. /\ worker' \in [Workers -> Worker] /\ worker'[w] = r
      /\ \A v \in Workers : v # w => worker'[v] = worker[v]
  BY <1>2, Moves DEF TypeOK
<1>4. TypeOK'
  BY <1>1, <1>3 DEF TypeOK, Pairs
<1>5. LockFits'
  BY <1>1, <1>2, <1>3 DEF LockFits, InSession
<1>6. PairsFit'
  BY <1>1, <1>2, <1>3 DEF PairsFit, TypeOK, Pairs, LockFits, InSession
<1>7. SignedOutFits'
  BY <1>1, <1>2, <1>3 DEF SignedOutFits, PairsFit, LockFits, InSession
<1>8. CurrentFits'
  BY <1>1, <1>2, <1>3 DEF CurrentFits, IsCurrent, LockFits, PairsFit, SignedOutFits, InSession
<1>9. GateFits'
  BY <1>1, <1>2, <1>3 DEF GateFits, LockFits, TypeOK, InSession
<1>10. FileFits'
  BY <1>1, <1>2, <1>3 DEF FileFits, LockFits, GateFits, InSession
<1>11. QED
  BY <1>4, <1>5, <1>6, <1>7, <1>8, <1>9, <1>10

\* A refresh fails.
LEMMA RefreshFailsKeeps ==
  ASSUME LifecycleInv, NEW w \in Workers, RefreshFails(w)
  PROVE  LifecycleInv'
<1> USE Holders, Numbers DEF LifecycleInv
<1>1. /\ worker[w].step = "refresh"
      /\ lock' = Nobody
      /\ db' = db /\ config' = config /\ app' = app /\ file' = file /\ access' = access
      /\ refresh' = refresh /\ server' = server /\ js' = js /\ given' = given
      /\ tokens' = tokens /\ resetter' = resetter /\ signedOut' = signedOut
      /\ spoilt' = spoilt /\ unsaved' = unsaved /\ ops' = ops /\ triggers' = triggers
      /\ faults' = faults
  BY DEF RefreshFails, Leave, sessionFrame, managerVars, tokenVars, jsVars
<1>2. PICK r \in Worker : /\ worker' = [worker EXCEPT ![w] = r]
                          /\ r.step = "off" /\ r.pair = NoToken
  BY OffIsWorker DEF RefreshFails, Leave, Goes
<1>3. /\ worker' \in [Workers -> Worker] /\ worker'[w] = r
      /\ \A v \in Workers : v # w => worker'[v] = worker[v]
  BY <1>2, Moves DEF TypeOK
<1>4. TypeOK'
  BY <1>1, <1>3 DEF TypeOK, Pairs
<1>5. LockFits'
  BY <1>1, <1>2, <1>3 DEF LockFits, InSession
<1>6. PairsFit'
  BY <1>1, <1>2, <1>3 DEF PairsFit, TypeOK, Pairs, LockFits, InSession
<1>7. SignedOutFits'
  BY <1>1, <1>2, <1>3 DEF SignedOutFits, PairsFit, LockFits, InSession
<1>8. CurrentFits'
  BY <1>1, <1>2, <1>3 DEF CurrentFits, IsCurrent, LockFits, PairsFit, SignedOutFits, InSession
<1>9. GateFits'
  BY <1>1, <1>2, <1>3 DEF GateFits, LockFits, TypeOK, InSession
<1>10. FileFits'
  BY <1>1, <1>2, <1>3 DEF FileFits, LockFits, GateFits, InSession
<1>11. QED
  BY <1>4, <1>5, <1>6, <1>7, <1>8, <1>9, <1>10

\* Reopening from the file, looked at under the lock.
LEMMA ReopenKeeps ==
  ASSUME LifecycleInv, NEW w \in Workers, Reopen(w)
  PROVE  LifecycleInv'
<1> USE Holders, Numbers DEF LifecycleInv
<1>1. /\ worker[w].step = "reopen" /\ lock = Nobody
      /\ \/ db = NoConfig /\ file # NoConfig /\ db' = file /\ config' = file
         \/ db' = db /\ config' = config
      /\ lock' = lock /\ app' = app /\ file' = file /\ access' = access
      /\ refresh' = refresh /\ server' = server /\ js' = js /\ given' = given
      /\ tokens' = tokens /\ resetter' = resetter /\ signedOut' = signedOut
      /\ spoilt' = spoilt /\ unsaved' = unsaved /\ ops' = ops /\ triggers' = triggers
      /\ faults' = faults
  BY DEF Reopen, managerVars, tokenVars, jsVars, historyVars, boundVars
<1>2. PICK r \in Worker : /\ worker' = [worker EXCEPT ![w] = r]
                          /\ r.step \in {"try", "off"} /\ r.pair \in {worker[w].pair, NoToken}
                          /\ r.step = "try" => db' # NoConfig /\ r.foreground = worker[w].foreground
  <2>1. worker[w] \in Worker
    BY DEF TypeOK
  <2>2. /\ [worker[w] EXCEPT !.step = "try"] \in Worker
        /\ [worker[w] EXCEPT !.step = "try"].step = "try"
        /\ [worker[w] EXCEPT !.step = "try"].pair = worker[w].pair
        /\ [worker[w] EXCEPT !.step = "try"].foreground = worker[w].foreground
    BY <2>1 DEF Worker
  <2>3. CASE db # NoConfig
    BY <2>2, <2>3 DEF Reopen, Goes
  <2>4. CASE db = NoConfig /\ file # NoConfig
    BY <2>2, <2>4 DEF Reopen, Goes
  <2>5. CASE db = NoConfig /\ file = NoConfig
    BY <2>5, OffIsWorker DEF Reopen, Goes
  <2>6. QED
    BY <2>3, <2>4, <2>5
<1>3. /\ worker' \in [Workers -> Worker] /\ worker'[w] = r
      /\ \A v \in Workers : v # w => worker'[v] = worker[v]
  BY <1>2, Moves DEF TypeOK
<1>4. TypeOK'
  BY <1>1, <1>3 DEF TypeOK, Pairs
<1>5. LockFits'
  BY <1>1, <1>2, <1>3 DEF LockFits, InSession
<1>6. PairsFit'
  BY <1>1, <1>2, <1>3 DEF PairsFit, TypeOK, Pairs, LockFits, InSession
<1>7. SignedOutFits'
  BY <1>1, <1>2, <1>3 DEF SignedOutFits, PairsFit, LockFits, InSession
<1>8. CurrentFits'
  BY <1>1, <1>2, <1>3 DEF CurrentFits, IsCurrent, LockFits, PairsFit, SignedOutFits, InSession
<1>9. GateFits'
  BY <1>1, <1>2, <1>3 DEF GateFits, LockFits, TypeOK, InSession
<1>10. FileFits'
  BY <1>1, <1>2, <1>3 DEF FileFits, LockFits, GateFits, InSession
<1>11. QED
  BY <1>4, <1>5, <1>6, <1>7, <1>8, <1>9, <1>10

\* A call goes on, or the next one is made.
LEMMA CallGoesKeeps ==
  ASSUME LifecycleInv, NEW w \in Workers, CallSucceeds(w) \/ CallRefused(w) \/ (CallLost(w) /\ worker[w].failed < 2)
  PROVE  LifecycleInv'
<1> USE Holders, Numbers DEF LifecycleInv
<1>1. /\ worker[w].step = "call" /\ worker[w].calls > 0 /\ access # NoToken
      /\ lock' = lock /\ db' = db /\ config' = config /\ app' = app /\ file' = file
      /\ access' = access /\ refresh' = refresh /\ server' = server /\ js' = js
      /\ given' = given /\ tokens' = tokens /\ resetter' = resetter
      /\ signedOut' = signedOut /\ spoilt' = spoilt /\ unsaved' = unsaved /\ ops' = ops
      /\ triggers' = triggers /\ faults' = faults
  BY DEF CallSucceeds, CallRefused, CallLost, CanCall, sessionFrame, managerVars, tokenVars, jsVars
<1>2. PICK r \in Worker : /\ worker' = [worker EXCEPT ![w] = r]
                          /\ r.step \in {"call", "refresh"} /\ r.pair = worker[w].pair /\ r.foreground = worker[w].foreground
  <2>1. worker[w] \in Worker /\ worker[w].step = "call" /\ worker[w].calls > 0
    BY <1>1 DEF TypeOK
  <2>2. worker[w].calls - 1 \in 0..MaxCalls
    BY <2>1 DEF Worker
  <2>3. /\ NextCall(w) \in Worker /\ NextCall(w).step = "call"
        /\ NextCall(w).pair = worker[w].pair /\ NextCall(w).foreground = worker[w].foreground
    <3> DEFINE n == worker[w].calls - 1
    <3>1. n \in 0..MaxCalls
      BY <2>2
    <3>2. NextCall(w) = [worker[w] EXCEPT !.calls = n, !.failed = 0, !.refreshed = FALSE]
      BY DEF NextCall
    <3> HIDE DEF n
    <3>3. QED
      <4> HIDE Holders, Numbers DEF LifecycleInv
      <4>1. LET s == [worker[w] EXCEPT !.calls = n, !.failed = 0, !.refreshed = FALSE]
            IN  /\ s \in Worker
                /\ s.step = worker[w].step /\ s.pair = worker[w].pair
                /\ s.foreground = worker[w].foreground
        BY <2>1, <3>1, Another, Zenon
      <4>2. QED
        BY <2>1, <3>2, <4>1, Zenon
  <2>4. /\ [worker[w] EXCEPT !.step = "refresh"] \in Worker
        /\ [worker[w] EXCEPT !.step = "refresh"].step = "refresh"
        /\ [worker[w] EXCEPT !.step = "refresh"].pair = worker[w].pair
        /\ [worker[w] EXCEPT !.step = "refresh"].foreground = worker[w].foreground
    BY <2>1 DEF Worker
  <2>5. worker[w].failed < 2 =>
          /\ [worker[w] EXCEPT !.failed = @ + 1] \in Worker
          /\ [worker[w] EXCEPT !.failed = @ + 1].step = "call"
          /\ [worker[w] EXCEPT !.failed = @ + 1].pair = worker[w].pair
          /\ [worker[w] EXCEPT !.failed = @ + 1].foreground = worker[w].foreground
    BY <2>1 DEF Worker
  <2>6. CASE CallSucceeds(w)
    BY <2>3, <2>6 DEF CallSucceeds, Goes
  <2>7. CASE CallRefused(w)
    BY <2>3, <2>4, <2>7 DEF CallRefused, Goes
  <2>8. CASE CallLost(w) /\ worker[w].failed < 2
    BY <2>5, <2>8 DEF CallLost, Goes
  <2>9. QED
    BY <2>6, <2>7, <2>8
<1>3. /\ worker' \in [Workers -> Worker] /\ worker'[w] = r
      /\ \A v \in Workers : v # w => worker'[v] = worker[v]
  BY <1>2, Moves DEF TypeOK
<1>4. TypeOK'
  BY <1>1, <1>3 DEF TypeOK, Pairs
<1>5. LockFits'
  BY <1>1, <1>2, <1>3 DEF LockFits, InSession
<1>6. PairsFit'
  BY <1>1, <1>2, <1>3 DEF PairsFit, TypeOK, Pairs, LockFits, InSession
<1>7. SignedOutFits'
  BY <1>1, <1>2, <1>3 DEF SignedOutFits, PairsFit, LockFits, InSession
<1>8. CurrentFits'
  BY <1>1, <1>2, <1>3 DEF CurrentFits, IsCurrent, LockFits, PairsFit, SignedOutFits, InSession
<1>9. GateFits'
  BY <1>1, <1>2, <1>3 DEF GateFits, LockFits, TypeOK, InSession
<1>10. FileFits'
  BY <1>1, <1>2, <1>3 DEF FileFits, LockFits, GateFits, InSession
<1>11. QED
  BY <1>4, <1>5, <1>6, <1>7, <1>8, <1>9, <1>10

\* The last attempt of a call fails.
LEMMA CallLostLastKeeps ==
  ASSUME LifecycleInv, NEW w \in Workers, CallLost(w), ~(worker[w].failed < 2)
  PROVE  LifecycleInv'
<1> USE Holders, Numbers DEF LifecycleInv
<1>1. /\ worker[w].step = "call"
      /\ lock' = Nobody
      /\ db' = db /\ config' = config /\ app' = app /\ file' = file /\ access' = access
      /\ refresh' = refresh /\ server' = server /\ js' = js /\ given' = given
      /\ tokens' = tokens /\ resetter' = resetter /\ signedOut' = signedOut
      /\ spoilt' = spoilt /\ unsaved' = unsaved /\ ops' = ops /\ triggers' = triggers
      /\ faults' = faults
  BY DEF CallLost, CanCall, Leave, sessionFrame, managerVars, tokenVars, jsVars
<1>2. PICK r \in Worker : /\ worker' = [worker EXCEPT ![w] = r]
                          /\ r.step = "off" /\ r.pair = NoToken
  BY OffIsWorker DEF CallLost, Leave, Goes
<1>3. /\ worker' \in [Workers -> Worker] /\ worker'[w] = r
      /\ \A v \in Workers : v # w => worker'[v] = worker[v]
  BY <1>2, Moves DEF TypeOK
<1>4. TypeOK'
  BY <1>1, <1>3 DEF TypeOK, Pairs
<1>5. LockFits'
  BY <1>1, <1>2, <1>3 DEF LockFits, InSession
<1>6. PairsFit'
  BY <1>1, <1>2, <1>3 DEF PairsFit, TypeOK, Pairs, LockFits, InSession
<1>7. SignedOutFits'
  BY <1>1, <1>2, <1>3 DEF SignedOutFits, PairsFit, LockFits, InSession
<1>8. CurrentFits'
  BY <1>1, <1>2, <1>3 DEF CurrentFits, IsCurrent, LockFits, PairsFit, SignedOutFits, InSession
<1>9. GateFits'
  BY <1>1, <1>2, <1>3 DEF GateFits, LockFits, TypeOK, InSession
<1>10. FileFits'
  BY <1>1, <1>2, <1>3 DEF FileFits, LockFits, GateFits, InSession
<1>11. QED
  BY <1>4, <1>5, <1>6, <1>7, <1>8, <1>9, <1>10

\* The server rotates the pair.
LEMMA RefreshKeeps ==
  ASSUME LifecycleInv, NEW w \in Workers, Refresh(w)
  PROVE  LifecycleInv'
<1> USE Holders, Numbers DEF LifecycleInv
<1>1. /\ worker[w].step = "refresh" /\ refresh = server /\ server < MaxLogins
      /\ server' = server + 1
      /\ lock' = lock /\ db' = db /\ config' = config /\ app' = app /\ file' = file
      /\ access' = access /\ refresh' = refresh /\ js' = js /\ given' = given
      /\ tokens' = tokens /\ resetter' = resetter /\ signedOut' = signedOut
      /\ spoilt' = spoilt /\ unsaved' = unsaved /\ ops' = ops /\ triggers' = triggers
      /\ faults' = faults
  BY DEF Refresh, sessionFrame, managerVars, jsVars
<1>2. PICK r \in Worker : /\ worker' = [worker EXCEPT ![w] = r]
                          /\ r.step = "access" /\ r.pair = server' /\ r.foreground = worker[w].foreground
  <2>1. worker[w] \in Worker /\ server' \in Pairs
    BY <1>1 DEF TypeOK, Pairs
  <2>2. [worker[w] EXCEPT !.step = "access", !.pair = server'] \in Worker
    BY <2>1 DEF Worker
  <2>3. /\ [worker[w] EXCEPT !.step = "access", !.pair = server'].step = "access"
        /\ [worker[w] EXCEPT !.step = "access", !.pair = server'].pair = server'
        /\ [worker[w] EXCEPT !.step = "access", !.pair = server'].foreground = worker[w].foreground
    BY <2>1 DEF Worker
  <2>4. QED
    BY <1>1, <2>2, <2>3 DEF Refresh, Goes
<1>3. /\ worker' \in [Workers -> Worker] /\ worker'[w] = r
      /\ \A v \in Workers : v # w => worker'[v] = worker[v]
  BY <1>2, Moves DEF TypeOK
<1>4. TypeOK'
  BY <1>1, <1>3 DEF TypeOK, Pairs
<1>5. LockFits'
  BY <1>1, <1>2, <1>3 DEF LockFits, InSession
<1>6. PairsFit'
  BY <1>1, <1>2, <1>3 DEF PairsFit, TypeOK, Pairs, LockFits, InSession
<1>7. SignedOutFits'
  BY <1>1, <1>2, <1>3 DEF SignedOutFits, PairsFit, LockFits, InSession
<1>8. CurrentFits'
  BY <1>1, <1>2, <1>3 DEF CurrentFits, IsCurrent, LockFits, PairsFit, SignedOutFits, InSession
<1>9. GateFits'
  BY <1>1, <1>2, <1>3 DEF GateFits, LockFits, TypeOK, InSession
<1>10. FileFits'
  BY <1>1, <1>2, <1>3 DEF FileFits, LockFits, GateFits, InSession
<1>11. QED
  BY <1>4, <1>5, <1>6, <1>7, <1>8, <1>9, <1>10

\* The server rotates the pair, and the answer is lost.
LEMMA RefreshLostKeeps ==
  ASSUME LifecycleInv, NEW w \in Workers, RefreshLost(w)
  PROVE  LifecycleInv'
<1> USE Holders, Numbers DEF LifecycleInv
<1>1. /\ worker[w].step = "refresh" /\ refresh = server /\ server < MaxLogins /\ faults < MaxFaults
      /\ lock' = Nobody
      /\ server' = server + 1
      /\ spoilt' = TRUE
      /\ faults' = faults + 1
      /\ db' = db /\ config' = config /\ app' = app /\ file' = file /\ access' = access
      /\ refresh' = refresh /\ js' = js /\ given' = given /\ tokens' = tokens
      /\ resetter' = resetter /\ signedOut' = signedOut /\ unsaved' = unsaved
      /\ ops' = ops /\ triggers' = triggers
  BY DEF RefreshLost, Leave, Fault, Spoils, sessionFrame, managerVars, jsVars
<1>2. PICK r \in Worker : /\ worker' = [worker EXCEPT ![w] = r]
                          /\ r.step = "off" /\ r.pair = NoToken
  BY OffIsWorker DEF RefreshLost, Leave, Goes
<1>3. /\ worker' \in [Workers -> Worker] /\ worker'[w] = r
      /\ \A v \in Workers : v # w => worker'[v] = worker[v]
  BY <1>2, Moves DEF TypeOK
<1>4. TypeOK'
  BY <1>1, <1>3 DEF TypeOK, Pairs
<1>5. LockFits'
  BY <1>1, <1>2, <1>3 DEF LockFits, InSession
<1>6. PairsFit'
  BY <1>1, <1>2, <1>3 DEF PairsFit, TypeOK, Pairs, LockFits, InSession
<1>7. SignedOutFits'
  BY <1>1, <1>2, <1>3 DEF SignedOutFits, PairsFit, LockFits, InSession
<1>8. CurrentFits'
  BY <1>1, <1>2, <1>3 DEF CurrentFits, IsCurrent, LockFits, PairsFit, SignedOutFits, InSession
<1>9. GateFits'
  BY <1>1, <1>2, <1>3 DEF GateFits, LockFits, TypeOK, InSession
<1>10. FileFits'
  BY <1>1, <1>2, <1>3 DEF FileFits, LockFits, GateFits, InSession
<1>11. QED
  BY <1>4, <1>5, <1>6, <1>7, <1>8, <1>9, <1>10

\* The new access token is stored.
LEMMA StoreAccessKeeps ==
  ASSUME LifecycleInv, NEW w \in Workers, StoreAccess(w)
  PROVE  LifecycleInv'
<1> USE Holders, Numbers DEF LifecycleInv
<1>1. /\ worker[w].step = "access"
      /\ access' = worker[w].pair
      /\ lock' = lock /\ db' = db /\ config' = config /\ app' = app /\ file' = file
      /\ refresh' = refresh /\ server' = server /\ js' = js /\ given' = given
      /\ tokens' = tokens /\ resetter' = resetter /\ signedOut' = signedOut
      /\ spoilt' = spoilt /\ unsaved' = unsaved /\ ops' = ops /\ triggers' = triggers
      /\ faults' = faults
  BY DEF StoreAccess, sessionFrame, managerVars, jsVars
<1>2. PICK r \in Worker : /\ worker' = [worker EXCEPT ![w] = r]
                          /\ r.step = "store" /\ r.pair = worker[w].pair /\ r.foreground = worker[w].foreground
  <2>1. worker[w] \in Worker
    BY DEF TypeOK
  <2>2. [worker[w] EXCEPT !.step = "store"] \in Worker
    BY <2>1 DEF Worker
  <2>3. /\ [worker[w] EXCEPT !.step = "store"].step = "store"
        /\ [worker[w] EXCEPT !.step = "store"].pair = worker[w].pair
        /\ [worker[w] EXCEPT !.step = "store"].foreground = worker[w].foreground
    BY <2>1 DEF Worker
  <2>4. QED
    BY <1>1, <2>2, <2>3 DEF StoreAccess, Goes
<1>3. /\ worker' \in [Workers -> Worker] /\ worker'[w] = r
      /\ \A v \in Workers : v # w => worker'[v] = worker[v]
  BY <1>2, Moves DEF TypeOK
<1>4. TypeOK'
  <2>1. access' \in {NoToken} \cup Pairs
    BY <1>1 DEF TypeOK, Worker
  <2>2. QED
    BY <1>1, <1>3, <2>1 DEF TypeOK
<1>5. LockFits'
  BY <1>1, <1>2, <1>3 DEF LockFits, InSession
<1>6. PairsFit'
  BY <1>1, <1>2, <1>3 DEF PairsFit, TypeOK, Pairs, LockFits, InSession
<1>7. SignedOutFits'
  BY <1>1, <1>2, <1>3 DEF SignedOutFits, PairsFit, LockFits, InSession
<1>8. CurrentFits'
  BY <1>1, <1>2, <1>3 DEF CurrentFits, IsCurrent, LockFits, PairsFit, SignedOutFits, InSession
<1>9. GateFits'
  BY <1>1, <1>2, <1>3 DEF GateFits, LockFits, TypeOK, InSession
<1>10. FileFits'
  BY <1>1, <1>2, <1>3 DEF FileFits, LockFits, GateFits, InSession
<1>11. QED
  BY <1>4, <1>5, <1>6, <1>7, <1>8, <1>9, <1>10

\* The new refresh token is stored.
LEMMA StoreRefreshKeeps ==
  ASSUME LifecycleInv, NEW w \in Workers, StoreRefresh(w)
  PROVE  LifecycleInv'
<1> USE Holders, Numbers DEF LifecycleInv
<1>1. /\ worker[w].step = "store"
      /\ refresh' = worker[w].pair
      /\ lock' = lock /\ db' = db /\ config' = config /\ app' = app /\ file' = file
      /\ access' = access /\ server' = server /\ js' = js /\ given' = given
      /\ tokens' = tokens /\ resetter' = resetter /\ signedOut' = signedOut
      /\ spoilt' = spoilt /\ unsaved' = unsaved /\ ops' = ops /\ triggers' = triggers
      /\ faults' = faults
  BY DEF StoreRefresh, sessionFrame, managerVars, jsVars
<1>2. PICK r \in Worker : /\ worker' = [worker EXCEPT ![w] = r]
                          /\ r.step = "call" /\ r.pair = NoToken /\ r.foreground = worker[w].foreground
  <2>1. worker[w] \in Worker
    BY DEF TypeOK
  <2>2. [worker[w] EXCEPT !.step = "call", !.refreshed = TRUE, !.pair = NoToken] \in Worker
    BY <2>1 DEF Worker
  <2>3. /\ [worker[w] EXCEPT !.step = "call", !.refreshed = TRUE, !.pair = NoToken].step = "call"
        /\ [worker[w] EXCEPT !.step = "call", !.refreshed = TRUE, !.pair = NoToken].pair = NoToken
        /\ [worker[w] EXCEPT !.step = "call", !.refreshed = TRUE, !.pair = NoToken].foreground = worker[w].foreground
    BY <2>1 DEF Worker
  <2>4. QED
    BY <1>1, <2>2, <2>3 DEF StoreRefresh, Goes
<1>3. /\ worker' \in [Workers -> Worker] /\ worker'[w] = r
      /\ \A v \in Workers : v # w => worker'[v] = worker[v]
  BY <1>2, Moves DEF TypeOK
<1>4. TypeOK'
  <2>1. refresh' \in {NoToken} \cup Pairs
    BY <1>1 DEF TypeOK, Worker
  <2>2. QED
    BY <1>1, <1>3, <2>1 DEF TypeOK
<1>5. LockFits'
  BY <1>1, <1>2, <1>3 DEF LockFits, InSession
<1>6. PairsFit'
  BY <1>1, <1>2, <1>3 DEF PairsFit, TypeOK, Pairs, LockFits, InSession
<1>7. SignedOutFits'
  BY <1>1, <1>2, <1>3 DEF SignedOutFits, PairsFit, LockFits, InSession
<1>8. CurrentFits'
  BY <1>1, <1>2, <1>3 DEF CurrentFits, IsCurrent, LockFits, PairsFit, SignedOutFits, InSession
<1>9. GateFits'
  BY <1>1, <1>2, <1>3 DEF GateFits, LockFits, TypeOK, InSession
<1>10. FileFits'
  BY <1>1, <1>2, <1>3 DEF FileFits, LockFits, GateFits, InSession
<1>11. QED
  BY <1>4, <1>5, <1>6, <1>7, <1>8, <1>9, <1>10

(***************************************************************************)
(* A crash, and every step.                                                *)
(***************************************************************************)

\* The process dies: what is left is the file and the tokens.
LEMMA CrashKeeps ==
  ASSUME LifecycleInv, Crash
  PROVE  LifecycleInv'
<1> USE Holders, Numbers DEF LifecycleInv
<1>1. /\ lock' = Nobody /\ db' = NoConfig /\ config' = NoConfig /\ app' = FALSE
      /\ js' = "idle" /\ given' = NoConfig /\ tokens' = NoToken /\ resetter' = "off"
      /\ worker' = [w \in Workers |-> Off] /\ unsaved' = FALSE
      /\ file' = file /\ access' = access /\ refresh' = refresh /\ server' = server
      /\ signedOut' = signedOut /\ ops' = ops /\ triggers' = triggers
      /\ faults < MaxFaults /\ faults' = faults + 1
  BY DEF Crash, Fault, tokenVars
<1>2. spoilt' = (spoilt \/ access # refresh \/ \E w \in Workers : worker[w].step = "access")
  BY DEF Crash
<1>3. /\ spoilt' \in BOOLEAN
      /\ ~spoilt' => ~spoilt /\ access = refresh /\ \A w \in Workers : worker[w].step # "access"
  BY <1>2 DEF TypeOK
<1>4. /\ \A w \in Workers : worker'[w] = Off /\ worker'[w].step = "off" /\ worker'[w].pair = NoToken
      /\ \A w \in Workers : ~InSession(w)'
      /\ worker' \in [Workers -> Worker]
  BY <1>1, OffIsWorker DEF InSession
<1>5. TypeOK'
  <2>1. faults' \in 0..MaxFaults
    BY <1>1 DEF TypeOK
  <2>2. /\ lock' \in {Nobody, "js", "reset"} \cup Workers
        /\ {db', config', file', given'} \subseteq {NoConfig} \cup Configs
        /\ app' \in BOOLEAN
        /\ js' \in {"idle", "configure", "seed", "save", "schedule", "logout", "forget"}
        /\ resetter' \in {"off", "wait", "access", "refresh", "config", "file", "schedule"}
    BY <1>1 DEF TypeOK
  <2>3. {access', refresh', tokens'} \subseteq {NoToken} \cup Pairs /\ server' \in Pairs
    BY <1>1 DEF TypeOK
  <2>4. {signedOut', spoilt', unsaved'} \subseteq BOOLEAN
    BY <1>1, <1>3 DEF TypeOK
  <2>5. ops' \in 0..MaxOps /\ triggers' \in 0..MaxTriggers
    BY <1>1 DEF TypeOK
  <2>6. QED
    BY <1>4, <2>1, <2>2, <2>3, <2>4, <2>5 DEF TypeOK, Pairs
<1>6. LockFits' /\ PairsFit' /\ SignedOutFits'
  BY <1>1, <1>4 DEF LockFits, PairsFit, SignedOutFits
<1>7. ~spoilt' => IsCurrent'
  <2> SUFFICES ASSUME ~spoilt' PROVE IsCurrent
    BY <1>1 DEF IsCurrent
  <2>1. CASE lock \in Workers
    <3>1. PICK w \in Workers : InSession(w) /\ worker[w].step # "access"
      BY <1>3, <2>1 DEF LockFits
    <3>2. CASE worker[w].step = "store"
      BY <1>3, <3>2 DEF CurrentFits, SignedOutFits, IsCurrent
    <3>3. QED
      BY <1>3, <3>1, <3>2 DEF CurrentFits, InSession
  <2>2. CASE lock \in {Nobody, "js", "reset"}
    <3>1. CASE js = "seed" /\ tokens # NoToken
      BY <1>3, <3>1 DEF SignedOutFits, PairsFit, IsCurrent
    <3>2. CASE js = "forget" \/ resetter \in {"refresh", "config", "file"}
      BY <1>3, <3>2 DEF SignedOutFits, IsCurrent
    <3>3. QED
      BY <1>3, <2>2, <3>1, <3>2 DEF LockFits, CurrentFits
  <2>3. QED
    BY <2>1, <2>2 DEF TypeOK
<1>8. CurrentFits' /\ GateFits' /\ FileFits'
  BY <1>1, <1>4, <1>7 DEF CurrentFits, GateFits, FileFits
<1>9. QED
  BY <1>5, <1>6, <1>8

LEMMA StepKeeps == LifecycleInv /\ [Next]_vars => LifecycleInv'
<1> SUFFICES ASSUME LifecycleInv, [Next]_vars PROVE LifecycleInv'
  OBVIOUS
<1>1. CASE UNCHANGED vars
  BY <1>1 DEF vars, managerVars, tokenVars, jsVars, historyVars, boundVars, LifecycleInv, TypeOK, LockFits,
              PairsFit, SignedOutFits, CurrentFits, IsCurrent, GateFits, FileFits, InSession
<1>2. CASE Js \/ JsGoesOn
  BY <1>2, CallConfigureKeeps, CallLogoutKeeps, ConfigureKeeps, SeedKeeps, SaveKeeps, SaveThrowsKeeps,
     ScheduleKeeps, LogoutKeeps, ForgetKeeps DEF Js, JsGoesOn
<1>3. CASE CallReset \/ Resetter
  BY <1>3, CallResetKeeps, ResetKeeps, ResetAccessKeeps, ResetRefreshKeeps, ResetConfigKeeps,
     ResetFileKeeps, ResetScheduleKeeps DEF Resetter
<1>4. ASSUME NEW w \in Workers, TriggerForeground(w) \/ WakeBackground(w) \/ TriggerSync(w)
      PROVE  LifecycleInv'
  <2>1. CASE TriggerForeground(w)
    BY <2>1, TriggerKeeps DEF TriggerForeground
  <2>2. CASE WakeBackground(w)
    BY <2>2, TriggerKeeps DEF WakeBackground
  <2>3. CASE TriggerSync(w)
    BY <2>3, TriggerKeeps DEF TriggerSync
  <2>4. QED
    BY <1>4, <2>1, <2>2, <2>3
<1>5. ASSUME NEW w \in Workers, SessionGoesOn(w)
      PROVE  LifecycleInv'
  BY <1>5, ReopenKeeps, DiscardKeeps, EnterKeeps, EndSessionKeeps, CallGoesKeeps, CallLostLastKeeps,
     RefreshKeeps, RefreshLostKeeps, RefreshFailsKeeps, StoreAccessKeeps, StoreRefreshKeeps
     DEF SessionGoesOn
<1>6. QED
  BY <1>1, <1>2, <1>3, <1>4, <1>5, CrashKeeps DEF Next

LEMMA InvariantHolds == Spec => []LifecycleInv
BY InitEstablishes, StepKeeps, PTL DEF Spec

(***************************************************************************)
(* The theorems.                                                           *)
(***************************************************************************)

\* Every variable has its type in every reachable state.
THEOREM TypeCorrect == Spec => []TypeOK
<1>1. LifecycleInv => TypeOK
  BY DEF LifecycleInv
<1>2. QED
  BY <1>1, InvariantHolds, PTL

\* After HybridSalveDatabase::logout() or DatabaseResetter::reset() no token
\* comes back without a login.
THEOREM SignedOutStaysSignedOutCorrect == Spec => []SignedOutStaysSignedOut
<1>1. LifecycleInv => SignedOutStaysSignedOut
  BY DEF LifecycleInv, SignedOutFits, SignedOutStaysSignedOut
<1>2. QED
  BY <1>1, InvariantHolds, PTL

\* With the lock free, CredentialProvider's two stored tokens are one pair, the
\* server's, or there are none, but for what is recorded as spoilt.
THEOREM StoredPairIsCurrentCorrect == Spec => []StoredPairIsCurrent
<1>1. LifecycleInv => StoredPairIsCurrent
  BY DEF LifecycleInv, CurrentFits, IsCurrent, StoredPairIsCurrent
<1>2. QED
  BY <1>1, InvariantHolds, PTL

\* The first Database.configure() of a process does not wait for the network
\* calls of a foreground trigger (SyncNativeEntryPoint's gate).
THEOREM FirstConfigureIsQuickCorrect == Spec => []FirstConfigureIsQuick
<1>1. LifecycleInv => FirstConfigureIsQuick
  <2> SUFFICES ASSUME LifecycleInv, NEW w \in Workers, js = "configure", ~app, worker[w].foreground,
                      CanCall(w)
               PROVE  FALSE
    BY DEF FirstConfigureIsQuick
  <2>1. worker[w].step # "off" /\ config # NoConfig
    BY DEF CanCall
  <2>2. QED
    BY <2>1 DEF LifecycleInv, GateFits
<1>2. QED
  BY <1>1, InvariantHolds, PTL

\* NativeConfigStore's file is what the process is configured with.
THEOREM FileIsConfigurationCorrect == Spec => []FileIsConfiguration
<1>1. LifecycleInv => FileIsConfiguration
  BY DEF LifecycleInv, FileFits, FileIsConfiguration
<1>2. QED
  BY <1>1, InvariantHolds, PTL

(***************************************************************************)
(* A session is undisturbed: who changes the configuration or the tokens   *)
(* while it runs holds the lock, and that is the session itself.           *)
(***************************************************************************)

Undisturbed(w) ==
  InSession(w) /\ InSession(w)' =>
    /\ UNCHANGED <<db, config>>
    /\ worker'[w] = worker[w] => UNCHANGED <<access, refresh>>

\* A step of the JavaScript thread or of reset() under the lock meets no session.
LEMMA OthersUndisturb ==
  ASSUME LifecycleInv, NEW w \in Workers, Js \/ JsGoesOn \/ CallReset \/ Resetter
  PROVE  Undisturbed(w)
<1> USE Holders
<1>1. lock \in {Nobody, "js", "reset"} => ~InSession(w)
  BY DEF LifecycleInv, LockFits
<1>2. /\ js \in {"seed", "forget"} => lock = "js"
      /\ resetter \in {"access", "refresh", "config", "file"} => lock = "reset"
  BY DEF LifecycleInv, LockFits
<1>3. CASE Configure \/ Seed \/ Logout \/ Forget
  BY <1>1, <1>2, <1>3 DEF Undisturbed, Configure, Seed, Logout, Forget
<1>4. CASE Js \/ Save \/ SaveThrows \/ Schedule
  BY <1>4 DEF Undisturbed, Js, CallConfigure, CallLogout, Save, SaveThrows, Schedule, managerVars,
              tokenVars
<1>5. CASE CallReset
  BY <1>5 DEF Undisturbed, CallReset, managerVars, tokenVars
<1>6. CASE Reset \/ ResetAccess \/ ResetRefresh \/ ResetConfig \/ ResetFile
  BY <1>1, <1>2, <1>6 DEF Undisturbed, Reset, ResetAccess, ResetRefresh, ResetConfig, ResetFile
<1>7. CASE ResetSchedule
  BY <1>7 DEF Undisturbed, ResetSchedule, managerVars, tokenVars
<1>8. QED
  BY <1>3, <1>4, <1>5, <1>6, <1>7 DEF JsGoesOn, Resetter

\* A step of one session meets no other session, or changes nothing of theirs.
LEMMA SessionsUndisturb ==
  ASSUME LifecycleInv, NEW w \in Workers, NEW v \in Workers,
         TriggerForeground(v) \/ WakeBackground(v) \/ TriggerSync(v) \/ SessionGoesOn(v)
  PROVE  Undisturbed(w)
<1> USE Holders
<1>1. /\ lock = Nobody => ~InSession(w)
      /\ InSession(v) /\ v # w => ~InSession(w)
  BY DEF LifecycleInv, LockFits
<1>2. CASE TriggerForeground(v) \/ WakeBackground(v) \/ TriggerSync(v)
  BY <1>2 DEF Undisturbed, TriggerForeground, WakeBackground, TriggerSync, Trigger, sessionFrame,
              managerVars, tokenVars
<1>3. CASE Reopen(v) \/ Enter(v)
  BY <1>1, <1>3 DEF Undisturbed, Reopen, Enter
<1>4. CASE Discard(v)
  BY <1>4 DEF Undisturbed, Discard, sessionFrame, managerVars, tokenVars
<1>5. CASE EndSession(v) \/ CallSucceeds(v) \/ CallLost(v) \/ CallRefused(v) \/ RefreshFails(v)
  BY <1>5 DEF Undisturbed, EndSession, CallSucceeds, CallLost, CallRefused, RefreshFails,
              sessionFrame, managerVars, tokenVars
<1>6. CASE Refresh(v) \/ RefreshLost(v)
  BY <1>6 DEF Undisturbed, Refresh, RefreshLost, sessionFrame, managerVars
<1>7. CASE StoreAccess(v)
  <2>1. InSession(v) /\ UNCHANGED <<db, config>>
    BY <1>7 DEF StoreAccess, InSession, sessionFrame, managerVars
  <2>2. worker[v] \in Worker /\ worker[v].step = "access"
    BY <1>7 DEF StoreAccess, LifecycleInv, TypeOK
  <2>3. worker'[v].step = "store"
    BY <1>7, <2>2 DEF StoreAccess, Goes, LifecycleInv, TypeOK, Worker
  <2>4. QED
    BY <1>1, <2>1, <2>2, <2>3 DEF Undisturbed
<1>8. CASE StoreRefresh(v)
  <2>1. InSession(v) /\ UNCHANGED <<db, config>>
    BY <1>8 DEF StoreRefresh, InSession, sessionFrame, managerVars
  <2>2. worker[v] \in Worker /\ worker[v].step = "store"
    BY <1>8 DEF StoreRefresh, LifecycleInv, TypeOK
  <2>3. worker'[v].step = "call"
    BY <1>8, <2>2 DEF StoreRefresh, Goes, LifecycleInv, TypeOK, Worker
  <2>4. QED
    BY <1>1, <2>1, <2>2, <2>3 DEF Undisturbed
<1>9. QED
  BY <1>2, <1>3, <1>4, <1>5, <1>6, <1>7, <1>8 DEF SessionGoesOn

\* A session begins and ends under one configuration and with tokens that
\* nobody else writes: the lock of SyncOrchestrator's runSyncSession().
THEOREM SessionIsUndisturbedCorrect == Spec => SessionIsUndisturbed
<1>1. ASSUME LifecycleInv, [Next]_vars, NEW w \in Workers
      PROVE  Undisturbed(w)
  <2>1. CASE UNCHANGED vars
    BY <2>1 DEF vars, managerVars, tokenVars, Undisturbed
  <2>2. CASE Crash
    BY <2>2, OffIsWorker DEF Crash, Undisturbed, InSession
  <2>3. QED
    BY <1>1, <2>1, <2>2, OthersUndisturb, SessionsUndisturb DEF Next
<1>2. LifecycleInv /\ [Next]_vars =>
        [\A w \in Workers : InSession(w) /\ InSession(w)' =>
           /\ UNCHANGED <<db, config>>
           /\ worker'[w] = worker[w] => UNCHANGED <<access, refresh>>]_vars
  BY <1>1 DEF Undisturbed
<1>3. QED
  BY <1>2, InvariantHolds, PTL DEF Spec, SessionIsUndisturbed

=============================================================================
