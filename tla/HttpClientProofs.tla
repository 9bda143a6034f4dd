-------------------------- MODULE HttpClientProofs --------------------------
(***************************************************************************)
(* Proofs about sessions and their HTTP layer, for every set of calls and  *)
(* every retry policy: TokenRefresh, SendRetrying and Login, in this       *)
(* order, and at the end that HttpClient implements each of them, so that  *)
(* what is proved of a part holds of the whole.                            *)
(***************************************************************************)
EXTENDS HttpClient, TLAPS

-----------------------------------------------------------------------------
(* TokenRefresh.  The inductive invariant says, for every control state of  *)
(* the refresh task that holds the mutex, which generation the client, the  *)
(* store, the wire and the server are at.                                   *)

\* The mutex and the control state of the tasks agree.
LockInv == \A c \in Call : task[c] \in Holding <=> refresh = c

\* A caller that has not seen a 401 has no task; one that resends has a
\* finished task.
CallInv ==
    \A c \in Call :
        /\ pc[c] \in {"idle", "sent"} => task[c] = "none"
        /\ pc[c] = "resent" => task[c] = "done"

\* How the generations in the client, on the wire and at the server are ordered.
GenInv ==
    /\ persisted <= tokens
    /\ tokens <= srvGen
    /\ \A c \in Call :
          /\ pc[c] = "sent" => tok[c] <= tokens
          /\ task[c] = "lock" => tok[c] <= tokens
          /\ task[c] \in {"connect", "awaiting", "store"} => tok[c] = tokens
          /\ task[c] = "store" => tokens < got[c] /\ got[c] <= srvGen
          /\ task[c] = "notify" => got[c] = tokens /\ tok[c] < got[c]
          /\ task[c] = "done" => tok[c] < got[c]
    /\ \A m \in wire :
          /\ m.gen <= srvGen
          /\ task[m.of] \notin {"none", "lock", "connect"}
          /\ (task[m.of] = "awaiting" /\ m.kind = "new") => tokens < m.gen

\* Whoever is about to spend the newest refresh token saw its access token
\* rejected.
ExpiryInv ==
    /\ \A c \in Call :
          (task[c] \in {"lock", "connect"} /\ tok[c] = srvGen) => expired
    /\ \A m \in wire : (m.kind = "ask" /\ m.gen = srvGen) => expired

\* As long as no answer was abandoned, the mutex holder's control state fixes
\* what is on the wire and how far client, store and server are apart.
SyncInv ==
    ~abandoned =>
        /\ ~reused
        /\ (\A c \in Call : task[c] \notin {"awaiting", "store", "notify"})
              => wire = {} /\ tokens = srvGen /\ persisted = srvGen
        /\ \A c \in Call :
              /\ task[c] = "awaiting" =>
                    \/ wire = {Ask(c)} /\ tokens = srvGen
                    \/ wire = {[of |-> c, kind |-> "new", gen |-> srvGen]}
              /\ task[c] = "store" => wire = {} /\ got[c] = srvGen
              /\ task[c] = "notify" => wire = {} /\ got[c] = srvGen

IInv == TypeOK /\ LockInv /\ CallInv /\ GenInv /\ ExpiryInv /\ SyncInv

-----------------------------------------------------------------------------
LEMMA InitIInv == Init => IInv
<1> SUFFICES ASSUME Init PROVE IInv
  OBVIOUS
<1> USE CallAssumption, BoundAssumption DEF Init
<1>1. TypeOK
  <2>1. /\ pc \in [Call -> {"idle"} \cup Active \cup Final]
        /\ task \in [Call -> {"none", "lock", "done", "error"} \cup Holding]
        /\ tok \in [Call -> Gen] /\ got \in [Call -> Gen]
        /\ attempt \in [Call -> 0 .. MaxRetries]
    BY DEF Gen
  <2>2. /\ refresh \in Call \cup {NoCall}
        /\ tokens \in Gen /\ persisted \in Gen /\ srvGen \in Gen
        /\ wire \subseteq Message
    BY DEF Gen
  <2>3. expired \in BOOLEAN /\ abandoned \in BOOLEAN /\ reused \in BOOLEAN
    BY Zenon
  <2> QED
    BY <2>1, <2>2, <2>3 DEF TypeOK
<1>2. LockInv
  BY DEF LockInv, Holding
<1>3. CallInv /\ GenInv /\ ExpiryInv /\ SyncInv
  BY DEF CallInv, GenInv, ExpiryInv, SyncInv
<1> QED
  BY <1>1, <1>2, <1>3 DEF IInv

LEMMA ExpireIInv ==
    ASSUME IInv, Expire
    PROVE  IInv'
<1> USE CallAssumption, BoundAssumption DEF IInv, Expire, client, server
<1>1. TypeOK'
  BY DEF TypeOK, Active, Final, Holding, Gen, Message, Ask
<1>2. LockInv'
  BY DEF LockInv, TypeOK, Holding
<1>3. CallInv'
  BY DEF CallInv, TypeOK
<1>4. GenInv'
  BY DEF GenInv, TypeOK, LockInv, CallInv, Holding, Message, Gen, Ask
<1>5. ExpiryInv'
  BY DEF ExpiryInv, TypeOK, GenInv, CallInv, Message, Gen, Ask
<1>6. SyncInv'
  BY DEF SyncInv, TypeOK, LockInv, CallInv, GenInv, Holding, Message, Gen, Ask
<1> QED
  BY <1>1, <1>2, <1>3, <1>4, <1>5, <1>6

LEMMA ServeRefreshIInv ==
    ASSUME IInv, NEW m \in wire, ServeRefresh(m)
    PROVE  IInv'
<1> USE CallAssumption, BoundAssumption DEF IInv, ServeRefresh, client
<1>1. TypeOK'
  <2>1. wire' \subseteq Message /\ srvGen' \in Gen
    <3>1. m \in Message /\ wire \subseteq Message /\ srvGen \in Nat
      BY DEF TypeOK, Gen
    <3>2. CASE m.gen = srvGen
      BY <3>1, <3>2 DEF Message, Gen
    <3>3. CASE m.gen # srvGen
      BY <3>1, <3>3 DEF Message, Gen
    <3> QED
      BY <3>2, <3>3
  <2>2. expired' \in BOOLEAN /\ reused' \in BOOLEAN
    BY Zenon DEF TypeOK
  <2> QED
    BY <2>1, <2>2 DEF TypeOK
<1>2. LockInv'
  BY DEF LockInv, TypeOK, Holding
<1>3. CallInv'
  BY DEF CallInv, TypeOK
<1>4. GenInv'
  BY DEF GenInv, TypeOK, LockInv, CallInv, Holding, Message, Gen, Ask
<1>5. ExpiryInv'
  BY DEF ExpiryInv, TypeOK, GenInv, CallInv, Message, Gen, Ask
<1>6. SyncInv'
  BY DEF SyncInv, TypeOK, LockInv, CallInv, GenInv, Holding, Message, Gen, Ask
<1> QED
  BY <1>1, <1>2, <1>3, <1>4, <1>5, <1>6

LEMMA SendIInv ==
    ASSUME IInv, NEW c \in Call, Send(c)
    PROVE  IInv'
<1> USE CallAssumption, BoundAssumption DEF IInv, Send, Goto, server
<1>1. TypeOK'
  BY DEF TypeOK, Active, Final, Holding, Gen, Message, Ask
<1>2. LockInv'
  BY DEF LockInv, TypeOK, Holding
<1>3. CallInv'
  BY DEF CallInv, TypeOK
<1>4. GenInv'
  BY DEF GenInv, TypeOK, LockInv, CallInv, Holding, Message, Gen, Ask
<1>5. ExpiryInv'
  BY DEF ExpiryInv, TypeOK, GenInv, CallInv, Message, Gen, Ask
<1>6. SyncInv'
  BY DEF SyncInv, TypeOK, LockInv, CallInv, GenInv, Holding, Message, Gen, Ask
<1> QED
  BY <1>1, <1>2, <1>3, <1>4, <1>5, <1>6

LEMMA RejectIInv ==
    ASSUME IInv, NEW c \in Call, Reject(c)
    PROVE  IInv'
<1> USE CallAssumption, BoundAssumption DEF IInv, Reject, Goto, server, Accepted
<1>1. TypeOK'
  BY DEF TypeOK, Active, Final, Holding, Gen, Message, Ask
<1>2. LockInv'
  BY DEF LockInv, CallInv, TypeOK, Holding
<1>3. CallInv'
  BY DEF CallInv, TypeOK
<1>4. GenInv'
  BY DEF GenInv, TypeOK, LockInv, CallInv, Holding, Message, Gen, Ask
<1>5. ExpiryInv'
  BY DEF ExpiryInv, TypeOK, GenInv, CallInv, Message, Gen, Ask
<1>6. SyncInv'
  BY DEF SyncInv, TypeOK, LockInv, CallInv, GenInv, Holding, Message, Gen, Ask
<1> QED
  BY <1>1, <1>2, <1>3, <1>4, <1>5, <1>6

LEMMA LockAndCheckIInv ==
    ASSUME IInv, NEW c \in Call, LockAndCheck(c)
    PROVE  IInv'
<1> USE CallAssumption, BoundAssumption DEF IInv, LockAndCheck, Step, server
<1>1. TypeOK'
  BY DEF TypeOK, Active, Final, Holding, Gen, Message, Ask
<1>2. LockInv'
  BY DEF LockInv, TypeOK, Holding
<1>3. CallInv'
  BY DEF CallInv, TypeOK
<1>4. GenInv'
  BY DEF GenInv, TypeOK, LockInv, CallInv, Holding, Message, Gen, Ask
<1>5. ExpiryInv'
  BY DEF ExpiryInv, TypeOK, GenInv, CallInv, Message, Gen, Ask
<1>6. SyncInv'
  BY DEF SyncInv, TypeOK, LockInv, CallInv, GenInv, Holding, Message, Gen, Ask
<1> QED
  BY <1>1, <1>2, <1>3, <1>4, <1>5, <1>6

LEMMA ConnectedIInv ==
    ASSUME IInv, NEW c \in Call, Connected(c)
    PROVE  IInv'
<1> USE CallAssumption, BoundAssumption DEF IInv, Connected, Step, server
<1>1. TypeOK'
  BY DEF TypeOK, Active, Final, Holding, Gen, Message, Ask
<1>2. LockInv'
  BY DEF LockInv, TypeOK, Holding
<1>3. CallInv'
  BY DEF CallInv, TypeOK
<1>4. GenInv'
  BY DEF GenInv, TypeOK, LockInv, CallInv, Holding, Message, Gen, Ask
<1>5. ExpiryInv'
  BY DEF ExpiryInv, TypeOK, GenInv, CallInv, Message, Gen, Ask
<1>6. SyncInv'
  BY DEF SyncInv, TypeOK, LockInv, CallInv, GenInv, Holding, Message, Gen, Ask
<1> QED
  BY <1>1, <1>2, <1>3, <1>4, <1>5, <1>6

LEMMA ConnectFailedIInv ==
    ASSUME IInv, NEW c \in Call, ConnectFailed(c)
    PROVE  IInv'
<1> USE CallAssumption, BoundAssumption DEF IInv, ConnectFailed, Step, server
<1>1. TypeOK'
  BY DEF TypeOK, Active, Final, Holding, Gen, Message, Ask
<1>2. LockInv'
  BY DEF LockInv, TypeOK, Holding
<1>3. CallInv'
  BY DEF CallInv, TypeOK
<1>4. GenInv'
  BY DEF GenInv, TypeOK, LockInv, CallInv, Holding, Message, Gen, Ask
<1>5. ExpiryInv'
  BY DEF ExpiryInv, TypeOK, GenInv, CallInv, Message, Gen, Ask
<1>6. SyncInv'
  BY DEF SyncInv, TypeOK, LockInv, CallInv, GenInv, Holding, Message, Gen, Ask
<1> QED
  BY <1>1, <1>2, <1>3, <1>4, <1>5, <1>6

LEMMA GiveUpIInv ==
    ASSUME IInv, NEW c \in Call, GiveUp(c)
    PROVE  IInv'
<1> USE CallAssumption, BoundAssumption DEF IInv, GiveUp, Step, server
<1>1. TypeOK'
  BY DEF TypeOK, Active, Final, Holding, Gen, Message, Ask
<1>2. LockInv'
  BY DEF LockInv, TypeOK, Holding
<1>3. CallInv'
  BY DEF CallInv, TypeOK
<1>4. GenInv'
  BY DEF GenInv, TypeOK, LockInv, CallInv, Holding, Message, Gen, Ask
<1>5. ExpiryInv'
  BY DEF ExpiryInv, TypeOK, GenInv, CallInv, Message, Gen, Ask
<1>6. SyncInv'
  BY DEF SyncInv, TypeOK, LockInv, CallInv, GenInv, Holding, Message, Gen, Ask
<1> QED
  BY <1>1, <1>2, <1>3, <1>4, <1>5, <1>6

LEMMA AnsweredIInv ==
    ASSUME IInv, NEW c \in Call, Answered(c)
    PROVE  IInv'
<1> USE CallAssumption, BoundAssumption DEF IInv, Answered, Step, server
<1>1. TypeOK'
  BY DEF TypeOK, Active, Final, Holding, Gen, Message, Ask
<1>2. LockInv'
  BY DEF LockInv, TypeOK, Holding
<1>3. CallInv'
  BY DEF CallInv, TypeOK
<1>4. GenInv'
  BY DEF GenInv, TypeOK, LockInv, CallInv, Holding, Message, Gen, Ask
<1>5. ExpiryInv'
  BY DEF ExpiryInv, TypeOK, GenInv, CallInv, Message, Gen, Ask
<1>6. SyncInv'
  BY DEF SyncInv, TypeOK, LockInv, CallInv, GenInv, Holding, Message, Gen, Ask
<1> QED
  BY <1>1, <1>2, <1>3, <1>4, <1>5, <1>6

LEMMA StoreTokensIInv ==
    ASSUME IInv, NEW c \in Call, StoreTokens(c)
    PROVE  IInv'
<1> USE CallAssumption, BoundAssumption DEF IInv, StoreTokens, Step, server
<1>1. TypeOK'
  BY DEF TypeOK, Active, Final, Holding, Gen, Message, Ask
<1>2. LockInv'
  BY DEF LockInv, TypeOK, Holding
<1>3. CallInv'
  BY DEF CallInv, TypeOK
<1>4. GenInv'
  BY DEF GenInv, TypeOK, LockInv, CallInv, Holding, Message, Gen, Ask
<1>5. ExpiryInv'
  BY DEF ExpiryInv, TypeOK, GenInv, CallInv, Message, Gen, Ask
<1>6. SyncInv'
  BY DEF SyncInv, TypeOK, LockInv, CallInv, GenInv, Holding, Message, Gen, Ask
<1> QED
  BY <1>1, <1>2, <1>3, <1>4, <1>5, <1>6

LEMMA NotifyIInv ==
    ASSUME IInv, NEW c \in Call, Notify(c)
    PROVE  IInv'
<1> USE CallAssumption, BoundAssumption DEF IInv, Notify, Step, server
<1>1. TypeOK'
  BY DEF TypeOK, Active, Final, Holding, Gen, Message, Ask
<1>2. LockInv'
  BY DEF LockInv, TypeOK, Holding
<1>3. CallInv'
  BY DEF CallInv, TypeOK
<1>4. GenInv'
  BY DEF GenInv, TypeOK, LockInv, CallInv, Holding, Message, Gen, Ask
<1>5. ExpiryInv'
  BY DEF ExpiryInv, TypeOK, GenInv, CallInv, Message, Gen, Ask
<1>6. SyncInv'
  BY DEF SyncInv, TypeOK, LockInv, CallInv, GenInv, Holding, Message, Gen, Ask
<1> QED
  BY <1>1, <1>2, <1>3, <1>4, <1>5, <1>6

LEMMA CallerIInv ==
    ASSUME IInv, NEW c \in Call,
           Accept(c) \/ Fail(c) \/ RejectTerminal(c)
           \/ ReturnUnauthorized(c) \/ Joined(c) \/ Cancel(c)
    PROVE  IInv'
<1> USE CallAssumption, BoundAssumption DEF IInv, Accept, Fail, RejectTerminal,
       ReturnUnauthorized, Joined, Cancel, Goto, server, Active
<1>1. TypeOK'
  BY DEF TypeOK, Active, Final, Holding, Gen, Message, Ask
<1>2. LockInv'
  BY DEF LockInv, TypeOK, Holding
<1>3. CallInv'
  BY DEF CallInv, TypeOK
<1>4. GenInv'
  BY DEF GenInv, TypeOK, LockInv, CallInv, Holding, Message, Gen, Ask
<1>5. ExpiryInv'
  BY DEF ExpiryInv, TypeOK, GenInv, CallInv, Message, Gen, Ask
<1>6. SyncInv'
  BY DEF SyncInv, TypeOK, LockInv, CallInv, GenInv, Holding, Message, Gen, Ask
<1> QED
  BY <1>1, <1>2, <1>3, <1>4, <1>5, <1>6

LEMMA RestartIInv ==
    ASSUME IInv, Restart
    PROVE  IInv'
<1> USE CallAssumption, BoundAssumption DEF IInv, Restart, server, Active, Holding
<1>1. TypeOK'
  BY DEF TypeOK, Active, Final, Holding, Gen, Message, Ask
<1>2. LockInv'
  BY DEF LockInv, TypeOK, Holding
<1>3. CallInv'
  BY DEF CallInv, TypeOK
<1>4. GenInv'
  BY DEF GenInv, TypeOK, LockInv, CallInv, Holding, Message, Gen, Ask
<1>5. ExpiryInv'
  BY DEF ExpiryInv, TypeOK, GenInv, CallInv, Message, Gen, Ask
<1>6. SyncInv'
  BY DEF SyncInv, TypeOK, LockInv, CallInv, GenInv, Holding, Message, Gen, Ask
<1> QED
  BY <1>1, <1>2, <1>3, <1>4, <1>5, <1>6

-----------------------------------------------------------------------------
LEMMA StutterIInv == IInv /\ UNCHANGED vars => IInv'
BY DEF vars, IInv, TypeOK, LockInv, CallInv, GenInv, ExpiryInv, SyncInv, Ask

LEMMA NextIInv == IInv /\ [Next]_vars => IInv'
<1> SUFFICES ASSUME IInv, [Next]_vars PROVE IInv'
  OBVIOUS
<1>1. CASE Expire
  BY <1>1, ExpireIInv
<1>2. ASSUME NEW m \in wire, ServeRefresh(m) PROVE IInv'
  BY <1>2, ServeRefreshIInv
<1>3. ASSUME NEW c \in Call, Send(c) PROVE IInv'
  BY <1>3, SendIInv
<1>4. ASSUME NEW c \in Call, CallStep(c) \/ Cancel(c) PROVE IInv'
  BY <1>4, RejectIInv, CallerIInv DEF CallStep
<1>5. ASSUME NEW c \in Call, RefreshStep(c) PROVE IInv'
  BY <1>5, LockAndCheckIInv, ConnectedIInv, ConnectFailedIInv, AnsweredIInv,
     GiveUpIInv, StoreTokensIInv, NotifyIInv DEF RefreshStep
<1>6. CASE Restart
  BY <1>6, RestartIInv
<1>7. CASE UNCHANGED vars
  BY <1>7, StutterIInv
<1> QED
  BY <1>1, <1>2, <1>3, <1>4, <1>5, <1>6, <1>7 DEF Next

LEMMA Invariance == Spec => []IInv
BY InitIInv, NextIInv, PTL DEF Spec

-----------------------------------------------------------------------------
\* The state of the calls, the refresh tasks, the tokens and the wire is always
\* well formed, the retry counter of send_unrepeatable included.
THEOREM TypeCorrect == Spec => []TypeOK
<1>1. IInv => TypeOK
  BY DEF IInv
<1> QED
  BY <1>1, Invariance, PTL

\* refresh_access_token_now never shows the server a spent refresh token unless
\* an earlier refresh was abandoned after it had left.
THEOREM TokenNotReused == Spec => []NoTokenReuse
<1>1. IInv => NoTokenReuse
  BY DEF IInv, SyncInv, NoTokenReuse
<1> QED
  BY <1>1, Invariance, PTL

\* Between refreshes client, application and server hold the same pair, for any
\* number of concurrent, failing and cancelled calls.
THEOREM TokensInSync == Spec => []InSync
<1>1. IInv => InSync
  BY DEF IInv, SyncInv, InSync
<1> QED
  BY <1>1, Invariance, PTL

\* The resend of handle_unauthorized carries a strictly newer access token than
\* the one that was rejected.
THEOREM ResendNewer == Spec => []ResentIsNewer
<1>1. IInv => ResentIsNewer
  BY DEF IInv, TypeOK, Gen, CallInv, GenInv, ResentIsNewer
<1> QED
  BY <1>1, Invariance, PTL

\* However many calls meet the same expired access token, the pair is rotated
\* only while the newest access token is expired.
THEOREM RotationNeedsExpiry == Spec => RotatedOnlyWhenExpired
<1>1. IInv /\ [Next]_vars => [srvGen' # srvGen => expired]_vars
  <2> SUFFICES ASSUME IInv, Next, srvGen' # srvGen PROVE expired
    BY DEF vars
  <2>1. ASSUME NEW m \in wire, ServeRefresh(m) PROVE expired
    BY <2>1 DEF IInv, ExpiryInv, ServeRefresh
  <2>2. ASSUME NEW c \in Call, Send(c) \/ CallStep(c) \/ Cancel(c) \/ RefreshStep(c)
        PROVE  UNCHANGED srvGen
    BY <2>2 DEF Send, CallStep, Cancel, RefreshStep, Accept, Fail, Reject,
       RejectTerminal, ReturnUnauthorized, Joined, LockAndCheck, Connected,
       ConnectFailed, Answered, GiveUp, StoreTokens, Notify, server
  <2>3. Expire \/ Restart => UNCHANGED srvGen
    BY DEF Expire, Restart, server
  <2> QED
    BY <2>1, <2>2, <2>3 DEF Next
<1> QED
  BY <1>1, Invariance, PTL DEF Spec, RotatedOnlyWhenExpired

\* The callback runs under the refresh mutex, so the application's store never
\* goes back to an older pair.
THEOREM PersistedNeverOlder == Spec => PersistedMonotone
<1>1. IInv /\ [Next]_vars => [persisted' >= persisted]_vars
  <2> SUFFICES ASSUME IInv, Next PROVE persisted' >= persisted
    BY DEF vars
  <2>1. persisted \in Nat
    BY DEF IInv, TypeOK, Gen
  <2>2. ASSUME NEW c \in Call, Notify(c) PROVE persisted' >= persisted
    BY <2>2, <2>1 DEF IInv, TypeOK, GenInv, Gen, Notify
  <2>3. ASSUME NEW c \in Call,
               Send(c) \/ CallStep(c) \/ Cancel(c) \/ (RefreshStep(c) /\ ~Notify(c))
        PROVE  UNCHANGED persisted
    BY <2>3 DEF Send, CallStep, Cancel, RefreshStep, Accept, Fail, Reject,
       RejectTerminal, ReturnUnauthorized, Joined, LockAndCheck, Connected,
       ConnectFailed, Answered, GiveUp, StoreTokens
  <2>4. Expire \/ (\E m \in wire : ServeRefresh(m)) \/ Restart => UNCHANGED persisted
    BY DEF Expire, ServeRefresh, Restart, client
  <2> QED
    BY <2>1, <2>2, <2>3, <2>4 DEF Next
<1> QED
  BY <1>1, Invariance, PTL DEF Spec, PersistedMonotone

-----------------------------------------------------------------------------
(* SendRetrying.  A request whose retries leave no doubt has not acted and  *)
(* never will, for as long as the loop goes round.                          *)

\* Retries of the request may follow an attempt that acted.
Doubt == kind = "safe" \/ (kind = "unsafe" /\ (sawTimeout \/ sawStatus))

LoopTypeOK ==
    /\ kind \in Kind
    /\ loop \in {"trying", "success", "rejected", "transient", "failed"}
    /\ turn \in Nat /\ applied \in Nat /\ late \in Nat
    /\ sawTimeout \in BOOLEAN /\ sawStatus \in BOOLEAN

LoopInv ==
    /\ LoopTypeOK
    /\ ~Doubt /\ loop = "trying" => applied + late = 0
    /\ ~Doubt => applied + late <= 1

LEMMA LoopInitInv == LoopInit => LoopInv
<1> SUFFICES ASSUME LoopInit PROVE LoopInv
  OBVIOUS
<1>1. LoopTypeOK
  BY DEF LoopInit, LoopTypeOK, Kind
<1>2. applied + late = 0
  BY DEF LoopInit
<1> QED
  BY <1>1, <1>2 DEF LoopInv

\* Doubt stays, and without it a step either ends the loop, acting at most once, or
\* leaves the number of effects alone.
LoopProgress ==
    /\ LoopTypeOK'
    /\ \/ Doubt'
       \/ /\ ~Doubt /\ loop = "trying" /\ loop' # "trying"
          /\ applied' + late' <= applied + late + 1
       \/ ~Doubt /\ (loop' = "trying" => loop = "trying") /\ applied' + late' = applied + late

LEMMA LoopProgressInv == LoopInv /\ LoopProgress => LoopInv'
<1> SUFFICES ASSUME LoopInv, LoopProgress PROVE LoopInv'
  OBVIOUS
<1>1. CASE Doubt'
  BY <1>1 DEF LoopInv, LoopProgress
<1>2. CASE ~Doubt /\ loop = "trying" /\ loop' # "trying" /\ applied' + late' <= applied + late + 1
  <2>1. applied + late = 0
    BY <1>2 DEF LoopInv
  <2>2. applied' + late' <= 1
    BY <1>2, <2>1
  <2> QED
    BY <1>2, <2>2 DEF LoopInv, LoopProgress
<1>3. CASE ~Doubt /\ (loop' = "trying" => loop = "trying") /\ applied' + late' = applied + late
  BY <1>3 DEF LoopInv, LoopProgress, LoopTypeOK
<1> QED
  BY <1>1, <1>2, <1>3 DEF LoopProgress

LEMMA LoopStepInv == LoopInv /\ [LoopNext]_loopVars => LoopInv'
<1> SUFFICES ASSUME LoopInv, [LoopNext]_loopVars PROVE LoopInv'
  OBVIOUS
<1>a. LoopTypeOK /\ applied \in Nat /\ late \in Nat
  BY DEF LoopInv, LoopTypeOK
<1>b. ASSUME Acts PROVE applied' \in Nat /\ late' \in Nat /\ applied' + late' <= applied + late + 1
  <2>1. late' = late /\ (applied' = applied \/ applied' = applied + 1)
    BY <1>b DEF Acts
  <2>2. CASE applied' = applied
    BY <1>a, <2>1, <2>2
  <2>3. CASE applied' = applied + 1
    BY <1>a, <2>1, <2>3
  <2> QED
    BY <2>1, <2>2, <2>3
<1>0. ASSUME UNCHANGED <<kind, sawTimeout, sawStatus>> PROVE Doubt' <=> Doubt
  BY <1>0, Zenon DEF Doubt
<1>1. CASE Conclusive
  <2>1. applied' + late' <= applied + late + 1 /\ loop = "trying" /\ loop' # "trying" /\ LoopTypeOK'
    BY <1>1, <1>a DEF Conclusive, End, LoopTypeOK, Kind
  <2> QED
    BY <1>0, <1>1, <2>1, LoopProgressInv DEF Conclusive, LoopProgress
<1>2. CASE TransientStatus
  <2>0. sawStatus' \in BOOLEAN /\ sawTimeout' \in BOOLEAN
    BY <1>2, <1>a DEF TransientStatus, LoopTypeOK
  <2>1. applied' + late' <= applied + late + 1 /\ LoopTypeOK' /\ loop = "trying"
    BY <1>2, <1>a, <1>b, <2>0 DEF TransientStatus, Again, End, LoopTypeOK
  <2>2. CASE CanRetry /\ kind # "unrepeatable"
    <3>1. kind' \in {"safe", "unsafe"} /\ sawStatus'
      BY <1>2, <1>a, <2>2 DEF TransientStatus, LoopTypeOK, Kind
    <3>2. Doubt'
      BY <3>1 DEF Doubt
    <3> QED
      BY <2>1, <3>2, LoopProgressInv DEF LoopProgress
  <2>3. CASE ~(CanRetry /\ kind # "unrepeatable")
    <3>1. loop' # "trying" /\ UNCHANGED <<kind, sawTimeout, sawStatus>>
      BY <1>2, <2>3 DEF TransientStatus, End
    <3> QED
      BY <1>0, <2>1, <3>1, LoopProgressInv DEF LoopProgress
  <2> QED
    BY <2>2, <2>3
<1>3. CASE BodyBroken
  <2>1. applied' + late' <= applied + late + 1 /\ LoopTypeOK' /\ loop = "trying"
    BY <1>3, <1>a, <1>b DEF BodyBroken, Again, End, LoopTypeOK, Kind
  <2>2. UNCHANGED <<kind, sawTimeout, sawStatus>> /\ (kind = "safe" \/ loop' # "trying")
    BY <1>3 DEF BodyBroken, End
  <2> QED
    BY <1>0, <2>1, <2>2, LoopProgressInv DEF LoopProgress, Doubt
<1>4. ASSUME NEW e \in {"connect", "timeout", "request"}, SendError(e) PROVE LoopInv'
  <2>0. applied' \in Nat /\ late' \in Nat /\ applied' + late' <= applied + late + 1
    BY <1>4, <1>a, <1>b DEF SendError
  <2>a. sawStatus' \in BOOLEAN /\ sawTimeout' \in BOOLEAN
    BY <1>4, <1>a DEF SendError, LoopTypeOK
  <2>1. applied' + late' <= applied + late + 1 /\ LoopTypeOK' /\ loop = "trying"
    <3>1. /\ kind' = kind /\ loop = "trying"
          /\ \/ turn' = turn + 1 /\ loop' = loop
             \/ turn' = turn /\ loop' = "failed"
      BY <1>4 DEF SendError, Again, End
    <3>2. turn \in Nat /\ kind \in Kind
      BY <1>a DEF LoopTypeOK
    <3>3. turn' \in Nat
      BY <3>1, <3>2
    <3>4. loop' \in {"trying", "failed"}
      BY <3>1
    <3> QED
      BY <2>0, <2>a, <3>1, <3>2, <3>3, <3>4, Zenon DEF LoopTypeOK
  <2>2. CASE ~(CanRetry /\ Retryable(e))
    <3>1. loop' # "trying" /\ UNCHANGED <<kind, sawTimeout, sawStatus>>
      BY <1>4, <2>2 DEF SendError, End
    <3> QED
      BY <1>0, <2>1, <3>1, LoopProgressInv DEF LoopProgress
  <2>3. CASE CanRetry /\ Retryable(e) /\ e = "connect"
    <3>1. applied' + late' = applied + late
      BY <1>4, <2>3 DEF SendError
    <3>2. UNCHANGED <<kind, sawStatus>> /\ sawTimeout' = sawTimeout
      BY <1>4, <1>a, <2>3 DEF SendError, LoopTypeOK
    <3> QED
      BY <1>0, <2>1, <3>1, <3>2, LoopProgressInv DEF LoopProgress
  <2>4. CASE CanRetry /\ Retryable(e) /\ e # "connect"
    <3>1. kind' = "safe" \/ (kind' = "unsafe" /\ sawTimeout')
      BY <1>4, <1>a, <2>4 DEF SendError, Retryable, LoopTypeOK, Kind
    <3> QED
      BY <2>1, <3>1, LoopProgressInv DEF LoopProgress, Doubt
  <2> QED
    BY <2>2, <2>3, <2>4
<1>5. CASE LateArrival
  <2>1. applied' + late' = applied + late /\ LoopTypeOK' /\ loop' = loop
    BY <1>5, <1>a DEF LateArrival, LoopTypeOK, Kind
  <2> QED
    BY <1>0, <1>5, <2>1, LoopProgressInv DEF LateArrival, LoopProgress
<1>6. CASE UNCHANGED loopVars
  BY <1>6 DEF loopVars, Doubt, LoopInv, LoopTypeOK
<1> QED
  BY <1>1, <1>2, <1>3, <1>4, <1>5, <1>6 DEF LoopNext

\* send_retrying and send_unrepeatable repeat a write that may have acted only after
\* a timeout or a retryable status, and a single-use one never, for any max_retries.
THEOREM RepeatsOnlyInDoubt == LoopInit /\ [][LoopNext]_loopVars => []ActsAgainOnlyInDoubt
<1>1. LoopInv => ActsAgainOnlyInDoubt
  BY DEF LoopInv, LoopTypeOK, Doubt, ActsAgainOnlyInDoubt
<1> QED
  BY <1>1, LoopInitInv, LoopStepInv, PTL

-----------------------------------------------------------------------------
(* Login.  What the application holds, and what it has saved, tell the      *)
(* truth about the session they name.                                       *)

SessionRecord == [id : Nat, scopes : {"none", "limited", "full", "ended"}, waiting : BOOLEAN,
                  methods : 0 .. 3]

LoginTypeOK ==
    /\ factors \in 0 .. 3
    /\ granted \in Seq({"limited", "full", "ended"})
    /\ session \in SessionRecord /\ saved \in SessionRecord

\* A restricted session is known to wait, and only an unrestricted one, or one that
\* has ended since, is taken for full.
Honest(s) ==
    s # NoSession =>
        /\ s.id \in 1 .. Len(granted)
        /\ granted[s.id] = "limited" => s.waiting
        /\ s.scopes = "full" => granted[s.id] # "limited"

LoginInv == LoginTypeOK /\ Honest(session) /\ Honest(saved)

LEMMA LoginInitInv == LoginInit => LoginInv
BY DEF LoginInit, LoginInv, LoginTypeOK, SessionRecord, Honest, NoSession

LEMMA LoginStepInv == LoginInv /\ [LoginNext]_loginVars => LoginInv'
<1> SUFFICES ASSUME LoginInv, [LoginNext]_loginVars PROVE LoginInv'
  OBVIOUS
<1> USE DEF LoginInv, LoginTypeOK, SessionRecord, Honest, NoSession
<1>1. ASSUME NEW verified \in BOOLEAN, BeginLogin(verified) PROVE LoginInv'
  BY <1>1 DEF BeginLogin
<1>2. CASE InitiateSession
  BY <1>2 DEF InitiateSession
<1>3. CASE Authenticate
  <2>1. UNCHANGED <<factors, saved>>
    BY <1>3 DEF Authenticate
  <2>2. CASE UNCHANGED <<granted, session>>
    BY <2>1, <2>2
  <2>3. CASE granted' = Append(granted, Scopes)
    <3>1. Scopes \in {"limited", "full"}
      BY DEF Scopes
    <3>2. /\ granted' \in Seq({"limited", "full", "ended"}) /\ Len(granted') = Len(granted) + 1
          /\ \A i \in 1 .. Len(granted) : granted'[i] = granted[i]
          /\ granted'[Len(granted) + 1] = Scopes
      BY <2>3, <3>1
    <3>3. Honest(saved)' /\ (UNCHANGED session => Honest(session)')
      BY <2>1, <3>2
    <3>4. CASE UNCHANGED session
      BY <2>1, <3>2, <3>3, <3>4
    <3>5. CASE session' = [id |-> Len(granted) + 1, scopes |-> Scopes,
                           waiting |-> WaitsFor(factors), methods |-> factors]
      <4>0. WaitsFor(factors) \in BOOLEAN /\ (WaitsFor(factors) <=> factors # 0)
        BY DEF WaitsFor
      <4>1. session'.id = Len(granted) + 1 /\ session'.scopes = Scopes
            /\ session'.waiting = WaitsFor(factors) /\ session' \in SessionRecord
        BY <3>1, <3>5, <4>0
      <4>2. Scopes = "limited" <=> factors # 0
        BY DEF Scopes
      <4> QED
        BY <2>1, <3>2, <3>3, <4>0, <4>1, <4>2
    <3> QED
      BY <1>3, <2>3, <3>4, <3>5 DEF Authenticate
  <2> QED
    BY <1>3, <2>2, <2>3 DEF Authenticate
<1>4. CASE ApplySecondFactorCode
  <2>1. CASE UNCHANGED <<granted, session>>
    BY <1>4, <2>1 DEF ApplySecondFactorCode
  <2>2. CASE /\ session # NoSession /\ granted' = [granted EXCEPT ![session.id] = "full"]
             /\ \/ session' = [session EXCEPT !.waiting = FALSE, !.scopes = "full"]
                \/ UNCHANGED session
    <3>1. saved' = saved /\ factors' = factors
      BY <1>4 DEF ApplySecondFactorCode
    <3>2. /\ granted' \in Seq({"limited", "full", "ended"}) /\ Len(granted') = Len(granted)
          /\ \A i \in 1 .. Len(granted) :
                granted'[i] = IF i = session.id THEN "full" ELSE granted[i]
      BY <2>2
    <3>3. session' \in SessionRecord /\ session'.id = session.id
      BY <2>2
    <3>4. Honest(saved)'
      BY <3>1, <3>2
    <3>5. Honest(session)'
      BY <2>2, <3>2, <3>3
    <3> QED
      BY <3>1, <3>2, <3>3, <3>4, <3>5
  <2> QED
    BY <1>4, <2>1, <2>2, Zenon DEF ApplySecondFactorCode
<1>5. CASE RefreshScopes
  BY <1>5 DEF RefreshScopes
<1>6. CASE EndSession
  BY <1>6 DEF EndSession
<1>7. CASE SaveSession
  BY <1>7 DEF SaveSession
<1>8. CASE ResumeSession
  BY <1>8 DEF ResumeSession
<1>9. CASE ChangeFactors
  BY <1>9 DEF ChangeFactors
<1>10. CASE UNCHANGED loginVars
  BY <1>10 DEF loginVars
<1> QED
  BY <1>1, <1>2, <1>3, <1>4, <1>5, <1>6, <1>7, <1>8, <1>9, <1>10 DEF LoginNext

\* A session that the server still restricts says that it waits for a second factor,
\* and none claims scopes it has not got, through any number of logins, lost answers,
\* refreshed scopes and resumes from what was saved.
THEOREM WaitingTold == LoginSpec => []WaitingIsKnown
<1>1. LoginInv => WaitingIsKnown
  BY DEF LoginInv, LoginTypeOK, Honest, WaitingIsKnown
<1> QED
  BY <1>1, LoginInitInv, LoginStepInv, PTL DEF LoginSpec

-----------------------------------------------------------------------------
\* HttpClient implements its parts: every one of its behaviours is one of the calls
\* that share a token pair, one of the retry loop and one of the login.
THEOREM HttpImplementsParts == HttpSpec => Spec /\ (LoopInit /\ [][LoopNext]_loopVars) /\ LoginSpec
<1>1. HttpInit => Init /\ LoopInit /\ LoginInit
  BY DEF HttpInit
<1>2. [HttpNext]_httpVars => [Next]_vars /\ [LoopNext]_loopVars /\ [LoginNext]_loginVars
  BY DEF HttpNext, httpVars
<1> QED
  BY <1>1, <1>2, PTL DEF HttpSpec, Spec, LoginSpec
=============================================================================
