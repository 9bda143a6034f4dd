----------------------------- MODULE HttpClient -----------------------------
(***************************************************************************)
(* Sessions and their HTTP layer (proton-sdk/src/session.rs, http.rs): the *)
(* login, the calls that share one token pair, and the retry loop that     *)
(* carries each of their requests.                                         *)
(*                                                                         *)
(* The parts have no variable in common.  A call sees of the loop only how *)
(* it ended (TokenRefresh: Accept, Fail and the 401s), and a login ends    *)
(* before the first call that has its tokens.  Each is explored while the  *)
(* others rest.                                                            *)
(***************************************************************************)
EXTENDS TokenRefresh, SendRetrying, Login

VARIABLE moving      \* the part that is explored

httpVars == <<vars, loopVars, loginVars, moving>>

HttpInit ==
    /\ moving \in {"calls", "loop", "login"}
    /\ moving = "login" \/ (factors = 0 /\ gate = "none")
    /\ Init /\ LoopInit /\ LoginInit
    /\ moving # "loop" => kind = "safe"

HttpNext ==
    \/ moving = "calls" /\ Next /\ UNCHANGED <<loopVars, loginVars, moving>>
    \/ moving = "loop" /\ LoopNext /\ UNCHANGED <<vars, loginVars, moving>>
    \/ moving = "login" /\ LoginNext /\ UNCHANGED <<vars, loopVars, moving>>

HttpSpec == HttpInit /\ [][HttpNext]_httpVars /\ Fairness

\* Whatever happens to refreshes and to the callers that began them, every call
\* returns, and the application's store catches up with every rotation.
CallsServed == EveryCallReturns /\ RotationPersisted
=============================================================================
