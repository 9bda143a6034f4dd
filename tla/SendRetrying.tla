---------------------------- MODULE SendRetrying ----------------------------
(***************************************************************************)
(* The retry loops under every request (proton-sdk/src/http.rs,            *)
(* send_retrying and send_unrepeatable), for one request.                  *)
(*                                                                         *)
(* A step is one iteration of the loop: the attempt, its outcome, and the  *)
(* decision to return, to fail or to sleep and go round again.  What the   *)
(* server did with an attempt is independent of what the client sees of    *)
(* it: an attempt whose answer was lost may have been applied, may still   *)
(* be travelling and be applied later, or may be lost.  Only a failure to  *)
(* connect proves that the request never left.                             *)
(***************************************************************************)
EXTENDS Integers

CONSTANT LoopRetries   \* RetryPolicy::max_retries

ASSUME LoopAssumption == LoopRetries \in Nat

VARIABLES
    kind,        \* Replay::Safe, Replay::Unsafe, or sent by send_unrepeatable
    loop,        \* "trying", or how the loop ended
    turn,        \* the loop counter
    applied,     \* server: how often it acted on the request
    late,        \* attempts given up by the client that may still arrive
    sawTimeout,  \* history: a retry followed a timeout
    sawStatus    \* history: a retry followed a retryable status

loopVars == <<kind, loop, turn, applied, late, sawTimeout, sawStatus>>

Kind == {"safe", "unsafe", "unrepeatable"}

LoopInit ==
    /\ kind \in Kind
    /\ loop = "trying"
    /\ turn = 0 /\ applied = 0 /\ late = 0
    /\ sawTimeout = FALSE /\ sawStatus = FALSE

-----------------------------------------------------------------------------
(* The policy.                                                             *)

\* Mutant of Retryable: the kind of the request does not matter.
RetryableForAll(e) == e \in {"timeout", "connect", "request"}

\* is_retryable_error; send_unrepeatable looks at is_connect alone.
Retryable(e) ==
    \/ e = "connect"
    \/ e = "timeout" /\ kind # "unrepeatable"
    \/ kind = "safe" /\ e = "request"

CanRetry == turn < LoopRetries

\* Sleep for the server's Retry-After or the backoff, both capped, and go round.
Again == turn' = turn + 1 /\ UNCHANGED loop

End(how) == loop' = how /\ UNCHANGED turn

\* What the server does with an attempt that reached it.
Acts == applied' \in {applied, applied + 1} /\ UNCHANGED late

-----------------------------------------------------------------------------
(* One iteration, by the outcome of the attempt.                           *)

\* A conclusive answer with a readable body.
Conclusive ==
    /\ loop = "trying"
    /\ \/ End("success") /\ applied' = applied + 1
       \/ End("rejected") /\ UNCHANGED applied
    /\ UNCHANGED <<kind, late, sawTimeout, sawStatus>>

\* A 408, 429, 502, 503 or 504, from the server or from something in front of
\* it: retried while the policy lasts, then handed to the caller.
TransientStatus ==
    /\ loop = "trying"
    /\ Acts
    /\ IF CanRetry /\ kind # "unrepeatable"
       THEN Again /\ sawStatus' = TRUE
       ELSE End("transient") /\ UNCHANGED sawStatus
    /\ UNCHANGED <<kind, sawTimeout>>

\* The answer began and its body broke off: the server may have acted, so only
\* a read is tried again.
BodyBroken ==
    /\ loop = "trying"
    /\ Acts
    /\ IF CanRetry /\ kind = "safe"
       THEN Again
       ELSE End("failed")
    /\ UNCHANGED <<kind, sawTimeout, sawStatus>>

\* The send itself failed with e.  A request that left may have been applied,
\* may still be on its way, or may be lost.
SendError(e) ==
    /\ loop = "trying"
    /\ IF e = "connect"
       THEN UNCHANGED <<applied, late>>
       ELSE Acts \/ (late' = late + 1 /\ UNCHANGED applied)
    /\ IF CanRetry /\ Retryable(e)
       THEN Again /\ sawTimeout' = (sawTimeout \/ e = "timeout")
       ELSE End("failed") /\ UNCHANGED sawTimeout
    /\ UNCHANGED <<kind, sawStatus>>

\* An attempt the client gave up on reaches the server after all.
LateArrival ==
    /\ late > 0
    /\ late' = late - 1
    /\ applied' = applied + 1
    /\ UNCHANGED <<kind, loop, turn, sawTimeout, sawStatus>>

LoopNext ==
    \/ Conclusive \/ TransientStatus \/ BodyBroken
    \/ \E e \in {"connect", "timeout", "request"} : SendError(e)
    \/ LateArrival

-----------------------------------------------------------------------------
(* Properties.                                                             *)

\* A request acts more often than once, now or later, only if it is a write that
\* got an answer which left open whether it had acted: a timeout or a retryable
\* status, never a dropped connection or a broken body.  A request sent by
\* send_unrepeatable never does, as a single-use refresh token needs.
ActsAgainOnlyInDoubt ==
    applied + late > 1 => \/ kind = "safe"
                          \/ kind = "unsafe" /\ (sawTimeout \/ sawStatus)
=============================================================================
