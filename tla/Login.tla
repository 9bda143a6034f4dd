------------------------------- MODULE Login -------------------------------
(***************************************************************************)
(* From a password to a session (proton-sdk/src/session.rs): the SRP       *)
(* exchange with its human-verification gate, the second factor, the       *)
(* scopes, and a session resumed from what the application saved of it.    *)
(*                                                                         *)
(* An SRP exchange is known by its number, which only its own proofs and   *)
(* its own srp_session fit.  The answer of a request may be lost after the *)
(* server acted.  The server's side is external.                           *)
(***************************************************************************)
EXTENDS Integers, Sequences

CONSTANTS MaxLogins, MaxLost

ASSUME LoginAssumption == MaxLogins \in Nat /\ MaxLost \in Nat

VARIABLES
    factors,      \* server: the account's second factors, Proton's bitmask
    gate,         \* server: which route asks for human verification
    handshake,    \* server: the open SRP exchange, 0 for none
    granted,      \* server: the scopes of the sessions it has made, or "ended"
    login,        \* the login under way
    session,      \* the ProtonApiSession the application holds
    saved,        \* the ResumeParameters it has kept
    logins, lost

loginVars == <<factors, gate, handshake, granted, login, session, saved, logins, lost>>

NoSession == [id |-> 0, scopes |-> "none", waiting |-> FALSE, methods |-> 0]
NoLogin == [at |-> "idle", srp |-> 0, verified |-> FALSE]

LoginInit ==
    /\ factors \in 0 .. 3 /\ gate \in {"none", "info", "auth"} /\ handshake = 0
    /\ granted = <<>>
    /\ login = NoLogin /\ session = NoSession /\ saved = NoSession
    /\ logins = 0 /\ lost = 0

LoginFails == login' = [NoLogin EXCEPT !.at = "failed"]
Gated(route) == gate = route /\ ~login.verified
Unlost == UNCHANGED lost
Lose == lost < MaxLost /\ lost' = lost + 1

\* begin, and begin_verified with a solved challenge: every login starts afresh.
BeginLogin(verified) ==
    /\ login.at \in {"idle", "failed"} /\ session = NoSession /\ logins < MaxLogins
    /\ logins' = logins + 1
    /\ login' = [at |-> "info", srp |-> 0, verified |-> verified]
    /\ UNCHANGED <<factors, gate, handshake, granted, session, saved, lost>>

\* POST auth/v4/info.
InitiateSession ==
    /\ login.at = "info"
    /\ \/ Gated("info") /\ LoginFails /\ UNCHANGED <<handshake, lost>>
       \/ ~Gated("info") /\ handshake' = logins /\ Unlost
          /\ login' = [login EXCEPT !.at = "auth", !.srp = logins]
       \/ Lose /\ handshake' \in {handshake, logins} /\ LoginFails
    /\ UNCHANGED <<factors, gate, granted, session, saved, logins>>

Scopes == IF factors = 0 THEN "full" ELSE "limited"

\* Whether the new session waits for a second factor.
WaitsForTotp(enabled) == enabled % 2 = 1
WaitsFor(enabled) == enabled # 0

\* POST auth/v4, and the check of the server's proof: refused (a wrong password, a
\* spent exchange, the gate), answered, answered with a proof that does not fit, or
\* answered in vain.  The exchange is spent in every case.
Authenticate ==
    /\ login.at = "auth" /\ handshake' = 0
    /\ \/ /\ LoginFails /\ UNCHANGED <<granted, session, lost>>
       \/ /\ handshake = login.srp /\ ~Gated("auth")
          /\ granted' = Append(granted, Scopes)
          /\ \/ /\ login' = NoLogin /\ Unlost
                /\ session' = [id |-> Len(granted) + 1, scopes |-> Scopes, waiting |-> WaitsFor(factors),
                               methods |-> factors]
             \/ LoginFails /\ UNCHANGED session /\ Lose
    /\ UNCHANGED <<factors, gate, saved, logins>>

\* apply_second_factor_code: a wrong code is refused, a right one (an authenticator
\* app's) lifts the session, and either answer may be lost.  The code is refused for
\* a session that waits no longer.
ApplySecondFactorCode ==
    /\ session # NoSession
    /\ LET lifts == granted[session.id] = "limited" /\ factors % 2 = 1
       IN  \/ /\ lifts /\ granted' = [granted EXCEPT ![session.id] = "full"]
              /\ \/ session' = [session EXCEPT !.waiting = FALSE, !.scopes = "full"] /\ Unlost
                 \/ UNCHANGED session /\ Lose
           \/ UNCHANGED <<granted, session, lost>>
    /\ UNCHANGED <<factors, gate, handshake, login, saved, logins>>

\* refresh_scopes: the scopes are adopted; the waiting flag is not touched.
RefreshScopes ==
    /\ session # NoSession /\ granted[session.id] # "ended"
    /\ session' = [session EXCEPT !.scopes = granted[session.id]]
    /\ UNCHANGED <<factors, gate, handshake, granted, login, saved, logins, lost>>

\* end: the server forgets the session; the object stays.
EndSession ==
    /\ session # NoSession
    /\ granted' = [granted EXCEPT ![session.id] = "ended"]
    /\ UNCHANGED <<factors, gate, handshake, login, session, saved, logins, lost>>

\* The application keeps the session's parameters, and later starts from them: the
\* login's second factors are not among them.
SaveSession ==
    /\ session # NoSession /\ saved' = [session EXCEPT !.methods = 0]
    /\ UNCHANGED <<factors, gate, handshake, granted, login, session, logins, lost>>

ResumeSession ==
    /\ login.at = "idle" \/ login.at = "failed"
    /\ session' = saved /\ login' = NoLogin
    /\ UNCHANGED <<factors, gate, handshake, granted, saved, logins, lost>>

\* The account's owner turns a second factor on or off, in another client.
ChangeFactors ==
    /\ factors' \in 0 .. 3 \ {factors}
    /\ UNCHANGED <<gate, handshake, granted, login, session, saved, logins, lost>>

LoginNext ==
    \/ \E verified \in BOOLEAN : BeginLogin(verified)
    \/ InitiateSession \/ Authenticate \/ ApplySecondFactorCode \/ RefreshScopes \/ EndSession
    \/ SaveSession \/ ResumeSession \/ ChangeFactors

LoginSpec == LoginInit /\ [][LoginNext]_loginVars

\* "The caller must complete 2FA before authorized scopes are granted": a session the
\* server still restricts says that it is waiting, and one that claims the full
\* scopes has them, after lost answers, refreshed scopes and a resume from parameters
\* saved before or after the second factor.
WaitingIsKnown ==
    session # NoSession /\ granted[session.id] # "ended" =>
        /\ granted[session.id] = "limited" => session.waiting
        /\ session.scopes = "full" => granted[session.id] = "full"
=============================================================================
