---------------------------- MODULE TokenRefresh ----------------------------
(***************************************************************************)
(* Authenticated API calls and the token refresh they share                *)
(* (proton-sdk/src/http.rs, ApiHttpClient; session.rs, resume).            *)
(*                                                                         *)
(* Every call reads the current tokens without a lock, sends its request   *)
(* and, when the server answers 401, spawns a refresh task.  Tasks are     *)
(* serialised by one async mutex, re-read the tokens once they hold it and *)
(* spend the refresh token only when nobody replaced it meanwhile.  The    *)
(* caller may be dropped while its task runs on; the process may stop and  *)
(* resume later from the tokens the callback last received.                *)
(*                                                                         *)
(* A token pair is abstracted to its generation: the server starts at      *)
(* generation 1 and a refresh that presents refresh token g answers with   *)
(* the pair of generation g + 1 and spends g.  The server is external: an  *)
(* access token is accepted exactly while it belongs to the newest         *)
(* generation and has not expired.                                         *)
(***************************************************************************)
EXTENDS Integers

CONSTANTS
    Call,        \* the calls of ApiHttpClient::send; a call has at most one refresh task
    Refreshing,  \* the calls made through a client whose refresh_tokens is TRUE
    MaxRetries,  \* RetryPolicy::max_retries
    MaxGen,      \* bound: the access token expires only below this generation
    NoCall       \* the refresh mutex is free

ASSUME CallAssumption == NoCall \notin Call /\ Refreshing \subseteq Call
ASSUME BoundAssumption == MaxRetries \in Nat /\ MaxGen \in Nat \ {0}

VARIABLES
    pc,          \* pc[c]: where the caller of c stands
    tok,         \* tok[c]: generation of the access token c was first sent with
    got,         \* got[c]: generation the refresh task of c returned, 0 before that
    task,        \* task[c]: where the refresh task spawned by c stands
    attempt,     \* attempt[c]: connection failures send_unrepeatable has absorbed
    refresh,     \* Inner::refresh, the async mutex: its holder or NoCall
    tokens,      \* Inner::tokens
    persisted,   \* what on_tokens_refreshed last handed to the application
    wire,        \* refresh requests and answers on the network
    srvGen,      \* server: the newest generation it issued
    expired,     \* server: the access token of srvGen is no longer accepted
    abandoned,   \* history: the client stopped waiting for a refresh that had left
    reused       \* history: the server was shown a refresh token already spent

client == <<pc, tok, got, task, attempt, refresh, tokens, persisted>>
server == <<srvGen, expired, reused>>
vars == <<pc, tok, got, task, attempt, refresh, tokens, persisted, wire,
          srvGen, expired, abandoned, reused>>

Active == {"sent", "waiting", "resent"}
Final == {"ok", "failed", "dropped"}
Holding == {"connect", "awaiting", "store", "notify"}
Gen == Nat
Message == [of : Call, kind : {"ask", "new", "refused"}, gen : Gen]

TypeOK ==
    /\ pc \in [Call -> {"idle"} \cup Active \cup Final]
    /\ tok \in [Call -> Gen]
    /\ got \in [Call -> Gen]
    /\ task \in [Call -> {"none", "lock", "done", "error"} \cup Holding]
    /\ attempt \in [Call -> 0 .. MaxRetries]
    /\ refresh \in Call \cup {NoCall}
    /\ tokens \in Gen
    /\ persisted \in Gen
    /\ wire \subseteq Message
    /\ srvGen \in Gen
    /\ expired \in BOOLEAN
    /\ abandoned \in BOOLEAN
    /\ reused \in BOOLEAN

Init ==
    /\ pc = [c \in Call |-> "idle"]
    /\ tok = [c \in Call |-> 0]
    /\ got = [c \in Call |-> 0]
    /\ task = [c \in Call |-> "none"]
    /\ attempt = [c \in Call |-> 0]
    /\ refresh = NoCall
    /\ tokens = 1
    /\ persisted = 1
    /\ wire = {}
    /\ srvGen = 1
    /\ expired = FALSE
    /\ abandoned = FALSE
    /\ reused = FALSE

-----------------------------------------------------------------------------
(* The server, as the client sees it.                                      *)

Accepted(g) == g = srvGen /\ ~expired

\* The access token of the newest generation stops being accepted.
Expire ==
    /\ ~expired /\ srvGen < MaxGen
    /\ expired' = TRUE
    /\ UNCHANGED <<client, wire, srvGen, abandoned, reused>>

\* auth/v4/refresh: an unspent refresh token is spent and a new pair issued,
\* a spent one is refused.  It runs whether or not the client still waits.
ServeRefresh(m) ==
    /\ m.kind = "ask"
    /\ IF m.gen = srvGen
       THEN /\ srvGen' = srvGen + 1
            /\ expired' = FALSE
            /\ wire' = (wire \ {m}) \cup {[of |-> m.of, kind |-> "new", gen |-> srvGen + 1]}
            /\ UNCHANGED reused
       ELSE /\ wire' = (wire \ {m}) \cup {[of |-> m.of, kind |-> "refused", gen |-> m.gen]}
            /\ reused' = TRUE
            /\ UNCHANGED <<srvGen, expired>>
    /\ UNCHANGED <<client, abandoned>>

-----------------------------------------------------------------------------
(* The calls.                                                              *)

Goto(c, label) == pc' = [pc EXCEPT ![c] = label]

\* send: snapshot the access token and put the request on the wire.
Send(c) ==
    /\ pc[c] = "idle"
    /\ Goto(c, "sent")
    /\ tok' = [tok EXCEPT ![c] = tokens]
    /\ UNCHANGED <<got, task, attempt, refresh, tokens, persisted, wire, server, abandoned>>

\* The response is not a 401: it is parsed and returned.
Accept(c) ==
    /\ \/ pc[c] = "sent" /\ Accepted(tok[c])
       \/ pc[c] = "resent" /\ Accepted(got[c])
    /\ Goto(c, "ok")
    /\ UNCHANGED <<tok, got, task, attempt, refresh, tokens, persisted, wire, server, abandoned>>

\* The transport failed past send_retrying, or another error status came back.
Fail(c) ==
    /\ pc[c] \in {"sent", "resent"}
    /\ Goto(c, "failed")
    /\ UNCHANGED <<tok, got, task, attempt, refresh, tokens, persisted, wire, server, abandoned>>

\* handle_unauthorized: a 401 for the first send spawns a refresh task ...
Reject(c) ==
    /\ pc[c] = "sent" /\ ~Accepted(tok[c])
    /\ c \in Refreshing
    /\ Goto(c, "waiting")
    /\ task' = [task EXCEPT ![c] = "lock"]
    /\ UNCHANGED <<tok, got, attempt, refresh, tokens, persisted, wire, server, abandoned>>

\* ... unless it reports a deleted or disabled account, which is returned.
RejectTerminal(c) ==
    /\ pc[c] = "sent" /\ ~Accepted(tok[c])
    /\ c \in Refreshing
    /\ Goto(c, "failed")
    /\ UNCHANGED <<tok, got, task, attempt, refresh, tokens, persisted, wire, server, abandoned>>

\* A 401 is handed to the caller when the client does not refresh at all, and
\* when it answers the one resend.
ReturnUnauthorized(c) ==
    /\ \/ pc[c] = "sent" /\ ~Accepted(tok[c]) /\ c \notin Refreshing
       \/ pc[c] = "resent" /\ ~Accepted(got[c])
    /\ Goto(c, "failed")
    /\ UNCHANGED <<tok, got, task, attempt, refresh, tokens, persisted, wire, server, abandoned>>

\* Mutant of Joined: a failed refresh is ignored and the request sent again.
JoinedIgnoresError(c) ==
    /\ pc[c] = "waiting"
    /\ task[c] \in {"done", "error"}
    /\ Goto(c, "resent")
    /\ UNCHANGED <<tok, got, task, attempt, refresh, tokens, persisted, wire, server, abandoned>>

\* The refresh task ended: resend with its token, or return its error.
Joined(c) ==
    /\ pc[c] = "waiting"
    /\ \/ task[c] = "done" /\ Goto(c, "resent")
       \/ task[c] = "error" /\ Goto(c, "failed")
    /\ UNCHANGED <<tok, got, task, attempt, refresh, tokens, persisted, wire, server, abandoned>>

\* Mutant of Cancel: the refresh is awaited in place instead of being spawned,
\* so dropping the caller drops the refresh and its lock guard with it.
CancelDropsRefresh(c) ==
    /\ pc[c] \in Active
    /\ Goto(c, "dropped")
    /\ task' = [task EXCEPT ![c] = IF @ = "none" THEN @ ELSE "error"]
    /\ refresh' = IF refresh = c THEN NoCall ELSE refresh
    /\ UNCHANGED <<tok, got, attempt, tokens, persisted, wire, server, abandoned>>

\* The caller's future is dropped (a timeout around the call).  The spawned
\* task is not: it goes on without anyone to join it.
Cancel(c) ==
    /\ pc[c] \in Active
    /\ Goto(c, "dropped")
    /\ UNCHANGED <<tok, got, task, attempt, refresh, tokens, persisted, wire, server, abandoned>>

-----------------------------------------------------------------------------
(* The refresh task of call c.                                             *)

Step(c, label) == task' = [task EXCEPT ![c] = label]

\* Mutant of LockAndCheck: the tokens are not compared again under the lock.
LockWithoutCheck(c) ==
    /\ task[c] = "lock" /\ refresh = NoCall
    /\ refresh' = c
    /\ Step(c, "connect")
    /\ UNCHANGED <<pc, tok, got, attempt, tokens, persisted, wire, server, abandoned>>

\* refresh_access_token_now up to its network call: take the mutex, re-read
\* the tokens, and return at once when they are not the rejected ones any more.
LockAndCheck(c) ==
    /\ task[c] = "lock" /\ refresh = NoCall
    /\ IF tokens # tok[c]
       THEN /\ got' = [got EXCEPT ![c] = tokens]
            /\ Step(c, "done")
            /\ UNCHANGED refresh
       ELSE /\ refresh' = c
            /\ Step(c, "connect")
            /\ UNCHANGED got
    /\ UNCHANGED <<pc, tok, attempt, tokens, persisted, wire, server, abandoned>>

Ask(c) == [of |-> c, kind |-> "ask", gen |-> tokens]

\* request_refresh: the connection is made and the request leaves.
Connected(c) ==
    /\ task[c] = "connect"
    /\ wire' = wire \cup {Ask(c)}
    /\ Step(c, "awaiting")
    /\ UNCHANGED <<pc, tok, got, attempt, refresh, tokens, persisted, server, abandoned>>

\* send_unrepeatable: a failure to connect is retried while the policy lasts.
ConnectFailed(c) ==
    /\ task[c] = "connect"
    /\ IF attempt[c] < MaxRetries
       THEN /\ attempt' = [attempt EXCEPT ![c] = @ + 1]
            /\ UNCHANGED <<task, refresh>>
       ELSE /\ Step(c, "error")
            /\ refresh' = NoCall
            /\ UNCHANGED attempt
    /\ UNCHANGED <<pc, tok, got, tokens, persisted, wire, server, abandoned>>

\* Mutant of GiveUp: a timeout is retried like a failure to connect.
GiveUpRetries(c) ==
    /\ task[c] = "awaiting"
    /\ IF attempt[c] < MaxRetries
       THEN /\ attempt' = [attempt EXCEPT ![c] = @ + 1]
            /\ Step(c, "connect")
            /\ UNCHANGED <<refresh, abandoned>>
       ELSE /\ Step(c, "error")
            /\ refresh' = NoCall
            /\ abandoned' = TRUE
            /\ UNCHANGED attempt
    /\ UNCHANGED <<pc, tok, got, tokens, persisted, wire, server>>

\* Mutant of GiveUp: the mutex stays taken on the error path.
GiveUpKeepsLock(c) ==
    /\ task[c] = "awaiting"
    /\ Step(c, "error")
    /\ abandoned' = TRUE
    /\ UNCHANGED <<pc, tok, got, attempt, refresh, tokens, persisted, wire, server>>

\* Anything else that keeps the answer from being read - a timeout, a broken
\* connection, a 5xx, an unreadable body - ends the task with an error, while
\* the request may still reach the server.
GiveUp(c) ==
    /\ task[c] = "awaiting"
    /\ Step(c, "error")
    /\ refresh' = NoCall
    /\ abandoned' = TRUE
    /\ UNCHANGED <<pc, tok, got, attempt, tokens, persisted, wire, server>>

\* The answer arrives: a new pair, or InvalidRefreshToken.
Answered(c) ==
    /\ task[c] = "awaiting"
    /\ \E m \in wire :
          /\ m.of = c
          /\ wire' = wire \ {m}
          /\ \/ /\ m.kind = "new"
                /\ got' = [got EXCEPT ![c] = m.gen]
                /\ Step(c, "store")
                /\ UNCHANGED refresh
             \/ /\ m.kind = "refused"
                /\ Step(c, "error")
                /\ refresh' = NoCall
                /\ UNCHANGED got
    /\ UNCHANGED <<pc, tok, attempt, tokens, persisted, server, abandoned>>

\* Mutant of StoreTokens: the lock is given up before the callback runs.
StoreAndUnlock(c) ==
    /\ task[c] = "store"
    /\ tokens' = got[c]
    /\ refresh' = NoCall
    /\ Step(c, "notify")
    /\ UNCHANGED <<pc, tok, got, attempt, persisted, wire, server, abandoned>>

\* The new pair replaces Inner::tokens; every later call sends it.
StoreTokens(c) ==
    /\ task[c] = "store"
    /\ tokens' = got[c]
    /\ Step(c, "notify")
    /\ UNCHANGED <<pc, tok, got, attempt, refresh, persisted, wire, server, abandoned>>

\* The callback receives the pair and the guard is dropped.
Notify(c) ==
    /\ task[c] = "notify"
    /\ persisted' = got[c]
    /\ Step(c, "done")
    /\ refresh' = NoCall
    /\ UNCHANGED <<pc, tok, got, attempt, tokens, wire, server, abandoned>>

-----------------------------------------------------------------------------
\* The process stops - every call and task in it is gone - and the session is
\* resumed from what the application persisted.
Restart ==
    /\ \E c \in Call : pc[c] \in Active \/ task[c] \in {"lock"} \cup Holding
    /\ pc' = [c \in Call |-> IF pc[c] \in Active THEN "dropped" ELSE pc[c]]
    /\ task' = [c \in Call |-> IF task[c] \in {"lock"} \cup Holding THEN "error" ELSE task[c]]
    /\ refresh' = NoCall
    /\ tokens' = persisted
    /\ abandoned' = (abandoned \/ \E c \in Call : task[c] \in {"awaiting", "store", "notify"})
    /\ UNCHANGED <<tok, got, attempt, persisted, wire, server>>

RefreshStep(c) ==
    \/ LockAndCheck(c) \/ Connected(c) \/ ConnectFailed(c)
    \/ Answered(c) \/ GiveUp(c) \/ StoreTokens(c) \/ Notify(c)

CallStep(c) ==
    \/ Accept(c) \/ Fail(c) \/ Reject(c) \/ RejectTerminal(c)
    \/ ReturnUnauthorized(c) \/ Joined(c)

Next ==
    \/ Expire
    \/ \E m \in wire : ServeRefresh(m)
    \/ \E c \in Call : Send(c) \/ CallStep(c) \/ Cancel(c) \/ RefreshStep(c)
    \/ Restart

Spec == Init /\ [][Next]_vars

\* The runtime polls every live future and every network wait has a timeout
\* (http.rs:51), so a started call and a spawned task keep moving.  Nothing
\* obliges a caller to start, to cancel, or the server to answer.
Fairness == \A c \in Call : WF_vars(CallStep(c)) /\ WF_vars(RefreshStep(c))

FairSpec == Spec /\ Fairness

-----------------------------------------------------------------------------
(* Properties.                                                             *)

\* A refresh token is shown to the server a second time only after the client
\* stopped waiting for an answer it can never learn: the mutex, the re-read
\* under it and the retry rule of send_unrepeatable never cause it themselves.
NoTokenReuse == reused => abandoned

\* Between refreshes the client, the application's store and the server agree
\* on the pair, however callers come and go, unless an answer was abandoned.
InSync ==
    (~abandoned /\ \A c \in Call : task[c] \notin {"awaiting", "store", "notify"})
        => tokens = srvGen /\ persisted = srvGen

\* The one resend after a 401 never carries the token that was just rejected,
\* nor an older one.
ResentIsNewer == \A c \in Call : pc[c] = "resent" => got[c] > tok[c]

\* Concurrent 401s for one expired token rotate it once: the server issues a
\* new pair only when the current access token had really expired.
RotatedOnlyWhenExpired == [][srvGen' # srvGen => expired]_vars

\* The application never replaces persisted tokens by an older pair.
PersistedMonotone == [][persisted' >= persisted]_vars

\* Every call that was sent returns or is dropped by its caller, whatever
\* happens to the refreshes.
EveryCallReturns == \A c \in Call : pc[c] = "sent" ~> pc[c] \in Final

\* A rotation the server performed reaches the application's store even when
\* the caller that caused it is gone, unless its answer was abandoned.
RotationPersisted == srvGen > persisted ~> (persisted = srvGen \/ abandoned)

=============================================================================
