------------------------------ MODULE Account ------------------------------
(***************************************************************************)
(* The account's keys and addresses (AccountClient in account.rs).         *)
(*                                                                         *)
(* Each thing a call needs is remembered for the client's life: key salts, *)
(* the passphrases derived from them, the user keys these open, the        *)
(* addresses whose keys those open.  A call that finds one missing loads   *)
(* it.  The lock is released between the look and the load, and between    *)
(* the load and what the call reads afterwards, so two calls may load the  *)
(* same thing at once, from different states of the account, and the last  *)
(* one to store wins.                                                      *)
(***************************************************************************)
EXTENDS Integers, FiniteSets

CONSTANTS
    Caller, UserKey,
    Address,             \* the addresses, each named by its Order field
    FirstKey,            \* the user key the account starts with
    NotLoaded,           \* an Option that is None
    Broken, Absent,      \* an address no key opens; one that does not exist
    MaxAccountCalls,     \* bound: calls made
    MaxEdits             \* bound: changes of keys, addresses and tokens elsewhere

ASSUME AccountAssumption ==
    /\ Address \subseteq Nat /\ FirstKey \in UserKey
    /\ MaxAccountCalls \in Nat /\ MaxEdits \in Nat

VARIABLES
    keyState,       \* the account's user keys: none, active or inactive
    opensWith,      \* the user key an address's keys open with
    secretRight,    \* whether the password is the account's
    lockedScope,    \* whether the access token has the `locked` scope
    keySalts,       \* Cache: the keys salts are known for
    passphrases,    \* Cache: the keys passphrases are known for
    userKeys,       \* Cache: token_keys, the user keys that opened
    addresses,      \* Cache: the addresses that opened
    addressKeys,    \* Cache: the addresses whose keys are at hand
    failedAddresses,
    defaultFailed,  \* Cache: the lowest-ordered address did not open
    calling,        \* [Caller -> where the call is and what it has read]
    accountCalls, edits

accountVars == <<keyState, opensWith, secretRight, lockedScope, keySalts, passphrases,
                 userKeys, addresses, addressKeys, failedAddresses, defaultFailed, calling,
                 accountCalls, edits>>

serverVars == <<keyState, opensWith, secretRight, lockedScope, edits>>
cacheVars == <<keySalts, passphrases, userKeys, addresses, addressKeys, failedAddresses,
               defaultFailed>>

Waiting == [at |-> "idle", op |-> "none", of |-> Absent, phrases |-> {}, seen |-> {}, broken |-> {},
            left |-> {}, overtaken |-> FALSE, outcome |-> "none", got |-> Absent]

\* A client starts with nothing (new), with salts (with_key_salts) or with the
\* passphrases (with_key_passphrases) of an earlier login, on a session that may
\* have been resumed.
AccountInit ==
    /\ keyState = [k \in UserKey |-> IF k = FirstKey THEN "active" ELSE "none"]
    /\ opensWith \in [Address -> {FirstKey, Broken}]
    /\ secretRight \in BOOLEAN /\ lockedScope \in BOOLEAN
    /\ \/ keySalts \in {NotLoaded, {FirstKey}} /\ passphrases = NotLoaded
       \/ keySalts = NotLoaded /\ passphrases = {FirstKey}
    /\ userKeys = NotLoaded /\ addresses = NotLoaded /\ addressKeys = {}
    /\ failedAddresses = {} /\ defaultFailed = FALSE
    /\ calling = [c \in Caller |-> Waiting]
    /\ accountCalls = 0 /\ edits = 0

Proceeds(c, r) ==
    /\ calling' = [calling EXCEPT ![c] = r]
    /\ UNCHANGED accountCalls

EndsWith(c, outcome) == Proceeds(c, [Waiting EXCEPT !.outcome = outcome])

\* key_salts, key_passphrases, unlock, addresses, address, default_address and
\* address_private_keys all start the same way: a look at the cache.  What is noted
\* as broken then is history, for the property.
BeginAccountCall(c, op, a) ==
    /\ calling[c].at = "idle" /\ accountCalls < MaxAccountCalls
    /\ accountCalls' = accountCalls + 1
    /\ LET r == [Waiting EXCEPT !.op = op, !.of = a] IN
       calling' = [calling EXCEPT ![c] =
           IF op = "keys" /\ a \in addressKeys THEN [r EXCEPT !.outcome = "ok", !.got = a]
           ELSE IF op = "unlock" \/ addresses = NotLoaded THEN [r EXCEPT !.at = "userkeys"]
           ELSE [r EXCEPT !.at = "answer", !.seen = addresses, !.broken = failedAddresses]]
    /\ UNCHANGED <<serverVars, cacheVars>>

-----------------------------------------------------------------------------
(* key_salts, key_passphrases and user_keys.                                *)

HaveUserKeys(c) ==
    /\ calling[c].at = "userkeys" /\ userKeys # NotLoaded
    /\ IF calling[c].op = "unlock" THEN EndsWith(c, "ok")
       ELSE Proceeds(c, [calling[c] EXCEPT !.at = "addresses"])
    /\ UNCHANGED <<serverVars, cacheVars>>

\* key_passphrases: those known, or those derived from salts that are known ...
HavePassphrases(c) ==
    /\ calling[c].at = "userkeys" /\ userKeys = NotLoaded
    /\ passphrases # NotLoaded \/ keySalts # NotLoaded
    /\ LET known == IF passphrases # NotLoaded THEN passphrases ELSE keySalts IN
       /\ passphrases' = known
       /\ Proceeds(c, [calling[c] EXCEPT !.at = "user", !.phrases = known])
    /\ UNCHANGED <<serverVars, keySalts, userKeys, addresses, addressKeys, failedAddresses,
                   defaultFailed>>

\* ... or from the salts endpoint, which wants the `locked` scope that a resumed or
\* refreshed token has not got.
AskSalts(c) ==
    /\ calling[c].at = "userkeys" /\ userKeys = NotLoaded
    /\ passphrases = NotLoaded /\ keySalts = NotLoaded
    /\ IF lockedScope
       THEN Proceeds(c, [calling[c] EXCEPT !.at = "salts",
                           !.phrases = {k \in UserKey : keyState[k] # "none"}])
       ELSE EndsWith(c, "forbidden")
    /\ UNCHANGED <<serverVars, cacheVars>>

StoreSalts(c) ==
    /\ calling[c].at = "salts"
    /\ keySalts' = calling[c].phrases /\ passphrases' = calling[c].phrases
    /\ Proceeds(c, [calling[c] EXCEPT !.at = "user"])
    /\ UNCHANGED <<serverVars, userKeys, addresses, addressKeys, failedAddresses, defaultFailed>>

\* The user's keys: every one with a passphrase that opens it may open an address's
\* token, an inactive one too, but without an active one the account is locked.
Opened(c) == {k \in calling[c].phrases : secretRight /\ keyState[k] # "none"}

FetchUserKeys(c) ==
    /\ calling[c].at = "user"
    /\ IF \A k \in Opened(c) : keyState[k] # "active"
       THEN EndsWith(c, "locked")
       ELSE Proceeds(c, [calling[c] EXCEPT !.at = "storekeys", !.phrases = Opened(c)])
    /\ UNCHANGED <<serverVars, cacheVars>>

StoreUserKeys(c) ==
    /\ calling[c].at = "storekeys"
    /\ userKeys' = calling[c].phrases
    /\ IF calling[c].op = "unlock" THEN EndsWith(c, "ok")
       ELSE Proceeds(c, [calling[c] EXCEPT !.at = "addresses", !.phrases = {}])
    /\ UNCHANGED <<serverVars, keySalts, passphrases, addresses, addressKeys, failedAddresses,
                   defaultFailed>>

\* Any of the requests may fail; nothing is stored.
AccountRequestFails(c) ==
    /\ calling[c].at \in {"userkeys", "user", "addresses"}
    /\ EndsWith(c, "error")
    /\ UNCHANGED <<serverVars, cacheVars>>

-----------------------------------------------------------------------------
(* addresses: list them, open each one's keys, then store the result.       *)

FetchAddresses(c) ==
    /\ calling[c].at = "addresses"
    /\ LET listed == {a \in Address : opensWith[a] # Absent} IN
       Proceeds(c, [calling[c] EXCEPT !.at = "open", !.left = listed,
                      !.broken = {a \in listed : opensWith[a] \notin userKeys}])
    /\ UNCHANGED <<serverVars, cacheVars>>

\* decrypt_address for one of them; its keys are stored at once, while an address
\* that does not open is left out.
OpenAddress(c, a) ==
    /\ calling[c].at = "open" /\ a \in calling[c].left
    /\ LET opens == a \notin calling[c].broken IN
       /\ addressKeys' = addressKeys \cup (IF opens THEN {a} ELSE {})
       /\ Proceeds(c, [calling[c] EXCEPT !.left = @ \ {a},
                         !.seen = @ \cup (IF opens THEN {a} ELSE {})])
    /\ UNCHANGED <<serverVars, keySalts, passphrases, userKeys, addresses, failedAddresses,
                   defaultFailed>>

Lowest(as) == CHOOSE a \in as : \A b \in as : a <= b

\* The lowest-ordered of the listed addresses did not open.
DefaultBrokenNever(seen, broken) == FALSE
DefaultBroken(seen, broken) == seen \cup broken # {} /\ Lowest(seen \cup broken) \in broken

\* History: the list stored is another than the one r is about to answer from.
Overtakes(seen, broken, r) == r.at = "answer" /\ <<seen, broken>> # <<r.seen, r.broken>>

StoreAddresses(c) ==
    /\ calling[c].at = "open" /\ calling[c].left = {}
    /\ LET seen == calling[c].seen
           broken == calling[c].broken
       IN
       IF seen = {} /\ broken # {}
       THEN EndsWith(c, "failed") /\ UNCHANGED <<addresses, failedAddresses, defaultFailed>>
       ELSE /\ addresses' = seen
            /\ failedAddresses' = broken
            /\ defaultFailed' = DefaultBroken(seen, broken)
            /\ calling' = [d \in Caller |->
                  IF d = c THEN [calling[c] EXCEPT !.at = "answer"]
                  ELSE [calling[d] EXCEPT !.overtaken = @ \/ Overtakes(seen, broken, calling[d])]]
            /\ UNCHANGED accountCalls
    /\ UNCHANGED <<serverVars, keySalts, passphrases, userKeys, addressKeys>>

\* What the call makes of the addresses, under the lock taken again: its own list
\* beside what the cache holds by now.
AnswerAccountCall(c) ==
    LET r == calling[c] IN
    /\ r.at = "answer"
    /\ calling' = [calling EXCEPT ![c] = [r EXCEPT !.at = "idle", !.seen = {},
          !.outcome =
            CASE r.op = "default" -> IF defaultFailed THEN "failed"
                                     ELSE IF r.seen = {} THEN "no address" ELSE "ok"
              [] r.op = "address" -> IF r.of \in r.seen THEN "ok"
                                     ELSE IF r.of \in failedAddresses THEN "failed" ELSE "unknown"
              [] OTHER -> IF r.of \in addressKeys THEN "ok"
                          ELSE IF r.of \in failedAddresses THEN "failed" ELSE "unknown",
          !.got = IF r.op = "default" /\ ~defaultFailed /\ r.seen # {} THEN Lowest(r.seen)
                  ELSE r.of]]
    /\ UNCHANGED <<serverVars, cacheVars, accountCalls>>

-----------------------------------------------------------------------------
(* Elsewhere: the user's settings, and the session's token.                 *)

Edited ==
    /\ edits < MaxEdits /\ edits' = edits + 1
    /\ UNCHANGED <<cacheVars, calling, accountCalls, secretRight>>

ReplaceUserKey(k) ==
    /\ keyState[k] = "none"
    /\ keyState' = [j \in UserKey |-> IF j = k THEN "active"
                                      ELSE IF keyState[j] = "active" THEN "inactive"
                                      ELSE keyState[j]]
    /\ Edited /\ UNCHANGED <<opensWith, lockedScope>>

EditAddress(a, k) ==
    /\ k = Broken \/ k = Absent \/ (k \in UserKey /\ keyState[k] = "active")
    /\ opensWith' = [opensWith EXCEPT ![a] = k]
    /\ Edited /\ UNCHANGED <<keyState, lockedScope>>

RefreshToken ==
    /\ lockedScope /\ lockedScope' = FALSE
    /\ Edited /\ UNCHANGED <<keyState, opensWith>>

AccountNext ==
    \/ \E c \in Caller :
          \/ \E op \in {"unlock", "default"} : BeginAccountCall(c, op, Absent)
          \/ \E op \in {"address", "keys"}, a \in Address : BeginAccountCall(c, op, a)
          \/ HaveUserKeys(c) \/ HavePassphrases(c) \/ AskSalts(c) \/ StoreSalts(c)
          \/ FetchUserKeys(c) \/ StoreUserKeys(c)
          \/ AccountRequestFails(c)
          \/ FetchAddresses(c) \/ StoreAddresses(c) \/ AnswerAccountCall(c)
          \/ \E a \in Address : OpenAddress(c, a)
    \/ \E k \in UserKey : ReplaceUserKey(k)
    \/ \E a \in Address, k \in UserKey \cup {Broken, Absent} : EditAddress(a, k)
    \/ RefreshToken

AccountSpec == AccountInit /\ [][AccountNext]_accountVars

-----------------------------------------------------------------------------
(* Properties.                                                              *)

\* default_address gave an address that is below every one that was listed beside it
\* with keys that did not open.
GaveLowest(r) == r.op = "default" /\ r.outcome = "ok" => \A a \in r.broken : r.got < a

\* The default address is never the next one up: default_address gives an address
\* only when no lower-ordered one was listed beside it with keys that did not open,
\* unless another load stored a different list between the call's own, or its look at
\* the cache, and its look at default_failed.
DefaultIsLowest == \A c \in Caller : calling[c].overtaken \/ GaveLowest(calling[c])

\* What default_address is documented to do: with a default address whose keys did not
\* open it fails with the reason rather than handing out the next address.
NeverTheNextAddress == \A c \in Caller : GaveLowest(calling[c])
=============================================================================
