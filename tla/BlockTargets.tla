---------------------------- MODULE BlockTargets ----------------------------
(***************************************************************************)
(* Fetching blocks through tables of URLs that expire                      *)
(* (proton-drive-rs/src/revision.rs, BlockTargets::ciphertext, location    *)
(* and refresh), with the listing that renews a table and the session that *)
(* renews itself under it (transport.rs, RevisionTransport::get and        *)
(* list_blocks; public_link.rs, PublicLinkSession::renew).                 *)
(*                                                                         *)
(* Several revisions are open over one session, each with a table and any  *)
(* number of fetches.  Tables and session are versioned by a generation    *)
(* and replaced under a mutex of their own by whoever finds the generation *)
(* it saw still in place.  A fetch re-lists at most once, a page of the    *)
(* listing renews the session at most once.  URLs and sessions are         *)
(* abstracted to their generation; the server may stop accepting any       *)
(* generation.  The pages of a listing are taken one at a time.            *)
(***************************************************************************)
EXTENDS Integers

CONSTANTS
    Fetch,       \* the concurrent calls of ciphertext
    Table,       \* the open revisions, each a BlockTargets
    TableOf,     \* TableOf[f]: the one fetch f reads from
    MaxDeaths,   \* bound: generations of a table, and of the session, that die
    MaxDenials,  \* bound: 401, 403 or 404 answers for a URL that has not expired
    NoFetch

ASSUME FetchAssumption == NoFetch \notin Fetch /\ TableOf \in [Fetch -> Table]
ASSUME DeathAssumption == MaxDeaths \in Nat /\ MaxDenials \in Nat

VARIABLES
    stage,         \* stage[f]: where fetch f stands
    seen,       \* seen[f]: the table generation its first URL came from
    using,      \* using[f]: the table generation of the URL it uses
    bearer,     \* bearer[f]: the session generation its listing uses
    table,      \* table[t]: BlockTable::generation
    refresh,    \* refresh[t]: holder of BlockTargets::refresh, or NoFetch
    live,       \* Live::generation, the session's
    renewing,   \* holder of PublicLinkSession::renewing, or NoFetch
    deadUrl,    \* server: generations of table t below deadUrl[t] have expired
    deadSess,   \* server: session generations below this one have expired
    denials,    \* server: denials so far
    lists,      \* history: lists[t][g]: listings begun to replace generation g of t
    failed      \* history: failed[t][g]: those that failed or were dropped

targetVars == <<stage, seen, using, bearer, table, refresh, live, renewing, deadUrl, deadSess,
          denials, lists, failed>>
world == <<deadUrl, deadSess, denials>>

Gen == 0 .. (MaxDeaths + MaxDenials)
Listing == {"list", "expired", "renew", "relist"}
Final == {"ok", "error", "dropped"}

TargetsInit ==
    /\ stage = [f \in Fetch |-> "idle"]
    /\ seen = [f \in Fetch |-> 0] /\ using = [f \in Fetch |-> 0] /\ bearer = [f \in Fetch |-> 0]
    /\ table = [t \in Table |-> 0] /\ refresh = [t \in Table |-> NoFetch]
    /\ live = 0 /\ renewing = NoFetch
    /\ deadUrl = [t \in Table |-> 0] /\ deadSess = 0 /\ denials = 0
    /\ lists = [t \in Table |-> [g \in Gen |-> 0]]
    /\ failed = [t \in Table |-> [g \in Gen |-> 0]]

StageGoto(f, label) == stage' = [stage EXCEPT ![f] = label]
Current(f) == table[TableOf[f]]
Expired(f) == using[f] < deadUrl[TableOf[f]]
Count(history, f) == [history EXCEPT ![TableOf[f]][seen[f]] = @ + 1]

-----------------------------------------------------------------------------
\* The URLs of a present table, or the present session, expire.
ExpireUrls(t) ==
    /\ deadUrl[t] = table[t] /\ deadUrl[t] < MaxDeaths
    /\ deadUrl' = [deadUrl EXCEPT ![t] = table[t] + 1]
    /\ UNCHANGED <<stage, seen, using, bearer, table, refresh, live, renewing, deadSess,
                   denials, lists, failed>>

ExpireSession ==
    /\ deadSess = live /\ deadSess < MaxDeaths
    /\ deadSess' = live + 1
    /\ UNCHANGED <<stage, seen, using, bearer, table, refresh, live, renewing, deadUrl,
                   denials, lists, failed>>

-----------------------------------------------------------------------------
(* ciphertext.                                                             *)

\* location: the URL and the generation it came from.
Locate(f) ==
    /\ stage[f] = "idle"
    /\ seen' = [seen EXCEPT ![f] = Current(f)]
    /\ using' = [using EXCEPT ![f] = Current(f)]
    /\ StageGoto(f, "get")
    /\ UNCHANGED <<bearer, table, refresh, live, renewing, world, lists, failed>>

GotBlock(f) ==
    /\ stage[f] \in {"get", "get again"} /\ ~Expired(f)
    /\ StageGoto(f, "ok")
    /\ UNCHANGED <<seen, using, bearer, table, refresh, live, renewing, world, lists, failed>>

\* is_expired_block_url: the URL has expired, or was denied for another reason.
\* The first time it is renewed, the second time the error is returned.
UrlRefused(f) ==
    /\ stage[f] \in {"get", "get again"}
    /\ \/ Expired(f) /\ UNCHANGED denials
       \/ ~Expired(f) /\ denials < MaxDenials /\ denials' = denials + 1
    /\ StageGoto(f, IF stage[f] = "get" THEN "lock" ELSE "error")
    /\ UNCHANGED <<seen, using, bearer, table, refresh, live, renewing, deadUrl, deadSess,
                   lists, failed>>

\* Any other error is returned as it is.
GetFails(f) ==
    /\ stage[f] \in {"get", "get again"}
    /\ StageGoto(f, "error")
    /\ UNCHANGED <<seen, using, bearer, table, refresh, live, renewing, world, lists, failed>>

\* location again, after the refresh.
Relocate(f) ==
    /\ stage[f] = "relocate"
    /\ using' = [using EXCEPT ![f] = Current(f)]
    /\ StageGoto(f, "get again")
    /\ UNCHANGED <<seen, bearer, table, refresh, live, renewing, world, lists, failed>>

-----------------------------------------------------------------------------
(* refresh and list_blocks.                                                *)

LockFree(f) == refresh[TableOf[f]] = NoFetch
Unlock(f) == refresh' = [refresh EXCEPT ![TableOf[f]] = IF @ = f THEN NoFetch ELSE @]

BeginListing(f) ==
    /\ refresh' = [refresh EXCEPT ![TableOf[f]] = f]
    /\ bearer' = [bearer EXCEPT ![f] = live]
    /\ lists' = Count(lists, f)
    /\ StageGoto(f, "list")

\* With the mutex: nothing to do when somebody replaced the table, else list
\* the revision through the present session.
LockTable(f) ==
    /\ stage[f] = "lock" /\ LockFree(f)
    /\ IF Current(f) # seen[f]
       THEN StageGoto(f, "relocate") /\ UNCHANGED <<refresh, bearer, lists>>
       ELSE BeginListing(f)
    /\ UNCHANGED <<seen, using, table, live, renewing, world, failed>>

\* The listing is complete and has the expected number of blocks: the table is
\* replaced and the mutex dropped.
Listed(f) ==
    /\ stage[f] \in {"list", "relist"} /\ bearer[f] >= deadSess
    /\ table' = [table EXCEPT ![TableOf[f]] = @ + 1]
    /\ Unlock(f)
    /\ StageGoto(f, "relocate")
    /\ UNCHANGED <<seen, using, bearer, live, renewing, world, lists, failed>>

\* The listing fails, has another number of blocks, or its session cannot be
\* renewed: the error is returned.
ListFails(f) ==
    /\ stage[f] \in Listing
    /\ failed' = Count(failed, f)
    /\ Unlock(f)
    /\ renewing' = IF renewing = f THEN NoFetch ELSE renewing
    /\ StageGoto(f, "error")
    /\ UNCHANGED <<seen, using, bearer, table, live, world, lists>>

\* A page has arrived and is not the last one: the next is asked for through
\* whatever session is live now.
NextPage(f) ==
    /\ stage[f] \in {"list", "relist"} /\ bearer[f] >= deadSess
    /\ bearer' = [bearer EXCEPT ![f] = live]
    /\ StageGoto(f, "list")
    /\ UNCHANGED <<seen, using, table, refresh, live, renewing, world, lists, failed>>

\* RevisionTransport::get: a 401 means the session is gone.
SessionGone(f) ==
    /\ stage[f] = "list" /\ bearer[f] < deadSess
    /\ StageGoto(f, "expired")
    /\ UNCHANGED <<seen, using, bearer, table, refresh, live, renewing, world, lists, failed>>

\* Mutant of LockSession: the generation is not compared under the lock.
LockSessionUnchecked(f) ==
    /\ stage[f] = "expired" /\ renewing = NoFetch
    /\ renewing' = f
    /\ StageGoto(f, "renew")
    /\ UNCHANGED <<seen, using, bearer, table, refresh, live, world, lists, failed>>

\* PublicLinkSession::renew, with the mutex: somebody did it, or do it now.
LockSession(f) ==
    /\ stage[f] = "expired" /\ renewing = NoFetch
    /\ IF live # bearer[f]
       THEN /\ bearer' = [bearer EXCEPT ![f] = live]
            /\ StageGoto(f, "relist")
            /\ UNCHANGED renewing
       ELSE /\ renewing' = f
            /\ StageGoto(f, "renew")
            /\ UNCHANGED bearer
    /\ UNCHANGED <<seen, using, table, refresh, live, world, lists, failed>>

\* The handshake succeeds; the listing is repeated with the new session.
Renewed(f) ==
    /\ stage[f] = "renew"
    /\ live' = live + 1
    /\ bearer' = [bearer EXCEPT ![f] = live + 1]
    /\ renewing' = NoFetch
    /\ StageGoto(f, "relist")
    /\ UNCHANGED <<seen, using, table, refresh, world, lists, failed>>

\* The caller drops the fetch, and with it the guards it holds.
DropFetch(f) ==
    /\ stage[f] \notin {"idle"} \cup Final
    /\ failed' = IF stage[f] \in Listing THEN Count(failed, f) ELSE failed
    /\ Unlock(f)
    /\ renewing' = IF renewing = f THEN NoFetch ELSE renewing
    /\ StageGoto(f, "dropped")
    /\ UNCHANGED <<seen, using, bearer, table, live, world, lists>>

TargetStep(f) ==
    \/ GotBlock(f) \/ UrlRefused(f) \/ GetFails(f) \/ Relocate(f)
    \/ LockTable(f) \/ NextPage(f) \/ Listed(f) \/ ListFails(f) \/ SessionGone(f)
    \/ LockSession(f) \/ Renewed(f)

TargetsNext ==
    \/ ExpireSession
    \/ \E t \in Table : ExpireUrls(t)
    \/ \E f \in Fetch : Locate(f) \/ TargetStep(f) \/ DropFetch(f)

TargetsSpec == TargetsInit /\ [][TargetsNext]_targetVars

-----------------------------------------------------------------------------
\* A burst of refusals of one generation of URLs lists the revision once, another
\* listing needing the earlier one to have failed; and the second try of a fetch
\* never uses the URL that was refused, nor an older one, whoever listed.
TargetsRenewed ==
    /\ \A t \in Table, g \in Gen : lists[t][g] <= failed[t][g] + 1
    /\ \A f \in Fetch : stage[f] = "get again" => using[f] > seen[f]

\* A burst of 401s over all open revisions replays the handshake once per
\* session that died: the session is never renewed while it still works.
RenewedOnlyWhenDead == [][live' # live => deadSess > live]_targetVars

\* URLs and sessions are renewed once for each time they die, however many fetches
\* find out, and what a fetch tries next is newer than what was refused.
RenewedOnce == []TargetsRenewed /\ RenewedOnlyWhenDead

\* A fetch that was begun always ends: neither mutex is left behind by an error or a
\* dropped caller, and the two are never taken in a circle.
EveryFetchEnds ==
    (\E f \in Fetch : stage[f] = "get") ~> \A f \in Fetch : stage[f] \in Final \cup {"idle"}
=============================================================================
