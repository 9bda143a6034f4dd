---------------------------- MODULE EntityCache ----------------------------
(***************************************************************************)
(* The caches of a Drive client: the events that keep them current, the    *)
(* loads that fill them, and the repository that holds the entities.       *)
(*                                                                         *)
(* A load is joined by its key whatever it loads, and where its result     *)
(* goes is EventSync's matter; EventSync's entity cache holds what it was  *)
(* given until it forgets, as CacheStore shows the repository does.  The   *)
(* three have no variable in common, and each is explored while the others *)
(* rest.                                                                   *)
(***************************************************************************)
EXTENDS EventSync, SingleFlight, CacheStore

VARIABLE moving    \* the part that is explored

entityVars == <<vars, flightVars, storeCacheVars, moving>>

EntityInit ==
    /\ moving \in {"events", "loads", "store"}
    /\ Init \/ (moving = "events" /\ InitResumed)
    /\ FlightInit
    /\ CacheInit /\ (moving = "store" \/ cipher = CHOOSE k \in CipherKey : TRUE)

EntityNext ==
    \/ moving = "events" /\ Next /\ UNCHANGED <<flightVars, storeCacheVars, moving>>
    \/ moving = "loads" /\ FlightNext /\ UNCHANGED <<vars, storeCacheVars, moving>>
    \/ moving = "store" /\ CacheNext /\ UNCHANGED <<vars, flightVars, moving>>

\* The manager's task and the futures of live callers are polled, a load ends and,
\* failures being finite, the manager's requests succeed in the end.
EntityFairness == WF_vars(moving = "events" /\ Manager) /\ FlightFairness

EntitySpec == EntityInit /\ [][EntityNext]_entityVars /\ EntityFairness
=============================================================================
