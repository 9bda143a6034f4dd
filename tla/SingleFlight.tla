---------------------------- MODULE SingleFlight ----------------------------
(***************************************************************************)
(* SingleFlight::run (proton-drive-rs/src/single_flight.rs) for one key.   *)
(*                                                                         *)
(* A caller takes the mutex, joins the load in the key's slot or puts a    *)
(* new one there, and awaits it.  A load is a shared future: it moves only *)
(* while one of its callers polls it, and it survives in the slot when all *)
(* of them are dropped.  After the load, every caller takes the mutex      *)
(* again and removes whatever is in the slot.  Loads are numbered in the   *)
(* order they are created; whether a load succeeds or fails changes        *)
(* nothing here.                                                           *)
(***************************************************************************)
EXTENDS Integers, FiniteSets

CONSTANTS
    Caller,    \* the tasks that call run, each any number of times
    MaxLoads   \* bound: loads created in one behaviour

ASSUME LoadsAssumption == MaxLoads \in Nat \ {0}

VARIABLES
    fpc,        \* fpc[c]: "idle", "waiting" for its load, "clearing" the slot
    joined,    \* joined[c]: the load c awaits or awaited
    slot,      \* the load in the map, 0 when the key is absent
    created,   \* number of loads created so far
    done,      \* the loads that have completed
    orphaned   \* history: loads of which a caller was dropped before it cleared

flightVars == <<fpc, joined, slot, created, done, orphaned>>

Load == 1 .. MaxLoads

FlightInit ==
    /\ fpc = [c \in Caller |-> "idle"]
    /\ joined = [c \in Caller |-> 0]
    /\ slot = 0 /\ created = 0
    /\ done = {} /\ orphaned = {}

Polled(l) == \E c \in Caller : fpc[c] = "waiting" /\ joined[c] = l

-----------------------------------------------------------------------------
\* The first critical section: join the load in the slot ...
Join(c) ==
    /\ fpc[c] = "idle" /\ slot # 0
    /\ fpc' = [fpc EXCEPT ![c] = "waiting"]
    /\ joined' = [joined EXCEPT ![c] = slot]
    /\ UNCHANGED <<slot, created, done, orphaned>>

\* ... or create one and put it there.
Start(c) ==
    /\ fpc[c] = "idle" /\ slot = 0 /\ created < MaxLoads
    /\ created' = created + 1
    /\ slot' = created + 1
    /\ fpc' = [fpc EXCEPT ![c] = "waiting"]
    /\ joined' = [joined EXCEPT ![c] = created + 1]
    /\ UNCHANGED <<done, orphaned>>

\* Mutant of Complete: only a load still registered in the slot is driven.
CompleteOnlyInSlot(l) ==
    /\ l \notin done /\ Polled(l) /\ slot = l
    /\ done' = done \cup {l}
    /\ UNCHANGED <<fpc, joined, slot, created, orphaned>>

\* The load runs to its end, driven by any of its callers.
Complete(l) ==
    /\ l \notin done /\ Polled(l)
    /\ done' = done \cup {l}
    /\ UNCHANGED <<fpc, joined, slot, created, orphaned>>

\* shared.await returns.
Awake(c) ==
    /\ fpc[c] = "waiting" /\ joined[c] \in done
    /\ fpc' = [fpc EXCEPT ![c] = "clearing"]
    /\ UNCHANGED <<joined, slot, created, done, orphaned>>

\* Mutant of Clear: the slot keeps the completed load.
ClearNothing(c) ==
    /\ fpc[c] = "clearing"
    /\ fpc' = [fpc EXCEPT ![c] = "idle"]
    /\ UNCHANGED <<joined, slot, created, done, orphaned>>

\* The second critical section removes the key, whichever load it holds, and
\* the outcome is returned.
Clear(c) ==
    /\ fpc[c] = "clearing"
    /\ slot' = 0
    /\ fpc' = [fpc EXCEPT ![c] = "idle"]
    /\ UNCHANGED <<joined, created, done, orphaned>>

\* The caller's future is dropped, while it awaits the load or the mutex.
Drop(c) ==
    /\ fpc[c] \in {"waiting", "clearing"}
    /\ fpc' = [fpc EXCEPT ![c] = "idle"]
    /\ orphaned' = orphaned \cup {joined[c]}
    /\ UNCHANGED <<joined, slot, created, done>>

FlightNext ==
    \/ \E c \in Caller : Join(c) \/ Start(c) \/ Awake(c) \/ Clear(c) \/ Drop(c)
    \/ \E l \in Load : Complete(l)

FlightSpec == FlightInit /\ [][FlightNext]_flightVars

\* Callers that are not dropped are polled, and a load they poll ends (every
\* request under it has a timeout).
FlightFairness ==
    /\ \A c \in Caller : WF_flightVars(Awake(c)) /\ WF_flightVars(Clear(c))
    /\ \A l \in Load : WF_flightVars(Complete(l))

FlightFairSpec == FlightSpec /\ FlightFairness

-----------------------------------------------------------------------------
(* Properties.                                                             *)

\* c takes a handle on load l in this step.
Takes(c, l) == fpc[c] = "idle" /\ fpc'[c] = "waiting" /\ joined'[c] = l

InFlight(l) == \E c \in Caller : fpc[c] # "idle" /\ joined[c] = l

\* A caller is handed a load that was already complete only while another
\* caller of that load has still to clear the slot, or was dropped before it.
StaleNeedsOverlap ==
    [][\A c \in Caller, l \in done : Takes(c, l) => InFlight(l) \/ l \in orphaned]_flightVars

\* Nobody waits for a load that no caller drives: whoever joined it gets its
\* outcome even when the caller that started it is gone.
EveryCallerServed == \A c \in Caller : fpc[c] = "waiting" ~> fpc[c] # "waiting"

\* What the comment on run says: a call joins the load already running for its
\* key, so two loads of one key never run at the same time.
OneLoadAtATime == Cardinality({l \in Load \ done : Polled(l)}) <= 1
======================================================================
