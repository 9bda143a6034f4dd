---------------------------- MODULE ContextShare ----------------------------
(***************************************************************************)
(* The context-share cache and the read-write gate around it               *)
(* (proton-drive-rs/src/client.rs: context_share_id,                       *)
(* run_context_share_mutation as move_node and submit_move_batch use it,   *)
(* and the part of invalidate_caches_for_event that clears the cache).     *)
(*                                                                         *)
(* A lookup holds the gate's read guard from its cache check over its      *)
(* request to its put.  A mutation takes the write guard, clears the       *)
(* cache, and hands guard, request and clean-up to a task of its own.  The *)
(* event manager takes the write guard to clear the cache for an event.    *)
(*                                                                         *)
(* The context of the one node looked up is abstracted to its version at   *)
(* the server; every change of it is announced by an event later.          *)
(***************************************************************************)
EXTENDS Integers, Sequences

CONSTANTS
    Lookup,      \* tasks calling context_share_id, again and again
    Mutation,    \* calls of run_context_share_mutation, one each
    Events,      \* the event manager
    MaxVersion   \* bound: changes of the context at the server

ASSUME OpsAssumption ==
    Lookup \cap Mutation = {} /\ Events \notin Lookup \cup Mutation
ASSUME VersionAssumption == MaxVersion \in Nat

Op == Lookup \cup Mutation \cup {Events}
None == -1
NoOp == "no op"
ASSUME NoOpAssumption == NoOp \notin Op

VARIABLES
    pc,         \* pc[o]: where operation o stands
    queue,      \* the gate's waiters, first come first served
    readers,    \* holders of the read guard
    writer,     \* holder of the write guard, or NoOp
    cache,      \* DriveCache::context_share_ids: the version held, or None
    version,    \* server: the current version
    announced,  \* the newest version whose event the manager has taken up
    flight,     \* flight[m]: the request of mutation m: "none", "out", "over"
    answer,     \* answer[l]: the version the server gave lookup l
    known,      \* history: the cache was cleared for every change up to this one
    since       \* history: since[l] is known when lookup l was called

gate == <<queue, readers, writer>>
vars == <<pc, queue, readers, writer, cache, version, announced, flight, answer,
          known, since>>

Locked == {"reading", "asking", "answered"}

TypeOK ==
    /\ pc \in [Op -> {"idle", "queued", "clearing", "running", "done"} \cup Locked]
    /\ readers \subseteq Lookup
    /\ writer \in Mutation \cup {Events, NoOp}
    /\ cache \in {None} \cup Nat
    /\ version \in Nat /\ announced \in Nat /\ known \in Nat
    /\ flight \in [Mutation -> {"none", "out", "over"}]
    /\ answer \in [Lookup -> Nat]
    /\ since \in [Lookup -> Nat]

Init ==
    /\ pc = [o \in Op |-> "idle"]
    /\ queue = <<>> /\ readers = {} /\ writer = NoOp
    /\ cache = None
    /\ version = 0 /\ announced = 0 /\ known = 0
    /\ flight = [m \in Mutation |-> "none"]
    /\ answer = [l \in Lookup |-> 0]
    /\ since = [l \in Lookup |-> 0]

Goto(o, label) == pc' = [pc EXCEPT ![o] = label]
Newer(x, y) == IF x >= y THEN x ELSE y

-----------------------------------------------------------------------------
(* The gate: a tokio RwLock, which grants its waiters in order.            *)

Enqueue(o) ==
    /\ Goto(o, "queued")
    /\ queue' = Append(queue, o)
    /\ UNCHANGED <<readers, writer>>

GrantRead(l) ==
    /\ pc[l] = "queued" /\ queue # <<>> /\ Head(queue) = l
    /\ writer = NoOp
    /\ queue' = Tail(queue)
    /\ readers' = readers \cup {l}
    /\ Goto(l, "reading")
    /\ UNCHANGED <<writer, cache, version, announced, flight, answer, known, since>>

GrantWrite(o) ==
    /\ pc[o] = "queued" /\ queue # <<>> /\ Head(queue) = o
    /\ writer = NoOp /\ readers = {}
    /\ queue' = Tail(queue)
    /\ writer' = o
    /\ Goto(o, "clearing")
    /\ UNCHANGED <<readers, cache, version, announced, flight, answer, known, since>>

\* A future is dropped in the queue, or with a guard it holds.
Leave(o, label) ==
    /\ Goto(o, label)
    /\ queue' = SelectSeq(queue, LAMBDA x : x # o)
    /\ readers' = readers \ {o}
    /\ writer' = IF writer = o THEN NoOp ELSE writer

-----------------------------------------------------------------------------
(* context_share_id.                                                       *)

Call(l) ==
    /\ pc[l] = "idle"
    /\ Enqueue(l)
    /\ since' = [since EXCEPT ![l] = known]
    /\ UNCHANGED <<cache, version, announced, flight, answer, known>>

\* A hit is returned and the guard dropped.
Hit(l) ==
    /\ pc[l] = "reading" /\ cache # None
    /\ Leave(l, "idle")
    /\ UNCHANGED <<cache, version, announced, flight, answer, known, since>>

Miss(l) ==
    /\ pc[l] = "reading" /\ cache = None
    /\ Goto(l, "asking")
    /\ UNCHANGED <<gate, cache, version, announced, flight, answer, known, since>>

\* The server answers with the context it has now.
Answer(l) ==
    /\ pc[l] = "asking"
    /\ answer' = [answer EXCEPT ![l] = version]
    /\ Goto(l, "answered")
    /\ UNCHANGED <<gate, cache, version, announced, flight, known, since>>

\* Mutant of Put: the guard is dropped before the answer goes into the cache.
PutUnguarded(l) ==
    /\ pc[l] = "answered"
    /\ \/ /\ l \in readers
          /\ readers' = readers \ {l}
          /\ UNCHANGED <<pc, queue, writer, cache>>
       \/ /\ l \notin readers
          /\ cache' = answer[l]
          /\ Leave(l, "idle")
    /\ UNCHANGED <<version, announced, flight, answer, known, since>>

\* The answer goes into the cache and is returned.
Put(l) ==
    /\ pc[l] = "answered"
    /\ cache' = answer[l]
    /\ Leave(l, "idle")
    /\ UNCHANGED <<version, announced, flight, answer, known, since>>

\* Mutant of Abort: a lookup that ends early leaves its read guard behind.
AbortKeepsGuard(l) ==
    /\ pc[l] \in {"queued"} \cup Locked
    /\ Goto(l, "idle")
    /\ queue' = SelectSeq(queue, LAMBDA x : x # l)
    /\ UNCHANGED <<readers, writer, cache, version, announced, flight, answer, known, since>>

\* The request fails, or the lookup is dropped wherever it stands.
Abort(l) ==
    /\ pc[l] \in {"queued"} \cup Locked
    /\ Leave(l, "idle")
    /\ UNCHANGED <<cache, version, announced, flight, answer, known, since>>

-----------------------------------------------------------------------------
(* run_context_share_mutation.                                             *)

Mutate(m) ==
    /\ pc[m] = "idle"
    /\ Enqueue(m)
    /\ UNCHANGED <<cache, version, announced, flight, answer, known, since>>

\* With the guard: clear the cache, spawn the task, send the request.
Detach(m) ==
    /\ pc[m] = "clearing"
    /\ cache' = None
    /\ flight' = [flight EXCEPT ![m] = "out"]
    /\ Goto(m, "running")
    /\ UNCHANGED <<gate, version, announced, answer, known, since>>

\* The server commits the change; the client learns of it only later.
Commit(m) ==
    /\ flight[m] = "out" /\ version < MaxVersion
    /\ version' = version + 1
    /\ flight' = [flight EXCEPT ![m] = "over"]
    /\ UNCHANGED <<pc, gate, cache, announced, answer, known, since>>

\* The answer arrives: clear again, drop the guard, return.
Committed(m) ==
    /\ pc[m] = "running" /\ flight[m] = "over"
    /\ cache' = None
    /\ known' = Newer(known, version)
    /\ Leave(m, "done")
    /\ UNCHANGED <<version, announced, flight, answer, since>>

\* The request fails or times out, committed or not; one that is still on its
\* way may commit after this.
Failed(m) ==
    /\ pc[m] = "running"
    /\ cache' = None
    /\ Leave(m, "done")
    /\ UNCHANGED <<version, announced, flight, answer, known, since>>

\* Mutant of CancelMutation: the request is not detached, so dropping the caller
\* drops the guard while the request is out.
CancelMutationMidway(m) ==
    /\ pc[m] \in {"queued", "clearing", "running"}
    /\ Leave(m, IF pc[m] = "running" THEN "running" ELSE "done")
    /\ UNCHANGED <<cache, version, announced, flight, answer, known, since>>

\* The caller is dropped before the task exists: nothing is sent.  Dropped
\* later, it changes nothing, for the task owns the guard.
CancelMutation(m) ==
    /\ pc[m] \in {"queued", "clearing"}
    /\ Leave(m, "done")
    /\ UNCHANGED <<cache, version, announced, flight, answer, known, since>>

-----------------------------------------------------------------------------
(* Changes by other clients and the events that announce all changes.      *)

RemoteChange ==
    /\ version < MaxVersion
    /\ version' = version + 1
    /\ UNCHANGED <<pc, gate, cache, announced, flight, answer, known, since>>

\* The manager takes up the next event and asks for the write guard.
TakeEvent ==
    /\ pc[Events] = "idle" /\ announced < version
    /\ announced' = announced + 1
    /\ Enqueue(Events)
    /\ UNCHANGED <<cache, version, flight, answer, known, since>>

\* Mutant of ApplyEvent: only the gate is taken, the mappings stay.
ApplyEventKeepsCache ==
    /\ pc[Events] = "clearing"
    /\ known' = Newer(known, announced)
    /\ Leave(Events, "idle")
    /\ UNCHANGED <<cache, version, announced, flight, answer, since>>

\* With the guard: clear the cache and let go.
ApplyEvent ==
    /\ pc[Events] = "clearing"
    /\ cache' = None
    /\ known' = Newer(known, announced)
    /\ Leave(Events, "idle")
    /\ UNCHANGED <<version, announced, flight, answer, since>>

LookupStep(l) == GrantRead(l) \/ Hit(l) \/ Miss(l) \/ Answer(l) \/ Put(l)
MutationStep(m) == GrantWrite(m) \/ Detach(m) \/ Committed(m) \/ Failed(m)
EventStep == GrantWrite(Events) \/ ApplyEvent

Next ==
    \/ \E l \in Lookup : Call(l) \/ LookupStep(l) \/ Abort(l)
    \/ \E m \in Mutation : Mutate(m) \/ MutationStep(m) \/ Commit(m) \/ CancelMutation(m)
    \/ RemoteChange \/ TakeEvent \/ EventStep

Spec == Init /\ [][Next]_vars

\* Live futures are polled, every request ends (http.rs:51 gives each a timeout)
\* and the gate serves its queue in order.
Fairness ==
    /\ \A l \in Lookup : WF_vars(LookupStep(l))
    /\ \A m \in Mutation : WF_vars(MutationStep(m))
    /\ WF_vars(EventStep) /\ WF_vars(TakeEvent)

FairSpec == Spec /\ Fairness

-----------------------------------------------------------------------------
(* Properties.                                                             *)

\* A completed lookup never reinserts what an invalidation dropped: the cache
\* holds nothing older than the newest change it was cleared for, by an event or
\* by this client's own move.
CacheNotBehind == cache # None => cache >= known

\* A lookup returns a context at least as new as the last invalidation before
\* it was called, whether it hits or asks.
LookupFresh ==
    \A l \in Lookup :
        /\ (pc[l] = "reading" /\ cache # None) => cache >= since[l]
        /\ pc[l] = "answered" => answer[l] >= since[l]

\* While a mutation's request is out and the client waits for it, no lookup is
\* between its check and its put, and the cache is empty.
ExcludedDuringMutation ==
    \A m \in Mutation :
        (pc[m] = "running" /\ flight[m] = "out")
            => cache = None /\ \A l \in Lookup : pc[l] \notin Locked

\* Nobody waits for the gate for ever: every mutation is over in the end and
\* every lookup returns.
EveryoneServed ==
    \A o \in Op : pc[o] = "queued" ~> pc[o] \in {"idle", "done"}
======================================================================
