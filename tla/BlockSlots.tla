----------------------------- MODULE BlockSlots -----------------------------
(***************************************************************************)
(* The client-wide pool of in-flight block permits                         *)
(* (proton-drive-rs/src/client.rs, block_slots): a tokio Semaphore, which  *)
(* is external and modelled from how uploads and downloads use it.         *)
(*                                                                         *)
(* A permit is named after the block it is held for, a pair of transfer    *)
(* and block index.  Waiters are served in the order they came; a permit   *)
(* is given back when the value that owns it is dropped.                   *)
(***************************************************************************)
EXTENDS Integers, Sequences, FiniteSets

CONSTANT MaxPool   \* bound: the largest pool

ASSUME PoolAssumption == MaxPool \in Nat \ {0}

VARIABLES
    pool,       \* with_max_inflight_blocks: the permits there are
    held,       \* the permits given out
    slotQueue   \* the permits asked for with acquire_owned and not granted yet

slots == <<pool, held, slotQueue>>

\* The application chooses the size of the pool, one permit at the least.
SlotsInit == pool \in 1 .. MaxPool /\ held = {} /\ slotQueue = <<>>

Free == Cardinality(held) < pool

\* acquire_owned: get in line.
AskPermit(p) == slotQueue' = Append(slotQueue, p) /\ UNCHANGED <<pool, held>>

\* p is first in line and a permit is free.
Grantable(p) == slotQueue # <<>> /\ Head(slotQueue) = p /\ Free

Grant(p) ==
    /\ Grantable(p)
    /\ held' = held \cup {p}
    /\ slotQueue' = Tail(slotQueue)
    /\ UNCHANGED pool

\* try_acquire_owned succeeds only when nobody is in line.
Tryable == slotQueue = <<>> /\ Free

TryAcquire(p) ==
    /\ Tryable
    /\ held' = held \cup {p}
    /\ UNCHANGED <<pool, slotQueue>>

\* The owners of the permits ps, and the futures waiting for them, are dropped.
Release(ps) ==
    /\ held' = held \ ps
    /\ slotQueue' = SelectSeq(slotQueue, LAMBDA p : p \notin ps)
    /\ UNCHANGED pool
=============================================================================
