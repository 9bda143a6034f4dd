-------------------------- MODULE SharedStateProofs --------------------------
(***************************************************************************)
(* Proofs about what concurrent calls of one client share, for any number  *)
(* of callers: the gate keeps the context-share cache fresh, URL tables    *)
(* and sessions are renewed once for each time they die, and a block post  *)
(* begun after a timeout runs alone.                                       *)
(***************************************************************************)
EXTENDS SharedState, FiniteSetTheorems, TLAPS

-----------------------------------------------------------------------------
(* The context-share cache and its gate.                                   *)


\* Which control states the three kinds of operation can be in.
RoleInv ==
    /\ \A l \in Lookup : pc[l] \in {"idle", "queued"} \cup Locked
    /\ \A m \in Mutation : pc[m] \in {"idle", "queued", "clearing", "running", "done"}
    /\ pc[Events] \in {"idle", "queued", "clearing"}

\* Guards and control states agree, and a write guard excludes all others.
GateInv ==
    /\ \A l \in Lookup : l \in readers <=> pc[l] \in Locked
    /\ \A o \in Mutation \cup {Events} : writer = o <=> pc[o] \in {"clearing", "running"}
    /\ writer # NoOp => readers = {}

\* How the versions in cache, answers and history are ordered.
FreshInv ==
    /\ announced <= version /\ known <= version
    /\ cache # None => cache >= known
    /\ \A l \in Lookup : since[l] <= known
    /\ \A l \in Lookup : pc[l] = "answered" => answer[l] >= known
    /\ \A m \in Mutation : pc[m] = "running" => cache = None

IInv == TypeOK /\ RoleInv /\ GateInv /\ FreshInv

-----------------------------------------------------------------------------
LEMMA InitIInv == Init => IInv
<1> SUFFICES ASSUME Init PROVE IInv
  OBVIOUS
<1> USE OpsAssumption, NoOpAssumption DEF Init, Op
<1>1. TypeOK
  BY DEF TypeOK, None, Locked
<1>2. RoleInv /\ GateInv /\ FreshInv
  BY DEF RoleInv, GateInv, FreshInv, None, Locked
<1> QED
  BY <1>1, <1>2 DEF IInv

LEMMA CallIInv ==
    ASSUME IInv, NEW l \in Lookup, Call(l)
    PROVE  IInv'
<1> USE OpsAssumption, NoOpAssumption, VersionAssumption DEF IInv, Call, Enqueue, Goto, Op, Locked, None
<1>1. TypeOK'
  BY DEF TypeOK, RoleInv
<1>2. RoleInv'
  BY DEF TypeOK, RoleInv
<1>3. GateInv'
  BY DEF TypeOK, RoleInv, GateInv
<1>4. FreshInv'
  BY DEF TypeOK, RoleInv, GateInv, FreshInv
<1> QED
  BY <1>1, <1>2, <1>3, <1>4

LEMMA GrantReadIInv ==
    ASSUME IInv, NEW l \in Lookup, GrantRead(l)
    PROVE  IInv'
<1> USE OpsAssumption, NoOpAssumption, VersionAssumption DEF IInv, GrantRead, Goto, Op, Locked, None
<1>1. TypeOK'
  BY DEF TypeOK, RoleInv
<1>2. RoleInv'
  BY DEF TypeOK, RoleInv
<1>3. GateInv'
  BY DEF TypeOK, RoleInv, GateInv
<1>4. FreshInv'
  BY DEF TypeOK, RoleInv, GateInv, FreshInv
<1> QED
  BY <1>1, <1>2, <1>3, <1>4

LEMMA HitIInv ==
    ASSUME IInv, NEW l \in Lookup, Hit(l)
    PROVE  IInv'
<1> USE OpsAssumption, NoOpAssumption, VersionAssumption DEF IInv, Hit, Leave, Goto, Op, Locked, None
<1>1. TypeOK'
  BY DEF TypeOK, RoleInv
<1>2. RoleInv'
  BY DEF TypeOK, RoleInv
<1>3. GateInv'
  BY DEF TypeOK, RoleInv, GateInv
<1>4. FreshInv'
  BY DEF TypeOK, RoleInv, GateInv, FreshInv
<1> QED
  BY <1>1, <1>2, <1>3, <1>4

LEMMA MissIInv ==
    ASSUME IInv, NEW l \in Lookup, Miss(l)
    PROVE  IInv'
<1> USE OpsAssumption, NoOpAssumption, VersionAssumption DEF IInv, Miss, Goto, gate, Op, Locked, None
<1>1. TypeOK'
  BY DEF TypeOK, RoleInv
<1>2. RoleInv'
  BY DEF TypeOK, RoleInv
<1>3. GateInv'
  BY DEF TypeOK, RoleInv, GateInv
<1>4. FreshInv'
  BY DEF TypeOK, RoleInv, GateInv, FreshInv
<1> QED
  BY <1>1, <1>2, <1>3, <1>4

LEMMA AnswerIInv ==
    ASSUME IInv, NEW l \in Lookup, Answer(l)
    PROVE  IInv'
<1> USE OpsAssumption, NoOpAssumption, VersionAssumption DEF IInv, Answer, Goto, gate, Op, Locked, None
<1>1. TypeOK'
  BY DEF TypeOK, RoleInv
<1>2. RoleInv'
  BY DEF TypeOK, RoleInv
<1>3. GateInv'
  BY DEF TypeOK, RoleInv, GateInv
<1>4. FreshInv'
  BY DEF TypeOK, RoleInv, GateInv, FreshInv
<1> QED
  BY <1>1, <1>2, <1>3, <1>4

LEMMA PutIInv ==
    ASSUME IInv, NEW l \in Lookup, Put(l)
    PROVE  IInv'
<1> USE OpsAssumption, NoOpAssumption, VersionAssumption DEF IInv, Put, Leave, Goto, Op, Locked, None
<1>1. TypeOK'
  BY DEF TypeOK, RoleInv
<1>2. RoleInv'
  BY DEF TypeOK, RoleInv
<1>3. GateInv'
  BY DEF TypeOK, RoleInv, GateInv
<1>4. FreshInv'
  BY DEF TypeOK, RoleInv, GateInv, FreshInv
<1> QED
  BY <1>1, <1>2, <1>3, <1>4

LEMMA AbortIInv ==
    ASSUME IInv, NEW l \in Lookup, Abort(l)
    PROVE  IInv'
<1> USE OpsAssumption, NoOpAssumption, VersionAssumption DEF IInv, Abort, Leave, Goto, Op, Locked, None
<1>1. TypeOK'
  BY DEF TypeOK, RoleInv
<1>2. RoleInv'
  BY DEF TypeOK, RoleInv
<1>3. GateInv'
  BY DEF TypeOK, RoleInv, GateInv
<1>4. FreshInv'
  BY DEF TypeOK, RoleInv, GateInv, FreshInv
<1> QED
  BY <1>1, <1>2, <1>3, <1>4

LEMMA MutateIInv ==
    ASSUME IInv, NEW m \in Mutation, Mutate(m)
    PROVE  IInv'
<1> USE OpsAssumption, NoOpAssumption, VersionAssumption DEF IInv, Mutate, Enqueue, Goto, Op, Locked, None
<1>1. TypeOK'
  BY DEF TypeOK, RoleInv
<1>2. RoleInv'
  BY DEF TypeOK, RoleInv
<1>3. GateInv'
  BY DEF TypeOK, RoleInv, GateInv
<1>4. FreshInv'
  BY DEF TypeOK, RoleInv, GateInv, FreshInv
<1> QED
  BY <1>1, <1>2, <1>3, <1>4

LEMMA GrantWriteIInv ==
    ASSUME IInv, NEW m \in Mutation \cup {Events}, GrantWrite(m)
    PROVE  IInv'
<1> USE OpsAssumption, NoOpAssumption, VersionAssumption DEF IInv, GrantWrite, Goto, Op, Locked, None
<1>1. TypeOK'
  BY DEF TypeOK, RoleInv
<1>2. RoleInv'
  BY DEF TypeOK, RoleInv
<1>3. GateInv'
  BY DEF TypeOK, RoleInv, GateInv
<1>4. FreshInv'
  BY DEF TypeOK, RoleInv, GateInv, FreshInv
<1> QED
  BY <1>1, <1>2, <1>3, <1>4

LEMMA DetachIInv ==
    ASSUME IInv, NEW m \in Mutation, Detach(m)
    PROVE  IInv'
<1> USE OpsAssumption, NoOpAssumption, VersionAssumption DEF IInv, Detach, Goto, gate, Op, Locked, None
<1>1. TypeOK'
  BY DEF TypeOK, RoleInv
<1>2. RoleInv'
  BY DEF TypeOK, RoleInv
<1>3. GateInv'
  BY DEF TypeOK, RoleInv, GateInv
<1>4. FreshInv'
  BY DEF TypeOK, RoleInv, GateInv, FreshInv
<1> QED
  BY <1>1, <1>2, <1>3, <1>4

LEMMA CommitIInv ==
    ASSUME IInv, NEW m \in Mutation, Commit(m)
    PROVE  IInv'
<1> USE OpsAssumption, NoOpAssumption, VersionAssumption DEF IInv, Commit, gate, Op, Locked, None
<1>1. TypeOK'
  BY DEF TypeOK, RoleInv
<1>2. RoleInv'
  BY DEF TypeOK, RoleInv
<1>3. GateInv'
  BY DEF TypeOK, RoleInv, GateInv
<1>4. FreshInv'
  BY DEF TypeOK, RoleInv, GateInv, FreshInv
<1> QED
  BY <1>1, <1>2, <1>3, <1>4

LEMMA CommittedIInv ==
    ASSUME IInv, NEW m \in Mutation, Committed(m)
    PROVE  IInv'
<1> USE OpsAssumption, NoOpAssumption, VersionAssumption DEF IInv, Committed, Leave, Goto, Newer, Op, Locked, None
<1>1. TypeOK'
  BY DEF TypeOK, RoleInv
<1>2. RoleInv'
  BY DEF TypeOK, RoleInv
<1>3. GateInv'
  BY DEF TypeOK, RoleInv, GateInv
<1>4. FreshInv'
  BY DEF TypeOK, RoleInv, GateInv, FreshInv
<1> QED
  BY <1>1, <1>2, <1>3, <1>4

LEMMA FailedIInv ==
    ASSUME IInv, NEW m \in Mutation, Failed(m)
    PROVE  IInv'
<1> USE OpsAssumption, NoOpAssumption, VersionAssumption DEF IInv, Failed, Leave, Goto, Op, Locked, None
<1>1. TypeOK'
  BY DEF TypeOK, RoleInv
<1>2. RoleInv'
  BY DEF TypeOK, RoleInv
<1>3. GateInv'
  BY DEF TypeOK, RoleInv, GateInv
<1>4. FreshInv'
  BY DEF TypeOK, RoleInv, GateInv, FreshInv
<1> QED
  BY <1>1, <1>2, <1>3, <1>4

LEMMA CancelMutationIInv ==
    ASSUME IInv, NEW m \in Mutation, CancelMutation(m)
    PROVE  IInv'
<1> USE OpsAssumption, NoOpAssumption, VersionAssumption DEF IInv, CancelMutation, Leave, Goto, Op, Locked, None
<1>1. TypeOK'
  BY DEF TypeOK, RoleInv
<1>2. RoleInv'
  BY DEF TypeOK, RoleInv
<1>3. GateInv'
  BY DEF TypeOK, RoleInv, GateInv
<1>4. FreshInv'
  BY DEF TypeOK, RoleInv, GateInv, FreshInv
<1> QED
  BY <1>1, <1>2, <1>3, <1>4

LEMMA RemoteChangeIInv ==
    ASSUME IInv, RemoteChange
    PROVE  IInv'
<1> USE OpsAssumption, NoOpAssumption, VersionAssumption DEF IInv, RemoteChange, gate, Op, Locked, None
<1>1. TypeOK'
  BY DEF TypeOK, RoleInv
<1>2. RoleInv'
  BY DEF TypeOK, RoleInv
<1>3. GateInv'
  BY DEF TypeOK, RoleInv, GateInv
<1>4. FreshInv'
  BY DEF TypeOK, RoleInv, GateInv, FreshInv
<1> QED
  BY <1>1, <1>2, <1>3, <1>4

LEMMA TakeEventIInv ==
    ASSUME IInv, TakeEvent
    PROVE  IInv'
<1> USE OpsAssumption, NoOpAssumption, VersionAssumption DEF IInv, TakeEvent, Enqueue, Goto, Op, Locked, None
<1>1. TypeOK'
  BY DEF TypeOK, RoleInv
<1>2. RoleInv'
  BY DEF TypeOK, RoleInv
<1>3. GateInv'
  BY DEF TypeOK, RoleInv, GateInv
<1>4. FreshInv'
  BY DEF TypeOK, RoleInv, GateInv, FreshInv
<1> QED
  BY <1>1, <1>2, <1>3, <1>4

LEMMA ApplyEventIInv ==
    ASSUME IInv, ApplyEvent
    PROVE  IInv'
<1> USE OpsAssumption, NoOpAssumption, VersionAssumption DEF IInv, ApplyEvent, Leave, Goto, Newer, Op, Locked, None
<1>1. TypeOK'
  BY DEF TypeOK, RoleInv
<1>2. RoleInv'
  BY DEF TypeOK, RoleInv
<1>3. GateInv'
  BY DEF TypeOK, RoleInv, GateInv
<1>4. FreshInv'
  BY DEF TypeOK, RoleInv, GateInv, FreshInv
<1> QED
  BY <1>1, <1>2, <1>3, <1>4

-----------------------------------------------------------------------------
LEMMA NextIInv == IInv /\ [Next]_vars => IInv'
<1> SUFFICES ASSUME IInv, [Next]_vars PROVE IInv'
  OBVIOUS
<1>1. ASSUME NEW l \in Lookup, Call(l) \/ LookupStep(l) \/ Abort(l) PROVE IInv'
  BY <1>1, CallIInv, GrantReadIInv, HitIInv, MissIInv, AnswerIInv, PutIInv, AbortIInv
     DEF LookupStep
<1>2. ASSUME NEW m \in Mutation,
             Mutate(m) \/ MutationStep(m) \/ Commit(m) \/ CancelMutation(m)
      PROVE  IInv'
  BY <1>2, MutateIInv, GrantWriteIInv, DetachIInv, CommitIInv, CommittedIInv,
     FailedIInv, CancelMutationIInv DEF MutationStep
<1>3. CASE RemoteChange \/ TakeEvent \/ EventStep
  BY <1>3, RemoteChangeIInv, TakeEventIInv, GrantWriteIInv, ApplyEventIInv DEF EventStep
<1>4. CASE UNCHANGED vars
  BY <1>4 DEF vars, IInv, TypeOK, RoleInv, GateInv, FreshInv
<1> QED
  BY <1>1, <1>2, <1>3, <1>4 DEF Next

LEMMA Invariance == Spec => []IInv
BY InitIInv, NextIInv, PTL DEF Spec

\* context_share_id never leaves in the cache a context older than the last
\* invalidation.
THEOREM CacheFresh == Spec => []CacheNotBehind
<1>1. IInv => CacheNotBehind
  BY DEF IInv, FreshInv, CacheNotBehind
<1> QED
  BY <1>1, Invariance, PTL

\* What context_share_id returns is at least as new as the last invalidation
\* before the call.
THEOREM LookupsFresh == Spec => []LookupFresh
<1>1. ASSUME IInv PROVE LookupFresh
  <2> SUFFICES ASSUME NEW l \in Lookup
               PROVE  /\ (pc[l] = "reading" /\ cache # None) => cache >= since[l]
                      /\ pc[l] = "answered" => answer[l] >= since[l]
    BY DEF LookupFresh
  <2>1. since[l] \in Nat /\ known \in Nat /\ answer[l] \in Nat /\ cache \in {-1} \cup Nat
    BY <1>1 DEF IInv, TypeOK, None
  <2>2. since[l] <= known /\ (cache # None => cache >= known)
        /\ (pc[l] = "answered" => answer[l] >= known)
    BY <1>1 DEF IInv, FreshInv
  <2> QED
    BY <2>1, <2>2 DEF None
<1> QED
  BY <1>1, Invariance, PTL

\* run_context_share_mutation keeps lookups out and the cache empty for as long
\* as its request is out and awaited.
THEOREM MutationExcludes == Spec => []ExcludedDuringMutation
<1>1. IInv => ExcludedDuringMutation
  BY OpsAssumption, NoOpAssumption
     DEF IInv, TypeOK, Op, GateInv, FreshInv, ExcludedDuringMutation
<1> QED
  BY <1>1, Invariance, PTL

-----------------------------------------------------------------------------
(* URL tables and the session they share.                                  *)

Stages == {"idle", "get", "get again", "lock", "relocate"} \cup Listing \cup Final

TargetTypes ==
    /\ stage \in [Fetch -> Stages]
    /\ seen \in [Fetch -> Nat] /\ using \in [Fetch -> Nat] /\ bearer \in [Fetch -> Nat]
    /\ table \in [Table -> Nat] /\ refresh \in [Table -> Fetch \cup {NoFetch}]
    /\ live \in Nat /\ renewing \in Fetch \cup {NoFetch}
    /\ deadUrl \in [Table -> Nat] /\ deadSess \in Nat
    /\ lists \in [Table -> [Gen -> Nat]] /\ failed \in [Table -> [Gen -> Nat]]

\* The holder of a table's mutex is the fetch that lists it, and the generation it
\* is replacing is still in place; the holder of the session's mutex renews it.
MutexInv ==
    /\ \A f \in Fetch : refresh[TableOf[f]] = f <=> stage[f] \in Listing
    /\ \A f \in Fetch, t \in Table : refresh[t] = f => TableOf[f] = t
    /\ \A f \in Fetch : renewing = f <=> stage[f] = "renew"

\* How the generations a fetch has seen relate to those in place.
SeenInv ==
    /\ \A f \in Fetch : seen[f] <= table[TableOf[f]]
    /\ \A f \in Fetch : stage[f] \in Listing => seen[f] = table[TableOf[f]]
    /\ \A f \in Fetch : stage[f] = "relocate" => seen[f] < table[TableOf[f]]
    /\ \A f \in Fetch : stage[f] = "get again" => using[f] > seen[f]

\* A fetch that waits for the session, or renews it, has seen it die.
BearerInv ==
    /\ \A f \in Fetch : stage[f] \in {"expired", "renew"} => bearer[f] < deadSess
    /\ \A f \in Fetch : stage[f] = "renew" => bearer[f] = live

\* The listings of a generation: every one but the last has failed, and so has the
\* last when the generation is still in place and nobody lists it.
ListingInv ==
    /\ \A t \in Table, g \in Gen : lists[t][g] <= failed[t][g] + 1
    /\ \A t \in Table, g \in Gen :
         g > table[t] \/ (g = table[t] /\ refresh[t] = NoFetch) => lists[t][g] <= failed[t][g]

TargetInv == TargetTypes /\ MutexInv /\ SeenInv /\ BearerInv /\ ListingInv

LEMMA TargetInitInv == TargetsInit => TargetInv
BY FetchAssumption, DeathAssumption
   DEF TargetsInit, TargetInv, TargetTypes, MutexInv, SeenInv, BearerInv, ListingInv, Stages,
       Listing, Final, Gen

LEMMA GenIsNat == Gen \subseteq Nat
BY DeathAssumption DEF Gen

\* Counting one more listing of the generation a fetch has seen changes that count only.
LEMMA CountOne ==
    ASSUME NEW history \in [Table -> [Gen -> Nat]], NEW f \in Fetch, NEW t \in Table,
           t = TableOf[f]
    PROVE  /\ Count(history, f) \in [Table -> [Gen -> Nat]]
           /\ \A u \in Table, g \in Gen :
                Count(history, f)[u][g] = IF u = t /\ g = seen[f]
                                          THEN history[u][g] + 1 ELSE history[u][g]
<1>1. PICK s : s = seen[f]
  OBVIOUS
<1>2. PICK row \in [Gen -> Nat] : row = history[t]
  OBVIOUS
<1>3. PICK more : more = [row EXCEPT ![s] = @ + 1]
  OBVIOUS
<1>4. more = [g \in Gen |-> IF g = s THEN row[g] + 1 ELSE row[g]]
  BY <1>3
<1>5. Count(history, f) = [history EXCEPT ![t] = more]
  BY <1>1, <1>2, <1>3 DEF Count
<1>6. more \in [Gen -> Nat] /\ \A g \in Gen : more[g] = IF g = s THEN row[g] + 1 ELSE row[g]
  BY <1>4
<1> QED
  BY <1>1, <1>2, <1>5, <1>6

\* Steps that touch neither a mutex nor a table nor a count.
LEMMA TargetLocalInv ==
    ASSUME TargetInv, NEW f \in Fetch,
           \/ Locate(f) \/ GotBlock(f) \/ UrlRefused(f) \/ GetFails(f) \/ Relocate(f)
           \/ NextPage(f) \/ SessionGone(f)
    PROVE  TargetInv'
<1> USE DEF StageGoto, world, Current
<1>0. TableOf[f] \in Table
  BY FetchAssumption
<1>1. /\ UNCHANGED <<table, refresh, live, renewing, deadUrl, deadSess, lists, failed>>
      /\ stage[f] # "renew"
      /\ \E label \in Stages \ {"renew"} :
           /\ stage' = [stage EXCEPT ![f] = label]
           /\ label \in Listing <=> stage[f] \in Listing
  <2> USE DEF Stages, Listing, Final, StageGoto
  <2>1. CASE Locate(f) \/ GotBlock(f) \/ GetFails(f) \/ Relocate(f)
    BY <2>1 DEF Locate, GotBlock, GetFails, Relocate, world
  <2>2. CASE UrlRefused(f)
    <3>1. CASE stage[f] = "get"
      <4>1. stage' = [stage EXCEPT ![f] = "lock"]
        BY <2>2, <3>1 DEF UrlRefused
      <4> QED
        BY <2>2, <3>1, <4>1 DEF UrlRefused
    <3>2. CASE stage[f] = "get again"
      <4>1. stage' = [stage EXCEPT ![f] = "error"]
        BY <2>2, <3>2 DEF UrlRefused
      <4> QED
        BY <2>2, <3>2, <4>1 DEF UrlRefused
    <3> QED
      BY <2>2, <3>1, <3>2 DEF UrlRefused
  <2>3. CASE NextPage(f) \/ SessionGone(f)
    BY <2>3 DEF NextPage, SessionGone, world
  <2> QED
    BY <2>1, <2>2, <2>3
<1>2. seen' \in [Fetch -> Nat] /\ using' \in [Fetch -> Nat] /\ bearer' \in [Fetch -> Nat]
  BY <1>0 DEF TargetInv, TargetTypes, Locate, GotBlock, UrlRefused, GetFails, Relocate, NextPage,
              SessionGone
<1>3. TargetTypes'
  BY <1>1, <1>2 DEF TargetInv, TargetTypes
<1>4. MutexInv'
  BY <1>1 DEF TargetInv, TargetTypes, MutexInv
<1>5. SeenInv'
  <2>1. CASE Locate(f)
    <3>1. /\ seen' = [seen EXCEPT ![f] = table[TableOf[f]]] /\ UNCHANGED table
          /\ stage' = [stage EXCEPT ![f] = "get"]
      BY <2>1 DEF Locate
    <3>2. \A k \in Fetch \ {f} : seen'[k] = seen[k] /\ stage'[k] = stage[k] /\ using'[k] = using[k]
      BY <2>1 DEF Locate, TargetInv, TargetTypes
    <3>3. seen'[f] = table[TableOf[f]] /\ stage'[f] = "get" /\ table[TableOf[f]] \in Nat
      BY <3>1, <1>0 DEF TargetInv, TargetTypes
    <3>4. SeenInv
      BY DEF TargetInv
    <3> SUFFICES ASSUME NEW k \in Fetch
                 PROVE  /\ seen'[k] <= table[TableOf[k]]
                        /\ stage'[k] \in Listing => seen'[k] = table[TableOf[k]]
                        /\ stage'[k] = "relocate" => seen'[k] < table[TableOf[k]]
                        /\ stage'[k] = "get again" => using'[k] > seen'[k]
      BY <3>1 DEF SeenInv
    <3>5. CASE k = f
      <4>1. stage'[f] \notin Listing /\ stage'[f] # "relocate" /\ stage'[f] # "get again"
        BY <3>3 DEF Listing
      <4>2. seen'[f] <= table[TableOf[f]]
        BY <3>3
      <4> QED
        BY <4>1, <4>2, <3>5
    <3>6. CASE k # f
      BY <3>2, <3>4, <3>6 DEF SeenInv
    <3> QED
      BY <3>5, <3>6
  <2>2. CASE GotBlock(f) \/ GetFails(f) \/ UrlRefused(f)
    BY <2>2 DEF TargetInv, TargetTypes, SeenInv, GotBlock, GetFails, UrlRefused, Listing
  <2>3. CASE Relocate(f)
    BY <2>3, <1>0 DEF TargetInv, TargetTypes, SeenInv, Relocate, Listing
  <2>4. CASE NextPage(f) \/ SessionGone(f)
    BY <2>4 DEF TargetInv, TargetTypes, SeenInv, NextPage, SessionGone, Listing
  <2> QED
    BY <2>1, <2>2, <2>3, <2>4
<1>6. BearerInv'
  BY DEF TargetInv, TargetTypes, BearerInv, Locate, GotBlock, UrlRefused, GetFails, Relocate,
         NextPage, SessionGone
<1>7. ListingInv'
  BY <1>1 DEF TargetInv, ListingInv
<1> QED
  BY <1>3, <1>4, <1>5, <1>6, <1>7 DEF TargetInv

\* The table's mutex is taken, and the listing begins if the table is still the same.
LEMMA LockTableInv ==
    ASSUME TargetInv, NEW f \in Fetch, LockTable(f)
    PROVE  TargetInv'
<1>0. PICK t \in Table : t = TableOf[f]
  BY FetchAssumption
<1>1. CASE table[t] # seen[f]
  <2>1. /\ stage' = [stage EXCEPT ![f] = "relocate"] /\ stage[f] = "lock"
        /\ UNCHANGED <<seen, using, bearer, table, refresh, live, renewing, deadUrl, deadSess,
                       lists, failed>>
    BY <1>0, <1>1 DEF StageGoto, world, LockTable, Current
  <2>2. seen[f] < table[t]
    <3>1. seen[f] \in Nat /\ table[t] \in Nat
      BY DEF TargetInv, TargetTypes
    <3>2. seen[f] <= table[t]
      BY <1>0 DEF TargetInv, SeenInv
    <3> QED
      BY <1>1, <3>1, <3>2
  <2>3. TargetTypes'
    BY <2>1 DEF TargetInv, TargetTypes, Stages
  <2>6. MutexInv' /\ BearerInv'
    BY <2>1 DEF TargetInv, TargetTypes, MutexInv, BearerInv, Listing
  <2>4. SeenInv'
    BY <1>0, <2>1, <2>2 DEF TargetInv, TargetTypes, SeenInv, Listing
  <2>5. ListingInv'
    BY <2>1 DEF TargetInv, ListingInv
  <2> QED
    BY <2>3, <2>4, <2>5, <2>6 DEF TargetInv
<1>2. CASE table[t] = seen[f]
  <2>1. /\ stage' = [stage EXCEPT ![f] = "list"] /\ stage[f] = "lock"
        /\ refresh[t] = NoFetch /\ refresh' = [refresh EXCEPT ![t] = f]
        /\ bearer' = [bearer EXCEPT ![f] = live]
        /\ lists' = Count(lists, f)
        /\ UNCHANGED <<seen, using, table, live, renewing, deadUrl, deadSess, failed>>
    BY <1>0, <1>2 DEF BeginListing, StageGoto, world, LockTable, LockFree, Current
  <2>2. /\ lists' \in [Table -> [Gen -> Nat]]
        /\ \A u \in Table, g \in Gen :
             lists'[u][g] = IF u = t /\ g = seen[f] THEN lists[u][g] + 1 ELSE lists[u][g]
    <3>1. lists \in [Table -> [Gen -> Nat]]
      BY DEF TargetInv, TargetTypes
    <3> QED
      BY <1>0, <2>1, <3>1, CountOne
  <2>3. TargetTypes'
    BY <2>1, <2>2 DEF TargetInv, TargetTypes, Stages, Listing
  <2>4. MutexInv'
    BY <1>0, <2>1, FetchAssumption DEF TargetInv, TargetTypes, MutexInv, Listing
  <2>5. SeenInv' /\ BearerInv'
    BY <1>0, <1>2, <2>1 DEF TargetInv, TargetTypes, SeenInv, BearerInv, Listing
  <2>6. ListingInv'
    <3> SUFFICES ASSUME NEW u \in Table, NEW g \in Gen
                 PROVE  /\ lists'[u][g] <= failed'[u][g] + 1
                        /\ g > table'[u] \/ (g = table'[u] /\ refresh'[u] = NoFetch)
                           => lists'[u][g] <= failed'[u][g]
      BY DEF ListingInv
    <3>1. /\ g \in Nat /\ seen[f] \in Nat /\ lists[u][g] \in Nat /\ failed[u][g] \in Nat
          /\ table[u] \in Nat /\ f # NoFetch
      BY GenIsNat, FetchAssumption DEF TargetInv, TargetTypes
    <3>2. /\ lists[u][g] <= failed[u][g] + 1
          /\ g > table[u] \/ (g = table[u] /\ refresh[u] = NoFetch) => lists[u][g] <= failed[u][g]
      BY DEF TargetInv, ListingInv
    <3>3. u # t => refresh'[u] = refresh[u]
      BY <2>1 DEF TargetInv, TargetTypes
    <3>4. refresh'[t] = f
      BY <2>1 DEF TargetInv, TargetTypes
    <3> QED
      BY <1>2, <2>1, <2>2, <3>1, <3>2, <3>3, <3>4
  <2> QED
    BY <2>3, <2>4, <2>5, <2>6 DEF TargetInv
<1> QED
  BY <1>1, <1>2

\* The listing ends well: the generation is replaced and the mutex dropped.
LEMMA ListedInv ==
    ASSUME TargetInv, NEW f \in Fetch, Listed(f)
    PROVE  TargetInv'
<1>0. PICK t \in Table : t = TableOf[f]
  BY FetchAssumption
<1>1. /\ stage' = [stage EXCEPT ![f] = "relocate"] /\ stage[f] \in Listing /\ stage[f] # "renew"
      /\ table' = [table EXCEPT ![t] = @ + 1]
      /\ refresh[t] = f /\ refresh' = [refresh EXCEPT ![t] = NoFetch]
      /\ UNCHANGED <<seen, using, bearer, live, renewing, deadUrl, deadSess, lists, failed>>
  BY <1>0 DEF Listed, Unlock, StageGoto, world, Listing, TargetInv, TargetTypes, MutexInv
<1>2. TargetTypes'
  <2>1. table' \in [Table -> Nat] /\ refresh' \in [Table -> Fetch \cup {NoFetch}]
    BY <1>1 DEF TargetInv, TargetTypes
  <2> QED
    BY <1>1, <2>1 DEF TargetInv, TargetTypes, Stages
<1>3. MutexInv'
  BY <1>0, <1>1, FetchAssumption DEF TargetInv, TargetTypes, MutexInv, Listing
<1>4. BearerInv'
  BY <1>1 DEF TargetInv, TargetTypes, BearerInv
<1>5. SeenInv'
  <2> SUFFICES ASSUME NEW k \in Fetch
               PROVE  /\ seen[k] <= table'[TableOf[k]]
                      /\ stage'[k] \in Listing => seen[k] = table'[TableOf[k]]
                      /\ stage'[k] = "relocate" => seen[k] < table'[TableOf[k]]
                      /\ stage'[k] = "get again" => using[k] > seen[k]
    BY <1>1 DEF SeenInv
  <2>1. /\ TableOf[k] \in Table /\ seen[k] \in Nat /\ using[k] \in Nat
        /\ table[TableOf[k]] \in Nat
    BY FetchAssumption DEF TargetInv, TargetTypes
  <2>2. /\ seen[k] <= table[TableOf[k]]
        /\ stage[k] \in Listing => seen[k] = table[TableOf[k]]
        /\ stage[k] = "relocate" => seen[k] < table[TableOf[k]]
        /\ stage[k] = "get again" => using[k] > seen[k]
    BY DEF TargetInv, SeenInv
  <2>3. stage[k] \in Listing /\ TableOf[k] = t => k = f
    BY <1>0, <1>1 DEF TargetInv, MutexInv
  <2>4. table'[TableOf[k]] = IF TableOf[k] = t THEN table[t] + 1 ELSE table[TableOf[k]]
    BY <1>1, <2>1 DEF TargetInv, TargetTypes
  <2>5. stage'[k] = IF k = f THEN "relocate" ELSE stage[k]
    BY <1>1 DEF TargetInv, TargetTypes
  <2>6. "relocate" \notin Listing
    BY DEF Listing
  <2>7. seen[f] = table[t]
    BY <1>0, <1>1 DEF TargetInv, SeenInv
  <2>8. CASE k = f
    BY <1>0, <2>1, <2>4, <2>5, <2>6, <2>7, <2>8
  <2>9. CASE k # f
    <3>1. CASE TableOf[k] = t
      <4>1. stage'[k] = stage[k] /\ stage[k] \notin Listing
        BY <2>3, <2>5, <2>9, <3>1
      <4>2. table'[TableOf[k]] = table[TableOf[k]] + 1
        BY <2>4, <3>1
      <4>3. seen[k] < table'[TableOf[k]] /\ seen[k] <= table'[TableOf[k]]
        <5>1. PICK n \in Nat : n = table[TableOf[k]]
          BY <2>1
        <5>2. PICK m \in Nat : m = seen[k]
          BY <2>1
        <5>3. m <= n
          BY <2>2, <5>1, <5>2
        <5>4. table'[TableOf[k]] = n + 1
          BY <4>2, <5>1
        <5> QED
          BY <5>2, <5>3, <5>4
      <4> QED
        BY <2>2, <4>1, <4>3
    <3>2. CASE TableOf[k] # t
      BY <2>2, <2>4, <2>5, <2>9, <3>2
    <3> QED
      BY <3>1, <3>2
  <2> QED
    BY <2>8, <2>9
<1>6. ListingInv'
  <2> SUFFICES ASSUME NEW u \in Table, NEW g \in Gen
               PROVE  /\ lists[u][g] <= failed[u][g] + 1
                      /\ g > table'[u] \/ (g = table'[u] /\ refresh'[u] = NoFetch)
                         => lists[u][g] <= failed[u][g]
    BY <1>1 DEF ListingInv
  <2>1. /\ g \in Nat /\ table[u] \in Nat
        /\ table'[u] = IF u = t THEN table[u] + 1 ELSE table[u]
        /\ refresh'[u] = IF u = t THEN NoFetch ELSE refresh[u]
    BY <1>1, GenIsNat DEF TargetInv, TargetTypes
  <2>2. /\ lists[u][g] <= failed[u][g] + 1
        /\ g > table[u] \/ (g = table[u] /\ refresh[u] = NoFetch) => lists[u][g] <= failed[u][g]
    BY DEF TargetInv, ListingInv
  <2> QED
    BY <2>1, <2>2
<1> QED
  BY <1>2, <1>3, <1>4, <1>5, <1>6 DEF TargetInv

\* A fetch ends while it may hold either mutex: by an error of its listing, or dropped.
LEMMA LeaveInv ==
    ASSUME TargetInv, NEW f \in Fetch, ListFails(f) \/ DropFetch(f)
    PROVE  TargetInv'
<1>0. PICK t \in Table : t = TableOf[f]
  BY FetchAssumption
<1>1. PICK last \in Final : stage' = [stage EXCEPT ![f] = last]
  BY DEF ListFails, DropFetch, StageGoto, Final
<1>2. /\ failed' = IF stage[f] \in Listing THEN Count(failed, f) ELSE failed
      /\ refresh' = [refresh EXCEPT ![t] = IF @ = f THEN NoFetch ELSE @]
      /\ renewing' = IF renewing = f THEN NoFetch ELSE renewing
      /\ UNCHANGED <<seen, using, bearer, table, live, deadUrl, deadSess, lists>>
  BY <1>0 DEF ListFails, DropFetch, Unlock, world
<1>3. /\ failed' \in [Table -> [Gen -> Nat]]
      /\ \A u \in Table, g \in Gen :
           failed'[u][g] = IF stage[f] \in Listing /\ u = t /\ g = seen[f]
                           THEN failed[u][g] + 1 ELSE failed[u][g]
  <2>1. failed \in [Table -> [Gen -> Nat]]
    BY DEF TargetInv, TargetTypes
  <2> QED
    BY <1>0, <1>2, <2>1, CountOne
<1>4. TargetTypes'
  BY <1>1, <1>2, <1>3, FetchAssumption DEF TargetInv, TargetTypes, Stages
<1>5. last \notin Listing \cup {"renew", "expired", "relocate", "get again"}
  BY DEF Final, Listing
<1>6. MutexInv'
  <2>1. /\ \A u \in Table : refresh'[u] = IF u = t /\ refresh[u] = f THEN NoFetch ELSE refresh[u]
        /\ stage'[f] = last /\ \A k \in Fetch \ {f} : stage'[k] = stage[k]
        /\ NoFetch \notin Fetch /\ \A k \in Fetch : TableOf[k] \in Table
    BY <1>1, <1>2, FetchAssumption DEF TargetInv, TargetTypes
  <2>2. MutexInv
    BY DEF TargetInv
  <2>3. \A k \in Fetch : refresh'[TableOf[k]] = k <=> stage'[k] \in Listing
    <3>1. refresh'[TableOf[f]] # f /\ stage'[f] \notin Listing
      BY <1>0, <1>5, <2>1
    <3>2. ASSUME NEW k \in Fetch \ {f} PROVE refresh'[TableOf[k]] = k <=> refresh[TableOf[k]] = k
      BY <2>1
    <3> QED
      BY <2>1, <2>2, <3>1, <3>2 DEF MutexInv
  <2>4. \A k \in Fetch, u \in Table : refresh'[u] = k => TableOf[k] = u
    BY <2>1, <2>2 DEF MutexInv
  <2>5. \A k \in Fetch : renewing' = k <=> stage'[k] = "renew"
    BY <1>2, <1>5, <2>1, <2>2 DEF MutexInv
  <2> QED
    BY <2>3, <2>4, <2>5 DEF MutexInv
<1>7. SeenInv' /\ BearerInv'
  BY <1>1, <1>2, <1>5 DEF TargetInv, TargetTypes, SeenInv, BearerInv
<1>8. ListingInv'
  <2> SUFFICES ASSUME NEW u \in Table, NEW g \in Gen
               PROVE  /\ lists[u][g] <= failed'[u][g] + 1
                      /\ g > table[u] \/ (g = table[u] /\ refresh'[u] = NoFetch)
                         => lists[u][g] <= failed'[u][g]
    BY <1>2 DEF ListingInv
  <2>1. /\ g \in Nat /\ table[u] \in Nat /\ lists[u][g] \in Nat /\ failed[u][g] \in Nat
        /\ refresh'[u] = IF u = t /\ refresh[u] = f THEN NoFetch ELSE refresh[u]
    BY <1>2, GenIsNat DEF TargetInv, TargetTypes
  <2>2. /\ lists[u][g] <= failed[u][g] + 1
        /\ g > table[u] \/ (g = table[u] /\ refresh[u] = NoFetch) => lists[u][g] <= failed[u][g]
    BY DEF TargetInv, ListingInv
  <2>3. /\ refresh[t] = f <=> stage[f] \in Listing
        /\ stage[f] \in Listing => seen[f] = table[t]
    BY <1>0 DEF TargetInv, MutexInv, SeenInv
  <2> QED
    BY <1>3, <2>1, <2>2, <2>3
<1> QED
  BY <1>4, <1>6, <1>7, <1>8 DEF TargetInv

\* The session: found renewed by somebody, or renewed now.
LEMMA SessionInv ==
    ASSUME TargetInv, NEW f \in Fetch, LockSession(f) \/ Renewed(f)
    PROVE  TargetInv'
<1> USE DEF StageGoto, world
<1>1. UNCHANGED <<seen, using, table, refresh, deadUrl, deadSess, lists, failed>>
  BY DEF LockSession, Renewed
<1>2. TargetTypes'
  <2>1. stage' \in [Fetch -> Stages]
    BY DEF TargetInv, TargetTypes, Stages, Listing, LockSession, Renewed
  <2>2. bearer' \in [Fetch -> Nat] /\ live' \in Nat /\ renewing' \in Fetch \cup {NoFetch}
    <3>1. CASE LockSession(f)
      BY <3>1 DEF TargetInv, TargetTypes, LockSession
    <3>2. CASE Renewed(f)
      BY <3>2 DEF TargetInv, TargetTypes, Renewed
    <3> QED
      BY <3>1, <3>2
  <2> QED
    BY <1>1, <2>1, <2>2 DEF TargetInv, TargetTypes
<1>3. MutexInv'
  <2>1. /\ stage[f] \in Listing /\ stage'[f] \in Listing
        /\ \A k \in Fetch \ {f} : stage'[k] = stage[k]
    BY DEF TargetInv, TargetTypes, Listing, LockSession, Renewed
  <2>2. /\ renewing \in {f, NoFetch} /\ renewing' \in {f, NoFetch}
        /\ renewing' = f <=> stage'[f] = "renew"
    BY FetchAssumption DEF TargetInv, TargetTypes, MutexInv, LockSession, Renewed
  <2> QED
    BY <1>1, <2>1, <2>2, FetchAssumption DEF TargetInv, MutexInv
<1>4. SeenInv'
  BY <1>1 DEF TargetInv, TargetTypes, SeenInv, Listing, LockSession, Renewed
<1>5. BearerInv'
  <2>1. CASE LockSession(f)
    BY <2>1 DEF TargetInv, TargetTypes, BearerInv, LockSession
  <2>2. CASE Renewed(f)
    <3>1. \A k \in Fetch \ {f} : stage'[k] = stage[k] /\ bearer'[k] = bearer[k] /\ stage[k] # "renew"
      BY <2>2, FetchAssumption DEF TargetInv, TargetTypes, MutexInv, Renewed
    <3>2. stage'[f] = "relist"
      BY <2>2 DEF TargetInv, TargetTypes, Renewed
    <3> QED
      BY <1>1, <3>1, <3>2 DEF TargetInv, BearerInv
  <2> QED
    BY <2>1, <2>2
<1>6. ListingInv'
  BY <1>1 DEF TargetInv, ListingInv
<1> QED
  BY <1>2, <1>3, <1>4, <1>5, <1>6 DEF TargetInv

\* The world: what the server accepts only shrinks.
LEMMA ExpiryInv ==
    ASSUME TargetInv, ExpireSession \/ \E t \in Table : ExpireUrls(t)
    PROVE  TargetInv'
<1>1. /\ UNCHANGED <<stage, seen, using, bearer, table, refresh, live, renewing, lists, failed>>
      /\ deadUrl' \in [Table -> Nat] /\ deadSess' \in Nat /\ deadSess' >= deadSess
  BY DEF ExpireSession, ExpireUrls, TargetInv, TargetTypes
<1>2. BearerInv'
  BY <1>1 DEF TargetInv, TargetTypes, BearerInv
<1>3. TargetTypes' /\ MutexInv' /\ SeenInv' /\ ListingInv'
  BY <1>1 DEF TargetInv, TargetTypes, MutexInv, SeenInv, ListingInv
<1> QED
  BY <1>2, <1>3 DEF TargetInv

LEMMA TargetStepInv == TargetInv /\ [TargetsNext]_targetVars => TargetInv'
<1> SUFFICES ASSUME TargetInv, [TargetsNext]_targetVars PROVE TargetInv'
  OBVIOUS
<1>1. CASE ExpireSession \/ \E t \in Table : ExpireUrls(t)
  BY <1>1, ExpiryInv
<1>2. ASSUME NEW f \in Fetch, Locate(f) \/ TargetStep(f) \/ DropFetch(f) PROVE TargetInv'
  BY <1>2, TargetLocalInv, LockTableInv, ListedInv, LeaveInv, SessionInv DEF TargetStep
<1>3. CASE UNCHANGED targetVars
  BY <1>3 DEF targetVars, TargetInv, TargetTypes, MutexInv, SeenInv, BearerInv, ListingInv
<1> QED
  BY <1>1, <1>2, <1>3 DEF TargetsNext

\* BlockTargets::refresh and PublicLinkSession::renew: however many fetches of however
\* many open revisions find URLs or the session expired, each generation is renewed
\* once unless the renewal fails, the session only when it has died, and the second
\* try of ciphertext uses a newer URL.
THEOREM RenewedOncePerDeath == TargetsSpec => RenewedOnce
<1>1. TargetInv => TargetsRenewed
  BY DEF TargetInv, ListingInv, SeenInv, TargetsRenewed
<1>2. TargetInv /\ [TargetsNext]_targetVars => [live' # live => deadSess > live]_targetVars
  <2> SUFFICES ASSUME TargetInv, TargetsNext, live' # live PROVE deadSess > live
    OBVIOUS
  <2>1. PICK f \in Fetch : Renewed(f)
    BY DEF TargetsNext, TargetStep, ExpireSession, ExpireUrls, Locate, GotBlock, UrlRefused,
           GetFails, Relocate, LockTable, NextPage, Listed, ListFails, SessionGone, LockSession,
           DropFetch
  <2> QED
    BY <2>1 DEF Renewed, TargetInv, TargetTypes, BearerInv
<1> QED
  BY <1>1, <1>2, TargetInitInv, TargetStepInv, PTL
     DEF TargetsSpec, RenewedOnce, RenewedOnlyWhenDead

-----------------------------------------------------------------------------
(* The posts of a batch.                                                   *)

Working == {j \in Job : job[j] \in Active}

PostTypes ==
    /\ job \in [Job -> {"idle", "stored", "ended"} \cup Active]
    /\ want \in [Job -> Nat] /\ units \in Int
    /\ solo \in [Job -> BOOLEAN] /\ downshifted \in BOOLEAN
    /\ aim \in [Job -> Nat] /\ deadAim \in [Job -> Nat]

\* buffer_unordered keeps at most Width jobs under way ...
WidthInv == IsFiniteSet(Working) /\ Cardinality(Working) <= Width

\* ... so before the first timeout nobody has to wait for a unit, and whoever waits
\* after it waits for all units.
QueueInv ==
    /\ ~downshifted => line = <<>>
    /\ \A j \in Job : job[j] = "queued" => downshifted /\ want[j] = Width

\* The units taken are those of the posts under way: one for each, or all for a post
\* that runs alone.
UnitsInv ==
    /\ \A j \in Posting : want[j] = IF solo[j] THEN Width ELSE 1
    /\ \A j \in Posting : solo[j] => downshifted /\ Posting = {j} /\ units = 0
    /\ (\A j \in Posting : ~solo[j]) => units = Width - Cardinality(Posting)

\* A content block aims past the target last reported as expired, unless it is
\* about to be prepared again or the batch has failed.
AimInv ==
    \A j \in Content : /\ deadAim[j] <= aim[j]
                       /\ job[j] \notin {"prepare", "ended"} => deadAim[j] < aim[j]

PostInv == PostTypes /\ WidthInv /\ QueueInv /\ UnitsInv /\ AimInv

LEMMA PostInitInv == PostInit => PostInv
<1> SUFFICES ASSUME PostInit PROVE PostInv
  OBVIOUS
<1>1. PostTypes
  <2>1. Width \in Nat
    BY UploadAssumption
  <2>2. solo \in [Job -> BOOLEAN] /\ downshifted \in BOOLEAN
    BY DEF PostInit
  <2>3. job \in [Job -> {"idle", "stored", "ended"} \cup Active]
    BY DEF PostInit
  <2>4. want \in [Job -> Nat] /\ units \in Int /\ aim \in [Job -> Nat] /\ deadAim \in [Job -> Nat]
    BY <2>1 DEF PostInit
  <2> QED
    BY <2>2, <2>3, <2>4 DEF PostTypes
<1>2. Working = {} /\ Posting = {}
  BY DEF PostInit, Working, Posting, Active
<1>3. WidthInv
  BY <1>2, FS_EmptySet, UploadAssumption DEF WidthInv
<1>4. UnitsInv
  BY <1>2, FS_EmptySet, UploadAssumption DEF UnitsInv, PostInit
<1>5. QueueInv /\ AimInv
  BY DEF QueueInv, AimInv, PostInit, Job
<1> QED
  BY <1>1, <1>3, <1>4, <1>5 DEF PostInv

\* The posts are some of the jobs under way.
LEMMA PostingCount ==
    ASSUME PostInv
    PROVE  /\ IsFiniteSet(Posting) /\ Cardinality(Posting) \in Nat
           /\ \A j \in Working \ Posting : Cardinality(Posting) < Width
<1>1. Posting \subseteq Working
  BY DEF Posting, Working, Active
<1>2. IsFiniteSet(Posting) /\ Cardinality(Posting) \in Nat
  BY <1>1, FS_Subset, FS_CardinalityType DEF PostInv, WidthInv
<1>3. ASSUME NEW j \in Working \ Posting PROVE Cardinality(Posting) < Width
  <2>1. Cardinality(Posting) < Cardinality(Working)
    <3>1. Cardinality(Posting) <= Cardinality(Working) /\ Posting # Working
      BY <1>1, <1>3, FS_Subset DEF PostInv, WidthInv
    <3>2. Cardinality(Posting) # Cardinality(Working)
      BY <1>1, <3>1, FS_Subset DEF PostInv, WidthInv
    <3>3. Cardinality(Working) \in Nat
      BY FS_CardinalityType DEF PostInv, WidthInv
    <3> QED
      BY <1>2, <3>1, <3>2, <3>3
  <2>2. Cardinality(Working) \in Nat
    BY FS_CardinalityType DEF PostInv, WidthInv
  <2> QED
    BY <1>2, <2>1, <2>2, UploadAssumption DEF PostInv, WidthInv
<1> QED
  BY <1>2, <1>3

\* Who can have all units has them alone.
LEMMA AllUnitsFree ==
    ASSUME PostInv, units >= Width
    PROVE  Posting = {}
<1>1. Cardinality(Posting) \in Nat /\ IsFiniteSet(Posting)
  BY PostingCount
<1>2. \A j \in Posting : ~solo[j]
  BY UploadAssumption DEF PostInv, UnitsInv
<1>3. units = Width - Cardinality(Posting)
  BY <1>2 DEF PostInv, UnitsInv
<1>4. Cardinality(Posting) = 0
  BY <1>1, <1>3, UploadAssumption DEF PostInv, PostTypes
<1> QED
  BY <1>1, <1>4, FS_EmptySet

\* The post of a job under way begins: with all units after a timeout, else with one.
LEMMA BeginUnits ==
    ASSUME PostInv, NEW j \in Job, job[j] # "posting", NEW n,
           n = (IF downshifted THEN Width ELSE 1), units >= n,
           Begin(j, n), want' = [want EXCEPT ![j] = n], UNCHANGED downshifted
    PROVE  UnitsInv'
<1>1. Posting' = Posting \cup {j} /\ j \notin Posting
  BY DEF Posting, Begin, Move, PostInv, PostTypes
<1>2. /\ \A k \in Posting : want'[k] = want[k] /\ solo'[k] = solo[k]
      /\ want'[j] = n /\ solo'[j] = downshifted
  BY <1>1 DEF Begin, PostInv, PostTypes, Posting
<1>3. CASE downshifted
  <2>1. Posting = {}
    BY <1>3, AllUnitsFree
  <2>2. units = Width /\ units' = 0
    BY <1>3, <2>1, FS_EmptySet, UploadAssumption DEF Begin, PostInv, UnitsInv
  <2> QED
    BY <1>1, <1>2, <1>3, <2>1, <2>2 DEF UnitsInv
<1>4. CASE ~downshifted
  <2>1. \A k \in Posting : ~solo[k]
    BY <1>4 DEF PostInv, UnitsInv
  <2>2. units = Width - Cardinality(Posting) /\ units' = units - 1
    BY <1>4, <2>1 DEF PostInv, UnitsInv, Begin
  <2>3. Cardinality(Posting') = Cardinality(Posting) + 1 /\ Cardinality(Posting) \in Nat
    BY <1>1, PostingCount, FS_AddElement
  <2>4. units' = Width - Cardinality(Posting')
    BY <2>2, <2>3, UploadAssumption
  <2>5. \A k \in Posting' : ~solo'[k] /\ want'[k] = 1
    BY <1>1, <1>2, <1>4, <2>1 DEF PostInv, UnitsInv
  <2> QED
    BY <2>4, <2>5 DEF UnitsInv
<1> QED
  BY <1>3, <1>4

\* A post ends and gives back what it took.
LEMMA ReleaseUnits ==
    ASSUME PostInv, NEW j \in Job, NEW label, label # "posting",
           job[j] = "posting", ReleaseSlot(j), Move(j, label), UNCHANGED <<want, solo>>,
           downshifted => downshifted'
    PROVE  UnitsInv'
<1>1. Posting' = Posting \ {j} /\ j \in Posting
  BY DEF Posting, Move, PostInv, PostTypes
<1>2. CASE solo[j]
  <2>1. Posting' = {} /\ units' = Width
    BY <1>1, <1>2, UploadAssumption DEF PostInv, UnitsInv, ReleaseSlot
  <2> QED
    BY <2>1, FS_EmptySet, UploadAssumption DEF UnitsInv
<1>3. CASE ~solo[j]
  <2>1. \A k \in Posting : ~solo[k]
    BY <1>1, <1>3 DEF PostInv, UnitsInv
  <2>2. units = Width - Cardinality(Posting) /\ units' = units + 1
    BY <1>1, <1>3, <2>1 DEF PostInv, UnitsInv, ReleaseSlot
  <2>3. Cardinality(Posting') = Cardinality(Posting) - 1 /\ Cardinality(Posting) \in Nat
    BY <1>1, PostingCount, FS_RemoveElement
  <2>4. units' = Width - Cardinality(Posting')
    BY <2>2, <2>3, UploadAssumption
  <2>5. \A k \in Posting' : ~solo'[k] /\ want'[k] = 1
    BY <1>1, <2>1 DEF PostInv, UnitsInv
  <2> QED
    BY <2>4, <2>5 DEF UnitsInv
<1> QED
  BY <1>2, <1>3

\* The batch fails: nothing is under way any more.
LEMMA BatchFailsInv ==
    ASSUME PostInv, BatchFails
    PROVE  PostInv'
<1>1. Working' = {} /\ Posting' = {}
  BY DEF BatchFails, Working, Posting, Active
<1>2. PostTypes'
  BY UploadAssumption DEF PostInv, PostTypes, BatchFails
<1>3. WidthInv' /\ UnitsInv'
  BY <1>1, FS_EmptySet, UploadAssumption DEF BatchFails, WidthInv, UnitsInv
<1>4. QueueInv' /\ AimInv'
  <2>1. \A j \in Job : job'[j] \in {"stored", "ended"} /\ (job'[j] = "stored" => job[j] = "stored")
    BY DEF BatchFails
  <2> QED
    BY <2>1 DEF BatchFails, PostInv, QueueInv, AimInv, Job
<1> QED
  BY <1>2, <1>3, <1>4 DEF PostInv

\* A job starts, or is prepared again.
LEMMA StartInv ==
    ASSUME PostInv, NEW j \in Job, StartJob(j) \/ PreparedPost(j)
    PROVE  PostInv'
<1>1. /\ job' = [job EXCEPT ![j] = "try"] /\ job[j] \in {"idle", "prepare"}
      /\ UNCHANGED <<want, line, units, downshifted, deadAim, solo>>
      /\ aim' = aim \/ (job[j] = "prepare" /\ aim' = [aim EXCEPT ![j] = @ + 1])
      /\ job[j] = "prepare" => aim' = [aim EXCEPT ![j] = @ + 1]
  BY DEF StartJob, PreparedPost, Move
<1>2. PostTypes'
  BY <1>1 DEF PostInv, PostTypes, Active
<1>3. Posting' = Posting /\ UnitsInv'
  <2>1. Posting' = Posting
    BY <1>1 DEF Posting, PostInv, PostTypes
  <2> QED
    BY <1>1, <2>1 DEF PostInv, UnitsInv
<1>4. WidthInv'
  <2>1. CASE StartJob(j)
    <3>1. Working' = Working \cup {j} /\ j \notin Working
      BY <2>1, <1>1 DEF Working, Active, PostInv, PostTypes, StartJob
    <3>2. Cardinality(Working) < Width
      BY <2>1 DEF StartJob, Working
    <3>3. IsFiniteSet(Working') /\ Cardinality(Working') = Cardinality(Working) + 1
      BY <3>1, FS_AddElement DEF PostInv, WidthInv
    <3>4. Cardinality(Working) \in Nat
      BY FS_CardinalityType DEF PostInv, WidthInv
    <3> QED
      BY <3>2, <3>3, <3>4, UploadAssumption DEF WidthInv
  <2>2. CASE PreparedPost(j)
    <3>1. Working' = Working
      BY <2>2, <1>1 DEF Working, Active, PostInv, PostTypes, PreparedPost
    <3> QED
      BY <3>1 DEF PostInv, WidthInv
  <2> QED
    BY <2>1, <2>2
<1>5. QueueInv'
  BY <1>1 DEF PostInv, PostTypes, QueueInv
<1>6. AimInv'
  <2> SUFFICES ASSUME NEW k \in Content
               PROVE  /\ deadAim[k] <= aim'[k]
                      /\ job'[k] \notin {"prepare", "ended"} => deadAim[k] < aim'[k]
    BY <1>1 DEF AimInv
  <2>1. k \in Job /\ aim[k] \in Nat /\ deadAim[k] \in Nat
    BY DEF Job, PostInv, PostTypes
  <2>2. deadAim[k] <= aim[k] /\ (job[k] \notin {"prepare", "ended"} => deadAim[k] < aim[k])
    BY DEF PostInv, AimInv
  <2>3. CASE k = j
    BY <1>1, <2>1, <2>2, <2>3 DEF PostInv, PostTypes
  <2>4. CASE k # j
    BY <1>1, <2>1, <2>2, <2>4 DEF PostInv, PostTypes
  <2> QED
    BY <2>3, <2>4
<1> QED
  BY <1>2, <1>3, <1>4, <1>5, <1>6 DEF PostInv

\* A job asks the limiter, or is served by it.
LEMMA AcquireInv ==
    ASSUME PostInv, NEW j \in Job, Acquire(j) \/ Served(j)
    PROVE  PostInv'
<1>1. PICK n \in Nat : n = IF downshifted THEN Width ELSE 1
  BY UploadAssumption
<1>2. Wanted = n
  BY <1>1 DEF Wanted
<1>3. /\ job[j] \in {"try", "queued"}
      /\ job' = [job EXCEPT ![j] = "posting"] \/ job' = [job EXCEPT ![j] = "queued"]
      /\ want' = [want EXCEPT ![j] = n]
      /\ UNCHANGED <<downshifted, aim, deadAim>>
  <2>1. CASE Acquire(j)
    BY <1>2, <2>1 DEF Acquire, Begin, Move
  <2>2. CASE Served(j)
    <3>1. want[j] = n
      BY <1>1, <2>2 DEF Served, PostInv, QueueInv
    <3>2. want' = [want EXCEPT ![j] = n]
      BY <2>2, <3>1 DEF Served, PostInv, PostTypes
    <3> QED
      BY <2>2, <3>2 DEF Served, Begin, Move
  <2> QED
    BY <2>1, <2>2
<1>4. Working' = Working
  BY <1>3 DEF Working, Active, PostInv, PostTypes
<1>5. WidthInv'
  BY <1>4 DEF PostInv, WidthInv
<1>6. AimInv'
  BY <1>3 DEF PostInv, PostTypes, AimInv, Job
<1>7. \/ Begin(j, n) /\ units >= n /\ (line' = line \/ downshifted)
      \/ downshifted /\ job' = [job EXCEPT ![j] = "queued"] /\ UNCHANGED <<units, solo>>
  <2>1. CASE Served(j)
    <3>1. downshifted /\ want[j] = n
      BY <1>1, <2>1 DEF Served, PostInv, QueueInv
    <3> QED
      BY <2>1, <3>1 DEF Served
  <2>2. CASE Acquire(j) /\ line = <<>> /\ units >= n
    BY <1>2, <2>2 DEF Acquire
  <2>3. CASE Acquire(j) /\ ~(line = <<>> /\ units >= n)
    <3>1. job' = [job EXCEPT ![j] = "queued"] /\ UNCHANGED <<units, solo>>
      BY <1>2, <2>3 DEF Acquire, Move
    <3>2. ASSUME ~downshifted PROVE FALSE
      <4>1. line = <<>> /\ n = 1
        BY <1>1, <3>2 DEF PostInv, QueueInv
      <4>2. units = Width - Cardinality(Posting)
        BY <3>2 DEF PostInv, UnitsInv
      <4>3. Cardinality(Posting) < Width /\ Cardinality(Posting) \in Nat
        <5>1. j \in Working \ Posting
          BY <2>3 DEF Acquire, Working, Posting, Active
        <5> QED
          BY <5>1, PostingCount
      <4> QED
        BY <2>3, <4>1, <4>2, <4>3, UploadAssumption
    <3> QED
      BY <3>1, <3>2
  <2> QED
    BY <2>1, <2>2, <2>3
<1>8. CASE Begin(j, n) /\ units >= n /\ (line' = line \/ downshifted)
  <2>1. UnitsInv'
    BY <1>1, <1>3, <1>8, BeginUnits
  <2>2. job' = [job EXCEPT ![j] = "posting"]
    BY <1>8 DEF Begin, Move
  <2>3. PostTypes'
    <3>1. units' \in Int /\ want' \in [Job -> Nat]
      BY <1>3, <1>8 DEF Begin, PostInv, PostTypes
    <3>2. solo' \in [Job -> BOOLEAN]
      BY <1>8 DEF Begin, PostInv, PostTypes
    <3> QED
      BY <1>3, <2>2, <3>1, <3>2 DEF PostInv, PostTypes, Active
  <2>4. QueueInv'
    BY <1>3, <1>8, <2>2 DEF PostInv, PostTypes, QueueInv
  <2> QED
    BY <1>5, <1>6, <2>1, <2>3, <2>4 DEF PostInv
<1>9. CASE downshifted /\ job' = [job EXCEPT ![j] = "queued"] /\ UNCHANGED <<units, solo>>
  <2>1. PostTypes'
    BY <1>3, <1>9 DEF PostInv, PostTypes, Active
  <2>2. Posting' = Posting /\ j \notin Posting
    BY <1>3, <1>9 DEF Posting, PostInv, PostTypes
  <2>3. UnitsInv'
    <3>1. \A k \in Posting : want'[k] = want[k]
      BY <1>3, <2>2 DEF Posting, PostInv, PostTypes
    <3> QED
      BY <1>3, <1>9, <2>2, <3>1 DEF PostInv, UnitsInv
  <2>4. QueueInv'
    <3>1. n = Width
      BY <1>1, <1>9
    <3> QED
      BY <1>3, <1>9, <3>1 DEF PostInv, PostTypes, QueueInv
  <2> QED
    BY <1>5, <1>6, <2>1, <2>3, <2>4 DEF PostInv
<1> QED
  BY <1>7, <1>8, <1>9

\* A post ends, well or with an error worth another attempt.
LEMMA PostEndsInv ==
    ASSUME PostInv, NEW j \in Job,
           Stored(j) \/ \E e \in {"timeout", "expired", "transient", "permanent"} : RetryAfter(j, e)
    PROVE  PostInv'
<1>1. PICK label \in {"stored", "try", "prepare"} :
        /\ job[j] = "posting" /\ ReleaseSlot(j) /\ Move(j, label)
        /\ UNCHANGED <<want, line, aim, solo>>
        /\ downshifted' \in BOOLEAN /\ (downshifted => downshifted')
        /\ \/ deadAim' = deadAim
           \/ deadAim' = [deadAim EXCEPT ![j] = aim[j]] /\ (j \in Content => label = "prepare")
  <2>1. CASE Stored(j)
    BY <2>1 DEF Stored, PostInv, PostTypes
  <2>2. ASSUME NEW e \in {"timeout", "expired", "transient", "permanent"}, RetryAfter(j, e)
        PROVE  LET label == AfterError(j, e) IN
                 /\ label \in {"stored", "try", "prepare"}
                 /\ job[j] = "posting" /\ ReleaseSlot(j) /\ Move(j, label)
                 /\ UNCHANGED <<want, line, aim, solo>>
                 /\ downshifted' \in BOOLEAN /\ (downshifted => downshifted')
                 /\ \/ deadAim' = deadAim
                    \/ deadAim' = [deadAim EXCEPT ![j] = aim[j]] /\ (j \in Content => label = "prepare")
    BY <2>2 DEF RetryAfter, AfterError, PostInv, PostTypes
  <2> QED
    BY <2>1, <2>2
<1>2. UnitsInv'
  BY <1>1, ReleaseUnits
<1>3. job' = [job EXCEPT ![j] = label]
  BY <1>1 DEF Move
<1>4. PostTypes'
  <2>1. units' \in Int
    BY <1>1 DEF ReleaseSlot, PostInv, PostTypes
  <2>2. deadAim' \in [Job -> Nat]
    BY <1>1 DEF PostInv, PostTypes
  <2>3. job' \in [Job -> {"idle", "stored", "ended"} \cup Active]
    BY <1>3 DEF PostInv, PostTypes, Active
  <2> QED
    BY <1>1, <2>1, <2>2, <2>3 DEF PostInv, PostTypes
<1>5. WidthInv'
  <2>1. Working' \subseteq Working
    BY <1>1, <1>3 DEF Working, Active, PostInv, PostTypes
  <2>2. IsFiniteSet(Working) /\ Cardinality(Working) \in Nat /\ Cardinality(Working) <= Width
    BY FS_CardinalityType DEF PostInv, WidthInv
  <2>3. IsFiniteSet(Working') /\ Cardinality(Working') <= Cardinality(Working)
    BY <2>1, <2>2, FS_Subset
  <2>4. Cardinality(Working') \in Nat
    BY <2>3, FS_CardinalityType
  <2> QED
    BY <2>2, <2>3, <2>4, UploadAssumption DEF WidthInv
<1>6. QueueInv'
  <2>1. \A k \in Job : job'[k] = "queued" => job[k] = "queued"
    BY <1>1, <1>3 DEF PostInv, PostTypes
  <2> QED
    BY <1>1, <2>1 DEF PostInv, QueueInv
<1>7. AimInv'
  <2> SUFFICES ASSUME NEW k \in Content
               PROVE  /\ deadAim'[k] <= aim[k]
                      /\ job'[k] \notin {"prepare", "ended"} => deadAim'[k] < aim[k]
    BY <1>1 DEF AimInv
  <2>1. k \in Job /\ aim[k] \in Nat /\ deadAim[k] \in Nat
    BY DEF Job, PostInv, PostTypes
  <2>2. deadAim[k] <= aim[k] /\ (job[k] \notin {"prepare", "ended"} => deadAim[k] < aim[k])
    BY DEF PostInv, AimInv
  <2>3. CASE k = j
    BY <1>1, <1>3, <2>1, <2>2, <2>3 DEF PostInv, PostTypes
  <2>4. CASE k # j
    BY <1>1, <1>3, <2>1, <2>2, <2>4 DEF PostInv, PostTypes
  <2> QED
    BY <2>3, <2>4
<1> QED
  BY <1>2, <1>4, <1>5, <1>6, <1>7 DEF PostInv

LEMMA PostStepInv == PostInv /\ [PostNext]_postVars => PostInv'
<1> SUFFICES ASSUME PostInv, [PostNext]_postVars PROVE PostInv'
  OBVIOUS
<1>1. ASSUME NEW j \in Job, JobStep(j) PROVE PostInv'
  BY <1>1, StartInv, AcquireInv, PostEndsInv, BatchFailsInv DEF JobStep, GiveUp, PrepareFails
<1>2. CASE UNCHANGED postVars
  BY <1>2 DEF postVars, PostInv, PostTypes, WidthInv, QueueInv, UnitsInv, AimInv, Working, Posting
<1> QED
  BY <1>1, <1>2 DEF PostNext

\* upload_one_block: whatever the width, the number of blocks and the errors of their
\* posts, a post begun after a timeout has the limiter to itself, and no content block
\* is posted to a target whose token was reported expired.
THEOREM RetriesBehaveAlways == PostInit /\ [][PostNext]_postVars => []RetriesBehave
<1>1. PostInv => RetriesBehave
  <2> SUFFICES ASSUME PostInv PROVE RetriesBehave
    OBVIOUS
  <2>1. \A j \in Posting : solo[j] => Posting = {j}
    BY DEF PostInv, UnitsInv
  <2>2. ASSUME NEW j \in Content, job[j] = "posting" PROVE aim[j] # deadAim[j]
    BY <2>2 DEF PostInv, PostTypes, AimInv, Job
  <2> QED
    BY <2>1, <2>2 DEF RetriesBehave
<1> QED
  BY <1>1, PostInitInv, PostStepInv, PTL

-----------------------------------------------------------------------------
\* SharedState implements its parts: every one of its behaviours is one of the gate,
\* one of the tables, one of the batch and one of the transfers.
THEOREM SharedImplementsParts ==
    SharedSpec => Spec /\ TargetsSpec /\ PostInit /\ [][PostNext]_postVars /\ TransfersSpec
<1>1. SharedInit => Init /\ TargetsInit /\ PostInit /\ TransfersInit
  BY DEF SharedInit
<1>2. [SharedNext]_sharedVars =>
        /\ [Next]_vars /\ [TargetsNext]_targetVars /\ [PostNext]_postVars
        /\ [TransfersNext]_transferVars
  BY DEF SharedNext, sharedVars
<1> QED
  BY <1>1, <1>2, PTL DEF SharedSpec, Spec, TargetsSpec, TransfersSpec
=============================================================================
