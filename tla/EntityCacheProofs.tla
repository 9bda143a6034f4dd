-------------------------- MODULE EntityCacheProofs --------------------------
(***************************************************************************)
(* Proofs about the caches of a client, for any number of keys, tags,      *)
(* events, readers and callers: CacheStore implements TagCache and its     *)
(* indexes stay tight; SingleFlight hands out a finished load only for a   *)
(* reason; EventSync skips no event and leaves no entry stale without a    *)
(* cause; and EntityCache implements its parts.                            *)
(***************************************************************************)
EXTENDS EntityCache, OrderLemmas, FiniteSetTheorems, SequenceTheorems, TLAPS

-----------------------------------------------------------------------------
(* CacheStore.                                                              *)

Sealed == [value : Value, under : CipherKey]

StoreTypeOK ==
    /\ entries \in [Key -> Sealed \cup {NoValue}]
    /\ keyToTags \in [Key -> (SUBSET Tag) \cup {NoValue}]
    /\ tagToKeys \in [Tag -> SUBSET Key]
    /\ cipher \in CipherKey
    /\ clearing \in [CacheUser -> Key \cup {"no", "clear"}]

\* Only an entry that did not open makes a reader clear the store.
ClearingInv == \A r \in CacheUser : clearing[r] = "clear" => Key # {}

StoreInv == StoreTypeOK /\ ClearingInv /\ IndexTight

LEMMA StoreInitInv == CacheInit => StoreInv
<1> SUFFICES ASSUME CacheInit PROVE StoreInv
  OBVIOUS
<1>1. StoreTypeOK /\ ClearingInv
  BY DEF CacheInit, StoreTypeOK, ClearingInv
<1>2. Held = {}
  BY DEF CacheInit, Held
<1>3. Cardinality(Held) <= Capacity
  BY <1>2, FS_EmptySet, StoreAssumption
<1> QED
  BY <1>1, <1>2, <1>3 DEF CacheInit, StoreInv, IndexTight

\* What is held stays within the capacity when one key goes and another comes in.
LEMMA HeldBounded ==
    ASSUME NEW S \in SUBSET Key, NEW k \in Key, NEW j \in S, Cardinality(S) <= Capacity
    PROVE  k \notin S => Cardinality((S \ {j}) \cup {k}) <= Capacity
<1>1. IsFiniteSet(S) /\ Cardinality(S) \in Nat
  BY StoreAssumption, FS_Subset, FS_CardinalityType
<1>2. IsFiniteSet(S \ {j}) /\ Cardinality(S \ {j}) = Cardinality(S) - 1
  BY <1>1, FS_RemoveElement
<1>3. k \notin S => Cardinality((S \ {j}) \cup {k}) = Cardinality(S \ {j}) + 1
  BY <1>2, FS_AddElement
<1> QED
  BY <1>1, <1>2, <1>3, StoreAssumption

LEMMA FewerHeld ==
    ASSUME NEW S \in SUBSET Key, NEW T \in SUBSET S, Cardinality(S) <= Capacity
    PROVE  Cardinality(T) <= Capacity
BY StoreAssumption, FS_Subset, FS_CardinalityType

LEMMA RemovedInv ==
    ASSUME StoreInv, NEW gone \in SUBSET Key, Removed(gone), UNCHANGED cipher,
           clearing' \in [CacheUser -> Key \cup {"no", "clear"}], ClearingInv'
    PROVE  StoreInv'
<1>1. StoreTypeOK'
  BY DEF StoreInv, StoreTypeOK, Removed, DropTags, DropKeys
<1>2. Held' = Held \ gone
  BY DEF StoreInv, StoreTypeOK, Removed, Held
<1>3. Cardinality(Held') <= Capacity
  BY <1>2, FewerHeld DEF StoreInv, IndexTight, Held
<1>4. \A k \in Key : keyToTags'[k] # NoValue <=> k \in Held'
  BY <1>2 DEF StoreInv, IndexTight, Removed, DropTags
<1>5. \A k \in Key, t \in Tag : k \in tagToKeys'[t] <=> k \in Held' /\ t \in keyToTags'[k]
  BY <1>2 DEF StoreInv, IndexTight, Removed, DropTags, DropKeys
<1> QED
  BY <1>1, <1>3, <1>4, <1>5 DEF StoreInv, IndexTight

LEMMA SetInv ==
    ASSUME StoreInv, NEW k \in Key, NEW v \in Value, NEW tags \in SUBSET Tag, Set(k, v, tags)
    PROVE  StoreInv'
<1>1. PICK evicted \in IF k \in Held \/ Cardinality(Held) < Capacity THEN {{}}
                       ELSE {{j} : j \in Oldest} :
        /\ entries' = [j \in Key |-> IF j = k THEN [value |-> v, under |-> cipher]
                                     ELSE IF j \in evicted THEN NoValue ELSE entries[j]]
        /\ keyToTags' = [DropTags(keyToTags, Cleared(k, evicted)) EXCEPT ![k] = tags]
        /\ tagToKeys' = [t \in Tag |-> DropKeys(tagToKeys, Cleared(k, evicted))[t]
                                       \cup (IF t \in tags THEN {k} ELSE {})]
  BY DEF Set
<1>2. UNCHANGED <<cipher, clearing>>
  BY DEF Set
<1>3. [value |-> v, under |-> cipher] \in Sealed /\ NoValue \notin Sealed
  BY NoValueAssumption DEF StoreInv, StoreTypeOK, Sealed
<1>4. StoreTypeOK'
  BY <1>1, <1>2, <1>3 DEF StoreInv, StoreTypeOK, DropTags, DropKeys
<1>5. Held' = (Held \ evicted) \cup {k}
  BY <1>1, <1>3 DEF Held
<1>6. Cardinality(Held') <= Capacity
  <2>0. Held \in SUBSET Key /\ Cardinality(Held) <= Capacity
    BY DEF Held, StoreInv, IndexTight
  <2>1. CASE k \in Held
    <3>1. Held' = Held
      BY <1>1, <1>5, <2>1
    <3> QED
      BY <2>0, <3>1
  <2>2. CASE k \notin Held /\ Cardinality(Held) < Capacity
    <3>1. Held' = Held \cup {k}
      BY <1>1, <1>5, <2>2
    <3>2. IsFiniteSet(Held) /\ Cardinality(Held) \in Nat
      BY <2>0, StoreAssumption, FS_Subset, FS_CardinalityType
    <3>3. Cardinality(Held \cup {k}) = Cardinality(Held) + 1
      BY <2>2, <3>2, FS_AddElement
    <3> QED
      BY <2>2, <3>1, <3>2, <3>3, StoreAssumption
  <2>3. CASE k \notin Held /\ ~(Cardinality(Held) < Capacity)
    <3>1. PICK j \in Oldest : evicted = {j}
      BY <1>1, <2>3
    <3>2. j \in Held
      BY <3>1 DEF Oldest
    <3> QED
      BY <1>5, <2>0, <2>3, <3>1, <3>2, HeldBounded
  <2> QED
    BY <2>1, <2>2, <2>3
<1>7. \A j \in Key : keyToTags'[j] = IF j = k THEN tags
                                     ELSE IF j \in evicted THEN NoValue ELSE keyToTags[j]
  BY <1>1 DEF DropTags, Cleared
<1>8. \A j \in Key, t \in Tag :
          j \in tagToKeys'[t] <=> IF j = k THEN t \in tags
                                  ELSE j \notin evicted /\ j \in tagToKeys[t]
  BY <1>1 DEF DropKeys, Cleared
<1>9. \A j \in Key : keyToTags'[j] # NoValue <=> j \in Held'
  BY <1>5, <1>7, NoValueAssumption DEF StoreInv, IndexTight, Held
<1>10. \A j \in Key, t \in Tag : j \in tagToKeys'[t] <=> j \in Held' /\ t \in keyToTags'[j]
  BY <1>5, <1>7, <1>8 DEF StoreInv, IndexTight, Held
<1> QED
  BY <1>2, <1>4, <1>6, <1>9, <1>10 DEF StoreInv, ClearingInv, IndexTight

LEMMA StoreStepInv == StoreInv /\ [CacheNext]_storeCacheVars => StoreInv'
<1> SUFFICES ASSUME StoreInv, [CacheNext]_storeCacheVars PROVE StoreInv'
  OBVIOUS
<1>0. ASSUME UNCHANGED <<entries, keyToTags, tagToKeys>>, cipher' \in CipherKey,
             clearing' \in [CacheUser -> Key \cup {"no", "clear"}], ClearingInv'
      PROVE  StoreInv'
  <2>1. Held' = Held
    BY <1>0 DEF Held
  <2> QED
    BY <1>0, <2>1 DEF StoreInv, StoreTypeOK, IndexTight
<1>1. ASSUME NEW k \in Key, NEW v \in Value, NEW tags \in SUBSET Tag, Set(k, v, tags)
      PROVE  StoreInv'
  BY <1>1, SetInv
<1>2. ASSUME NEW gone \in SUBSET Key, Removed(gone), UNCHANGED <<cipher, clearing>>
      PROVE  StoreInv'
  BY <1>2, RemovedInv DEF StoreInv, StoreTypeOK, ClearingInv
<1>3. ASSUME NEW k \in Key, Remove(k) PROVE StoreInv'
  BY <1>2, <1>3 DEF Remove
<1>4. ASSUME NEW t \in Tag, RemoveByTag(t) PROVE StoreInv'
  BY <1>2, <1>4 DEF RemoveByTag, StoreInv, StoreTypeOK
<1>5. CASE ClearAll
  BY <1>2, <1>5 DEF ClearAll
<1>6. ASSUME NEW r \in CacheUser, NEW k \in Key, Get(r, k) PROVE StoreInv'
  BY <1>0, <1>6, StoreAssumption DEF Get, StoreInv, StoreTypeOK, ClearingInv
<1>7. ASSUME NEW r \in CacheUser, NEW tags \in SUBSET Tag, GetByTags(r, tags) PROVE StoreInv'
  BY <1>0, <1>7 DEF GetByTags, Found, Held, StoreInv, StoreTypeOK, ClearingInv
<1>8. ASSUME NEW r \in CacheUser, CleanUp(r) PROVE StoreInv'
  <2>1. PICK gone \in SUBSET Key : Removed(gone)
    BY <1>8 DEF CleanUp, StoreInv, StoreTypeOK
  <2>2. UNCHANGED cipher /\ clearing' = [clearing EXCEPT ![r] = "no"]
    BY <1>8 DEF CleanUp
  <2>3. clearing' \in [CacheUser -> Key \cup {"no", "clear"}] /\ ClearingInv'
    BY <2>2 DEF StoreInv, StoreTypeOK, ClearingInv
  <2> QED
    BY <2>1, <2>2, <2>3, RemovedInv
<1>9. ASSUME NEW c \in CipherKey, Restart(c) PROVE StoreInv'
  BY <1>0, <1>9 DEF Restart, ClearingInv
<1>10. CASE UNCHANGED storeCacheVars
  BY <1>0, <1>10 DEF storeCacheVars, StoreInv, StoreTypeOK, ClearingInv
<1> QED
  BY <1>1, <1>3, <1>4, <1>5, <1>6, <1>7, <1>8, <1>9, <1>10 DEF CacheNext

-----------------------------------------------------------------------------
(* CacheStore implements TagCache: the entry under a key and its tags are   *)
(* read off the map and the first index.                                    *)

Shown == [k \in Key |-> IF k \in Held THEN [value |-> entries[k].value, tags |-> keyToTags[k]]
                        ELSE NoValue]

ShownOK ==
    /\ Shown \in [Key -> Abstract!TagEntry \cup {NoValue}]
    /\ \A k \in Key : Shown[k] # NoValue <=> k \in Held
    /\ \A k \in Held : Shown[k].value = entries[k].value /\ Shown[k].tags = keyToTags[k]

LEMMA ShownType == StoreInv => ShownOK
<1> SUFFICES ASSUME StoreInv PROVE ShownOK
  OBVIOUS
<1>1. ASSUME NEW k \in Held
      PROVE  [value |-> entries[k].value, tags |-> keyToTags[k]] \in [value : Value, tags : SUBSET Tag]
  <2>1. entries[k] \in Sealed /\ keyToTags[k] \in SUBSET Tag
    BY <1>1 DEF StoreInv, StoreTypeOK, IndexTight, Held
  <2> QED
    BY <2>1 DEF Sealed
<1> QED
  BY <1>1, NoValueAssumption DEF ShownOK, Shown, Abstract!TagEntry, Held

\* Entries that are removed are forgotten, and no other is changed.
LEMMA RemovedForgets ==
    ASSUME StoreInv, ShownOK, ShownOK', NEW gone \in SUBSET Key, Removed(gone)
    PROVE  /\ Abstract!Forgets(Shown', Shown)
           /\ \A k \in gone : Shown'[k] = NoValue
<1>1. Held' = Held \ gone
  BY DEF StoreInv, StoreTypeOK, Removed, Held
<1>2. \A k \in Key \ gone : Shown'[k] = Shown[k]
  BY <1>1 DEF Shown, Removed, DropTags, Held
<1>3. \A k \in gone : Shown'[k] = NoValue
  BY <1>1 DEF Shown
<1> QED
  BY <1>2, <1>3 DEF ShownOK, Abstract!Forgets

\* A set is a put: what was evicted is forgotten.
LEMMA SetPuts ==
    ASSUME StoreInv, ShownOK, ShownOK', NEW k \in Key, NEW v \in Value, NEW tags \in SUBSET Tag,
           Set(k, v, tags)
    PROVE  Abstract!Put(k, v, tags)
<1>1. PICK evicted :
        /\ entries' = [j \in Key |-> IF j = k THEN [value |-> v, under |-> cipher]
                                     ELSE IF j \in evicted THEN NoValue ELSE entries[j]]
        /\ keyToTags' = [DropTags(keyToTags, Cleared(k, evicted)) EXCEPT ![k] = tags]
  BY DEF Set
<1>2. [value |-> v, under |-> cipher] # NoValue
  BY NoValueAssumption DEF StoreInv, StoreTypeOK
<1>3. Held' = (Held \ evicted) \cup {k}
  BY <1>1, <1>2 DEF Held
<1>4. Shown'[k] = [value |-> v, tags |-> tags]
  BY <1>1, <1>3 DEF Shown, DropTags
<1>5. \A j \in Key \ {k} : Shown'[j] = Shown[j] \/ Shown'[j] = NoValue
  BY <1>1, <1>3 DEF Shown, DropTags, Cleared, Held
<1>6. Abstract!Forgets(Shown', [Shown EXCEPT ![k] = Shown'[k]])
  BY <1>5 DEF ShownOK, Abstract!Forgets
<1>7. reply' = reply
  BY DEF Set
<1> QED
  BY <1>4, <1>6, <1>7 DEF Abstract!Put, Shown

LEMMA StoreStepMaps ==
    StoreInv /\ StoreInv' /\ [CacheNext]_storeCacheVars => [Abstract!TagNext]_(Abstract!tagVars)
<1> SUFFICES ASSUME StoreInv, StoreInv', [CacheNext]_storeCacheVars
             PROVE  [Abstract!TagNext]_(Abstract!tagVars)
  OBVIOUS
<1>a. ShownOK /\ ShownOK'
  BY ShownType, PTL
<1>b. ASSUME UNCHANGED <<entries, keyToTags, reply>> PROVE UNCHANGED (Abstract!tagVars)
  BY <1>b DEF Abstract!tagVars, Held
<1>c. ASSUME UNCHANGED <<entries, keyToTags>> PROVE UNCHANGED Shown
  BY <1>c DEF Shown, Held
<1>1. ASSUME NEW k \in Key, NEW v \in Value, NEW tags \in SUBSET Tag, Set(k, v, tags)
      PROVE  Abstract!TagNext
  BY <1>1, <1>a, SetPuts DEF Abstract!TagNext
<1>2. ASSUME NEW gone \in SUBSET Key, Removed(gone), UNCHANGED reply PROVE Abstract!Discard(gone)
  BY <1>2, <1>a, RemovedForgets DEF Abstract!Discard, Shown
<1>3. ASSUME NEW k \in Key, Remove(k) PROVE Abstract!TagNext
  BY <1>2, <1>3 DEF Remove, Abstract!TagNext
<1>4. ASSUME NEW t \in Tag, RemoveByTag(t) PROVE Abstract!TagNext
  <2>1. tagToKeys[t] = Abstract!Tagged({t})
    BY <1>a DEF Abstract!Tagged, ShownOK, Shown, StoreInv, StoreTypeOK, IndexTight, Held
  <2>2. PICK gone \in SUBSET Key : gone = tagToKeys[t]
    BY DEF StoreInv, StoreTypeOK
  <2>3. Removed(gone) /\ UNCHANGED reply
    BY <1>4, <2>2 DEF RemoveByTag, Removed, Without, DropTags, DropKeys
  <2>4. Abstract!Discard(gone)
    BY <1>2, <2>3
  <2>5. Abstract!Discard(Abstract!Tagged({t}))
    BY <2>1, <2>2, <2>4 DEF Abstract!Discard
  <2> QED
    BY <2>5 DEF Abstract!TagNext
<1>5. CASE ClearAll
  BY <1>2, <1>5 DEF ClearAll, Abstract!TagNext
<1>6. ASSUME NEW r \in CacheUser, NEW k \in Key, Get(r, k)
      PROVE  [Abstract!TagNext]_(Abstract!tagVars)
  <2>1. UNCHANGED <<entries, keyToTags>>
    BY <1>6 DEF Get
  <2>2. CASE k \notin Held
    <3>1. Abstract!Read(k)
      BY <1>6, <1>a, <1>c, <2>1, <2>2 DEF Get, Abstract!Read, Abstract!Forgets, Shown, ShownOK
    <3> QED
      BY <3>1 DEF Abstract!TagNext
  <2>3. CASE k \in Held /\ reply' = entries[k].value
    <3>1. Abstract!Read(k)
      BY <1>a, <1>c, <2>1, <2>3 DEF Abstract!Read, Shown, ShownOK
    <3> QED
      BY <3>1 DEF Abstract!TagNext
  <2>4. CASE UNCHANGED reply
    BY <1>b, <2>1, <2>4
  <2> QED
    BY <1>6, <2>2, <2>3, <2>4 DEF Get
<1>7. ASSUME NEW r \in CacheUser, NEW tags \in SUBSET Tag, GetByTags(r, tags)
      PROVE  [Abstract!TagNext]_(Abstract!tagVars)
  <2>1. UNCHANGED <<entries, keyToTags>>
    BY <1>7 DEF GetByTags
  <2>2. CASE reply' = {<<k, entries[k].value>> : k \in Found(tags)}
    <3>1. Found(tags) = Abstract!Tagged(tags)
      BY <1>a DEF Found, Abstract!Tagged, ShownOK, Shown, StoreInv, IndexTight, Held
    <3>2. \A k \in Found(tags) : entries[k].value = Shown[k].value
      BY <1>a DEF ShownOK, Found
    <3>3. Abstract!ReadTagged(tags)
      BY <1>c, <2>1, <2>2, <3>1, <3>2 DEF Abstract!ReadTagged, Shown
    <3> QED
      BY <1>7, <3>3 DEF GetByTags, Abstract!TagNext
  <2>3. CASE UNCHANGED reply
    BY <1>b, <2>1, <2>3
  <2> QED
    BY <1>7, <2>2, <2>3 DEF GetByTags
<1>8. ASSUME NEW r \in CacheUser, CleanUp(r) PROVE Abstract!TagNext
  <2>1. PICK gone \in SUBSET Key : Removed(gone)
    BY <1>8 DEF CleanUp, StoreInv, StoreTypeOK
  <2>2. Abstract!Forgets(Shown', Shown)
    BY <1>a, <2>1, RemovedForgets
  <2>3. PICK k \in Key : TRUE
    BY <1>8 DEF CleanUp, StoreInv, StoreTypeOK, ClearingInv
  <2>4. Abstract!Read(k)
    BY <1>8, <2>2 DEF CleanUp, Abstract!Read, Shown
  <2> QED
    BY <2>4 DEF Abstract!TagNext
<1>9. ASSUME NEW c \in CipherKey, Restart(c) PROVE UNCHANGED (Abstract!tagVars)
  BY <1>9, <1>b DEF Restart
<1>10. CASE UNCHANGED storeCacheVars
  BY <1>10, <1>b DEF storeCacheVars
<1> QED
  BY <1>1, <1>3, <1>4, <1>5, <1>6, <1>7, <1>8, <1>9, <1>10 DEF CacheNext

\* InMemoryCacheRepository, with its eviction, its two tag indexes, the encryption
\* around it and readers that clean up later, does what CacheRepository promises: no
\* read, by key or by tags, yields what was replaced or removed.  Its indexes name
\* exactly what is held, and it never holds more than its capacity.
THEOREM StoreCorrect == CacheSpec => StoreSound
<1>1. CacheInit => Abstract!TagInit
  BY DEF CacheInit, Abstract!TagInit, Held
<1>2. StoreInv => IndexTight
  BY DEF StoreInv
<1> QED
  BY <1>1, <1>2, StoreInitInv, StoreStepInv, StoreStepMaps, PTL
     DEF CacheSpec, StoreSound, ImplementsTagCache

-----------------------------------------------------------------------------
(* SingleFlight.                                                            *)

\* A load in the slot is one that was created, and has a caller that will clear the
\* slot, or lost one that would have.
FlightInv ==
    /\ fpc \in [Caller -> {"idle", "waiting", "clearing"}]
    /\ created \in Nat /\ slot \in 0 .. created
    /\ joined \in [Caller -> 0 .. created]
    /\ done \subseteq 1 .. created
    /\ slot # 0 => InFlight(slot) \/ slot \in orphaned

LEMMA FlightInitInv == FlightInit => FlightInv
BY DEF FlightInit, FlightInv

LEMMA FlightStepInv == FlightInv /\ [FlightNext]_flightVars => FlightInv'
<1> SUFFICES ASSUME FlightInv, [FlightNext]_flightVars PROVE FlightInv'
  OBVIOUS
<1> USE DEF FlightInv, InFlight
<1>1. ASSUME NEW c \in Caller, Join(c) PROVE FlightInv'
  BY <1>1 DEF Join
<1>2. ASSUME NEW c \in Caller, Start(c) PROVE FlightInv'
  BY <1>2 DEF Start
<1>3. ASSUME NEW c \in Caller, Awake(c) PROVE FlightInv'
  BY <1>3 DEF Awake
<1>4. ASSUME NEW c \in Caller, Clear(c) PROVE FlightInv'
  BY <1>4 DEF Clear
<1>5. ASSUME NEW c \in Caller, Drop(c) PROVE FlightInv'
  BY <1>5 DEF Drop
<1>6. ASSUME NEW l \in Load, Complete(l) PROVE FlightInv'
  <2>1. PICK c \in Caller : fpc[c] = "waiting" /\ joined[c] = l
    BY <1>6 DEF Complete, Polled
  <2> QED
    BY <1>6, <2>1 DEF Complete, Load
<1>7. CASE UNCHANGED flightVars
  BY <1>7 DEF flightVars
<1> QED
  BY <1>1, <1>2, <1>3, <1>4, <1>5, <1>6, <1>7 DEF FlightNext

\* SingleFlight::run hands a caller a load that had already ended only while another
\* caller of it is still to clear the slot, or was dropped before it could, for any
\* number of callers and loads.
THEOREM FinishedLoadHasCause == FlightSpec => StaleNeedsOverlap
<1>1. FlightInv /\ [FlightNext]_flightVars =>
        [\A c \in Caller, l \in done : Takes(c, l) => InFlight(l) \/ l \in orphaned]_flightVars
  <2> SUFFICES ASSUME FlightInv, FlightNext, NEW c \in Caller, NEW l \in done, Takes(c, l)
               PROVE  InFlight(l) \/ l \in orphaned
    BY DEF flightVars
  <2>1. ASSUME NEW d \in Caller, Join(d) PROVE InFlight(l) \/ l \in orphaned
    BY <2>1 DEF Join, Takes, FlightInv
  <2>2. ASSUME NEW d \in Caller, Start(d) PROVE FALSE
    BY <2>2 DEF Start, Takes, FlightInv
  <2>3. ASSUME NEW d \in Caller, Awake(d) \/ Clear(d) \/ Drop(d) PROVE FALSE
    BY <2>3 DEF Awake, Clear, Drop, Takes, FlightInv
  <2>4. ASSUME NEW m \in Load, Complete(m) PROVE FALSE
    BY <2>4 DEF Complete, Takes
  <2> QED
    BY <2>1, <2>2, <2>3, <2>4 DEF FlightNext
<1> QED
  BY <1>1, FlightInitInv, FlightStepInv, PTL DEF FlightSpec, StaleNeedsOverlap

-----------------------------------------------------------------------------
(* The event manager and the caches.  The events collected follow each     *)
(* other, and the cursor, with nothing to be seen in between; no cursor is *)
(* ahead of what was told to the subscribers.  A version that is cached or *)
(* about to be is not behind what its cache was told of the node, unless   *)
(* there is an excuse.                                                     *)

\* The ids of a page are put in the order of the log, none left out.
LEMMA InOrderIs ==
    ASSUME NEW a \in Nat, NEW b \in Nat, NEW ids \in SUBSET (a + 1 .. b)
    PROVE  Cardinality(ids) \in Nat /\ Ordered(InOrder(ids), Cardinality(ids), ids)
<1>1. Cardinality(ids) \in Nat
  <2>1. IsFiniteSet(a + 1 .. b)
    BY FS_Interval
  <2>2. IsFiniteSet(ids)
    BY <2>1, FS_Subset
  <2> QED
    BY <2>2, FS_CardinalityType
<1>2. PICK s : Ordered(s, Cardinality(ids), ids)
  BY CanBeOrdered
<1>3. PICK k \in Nat : k = Cardinality(ids)
  BY <1>1
<1>4. s \in Bijection(1 .. k, ids)
  <2>1. s \in [1 .. k -> ids] /\ \A v \in ids : \E x \in 1 .. k : s[x] = v
    BY <1>2, <1>3 DEF Ordered
  <2>2. \A x, y \in 1 .. k : s[x] = s[y] => x = y
    <3>0. \A v \in ids : v \in Nat
      OBVIOUS
    <3>1. \A x \in 1 .. k : s[x] \in Nat
      BY <2>1, <3>0
    <3>2. \A x, y \in 1 .. k : x < y => s[x] < s[y]
      BY <1>2, <1>3 DEF Ordered
    <3> QED
      BY <1>3, <3>1, <3>2
  <2> QED
    BY <2>1, <2>2 DEF Bijection, Injection, Surjection, IsInjective
<1>5. \A x, y \in 1 .. k : x < y => s[x] < s[y]
  BY <1>2, <1>3 DEF Ordered
<1>6. PICK o : o = InOrder(ids)
  OBVIOUS
<1>7. o \in Bijection(1 .. k, ids) /\ \A x, y \in 1 .. k : x < y => o[x] < o[y]
  BY <1>3, <1>4, <1>5, <1>6 DEF InOrder
<1>8. Ordered(o, k, ids)
  BY <1>7 DEF Ordered, Bijection, Injection, Surjection
<1> QED
  BY <1>1, <1>3, <1>6, <1>8

EventRec == [kind : {"node", "advance", "lost"}, id : Nat, node : Node \cup {Hidden}]
Fetched == [cache : Cache, node : Node, version : Nat]
ManagerLabels == {"start", "seed", "sleep", "page", "apply", "entity", "send", "save"}

LogTypes == log \in Seq(Node \cup {Hidden}) /\ floor \in Nat
ManagerTypes ==
    /\ pc \in ManagerLabels /\ applied \in Nat
    /\ stored \in Nat \cup {None} /\ cursor \in Nat \cup {None} /\ page \in Nat \cup {None}
    /\ batch \in Seq(EventRec) /\ at \in Nat
CacheTypes ==
    /\ cached \in [Cache -> [Node -> Nat \cup {None}]]
    /\ held \in [Reader -> Fetched \cup {Nothing}]

\* No cursor is ahead of what was told to the subscribers, and this not of the log.
Behind ==
    /\ applied <= Len(log) /\ stored <= applied /\ cursor <= applied
    /\ pc \notin {"start", "seed"} => cursor \in Nat

HiddenIn(l, i, j) == \A x \in Nat : i < x /\ x <= j => l[x] = Hidden

\* An event comes after position i with nothing to be seen in between.
Follows(l, i, e) ==
    /\ i <= e.id /\ e.id <= Len(l)
    /\ e.kind = "node" => i < e.id /\ HiddenIn(l, i, e.id - 1) /\ l[e.id] = e.node
    /\ e.kind = "advance" => HiddenIn(l, i, e.id)

\* The position the event i of b comes after.
Prior(b, c, i) == IF i = 1 THEN c ELSE b[i - 1].id
LastId(b, c) == IF b = <<>> THEN c ELSE b[Len(b)].id
Gapless(l, b, c) == \A i \in 1 .. Len(b) : Follows(l, Prior(b, c, i), b[i])

\* What was paged through so far.
Paged(l, b, c, i) == LastId(b, c) <= i /\ i <= Len(l) /\ HiddenIn(l, LastId(b, c), i)

Position ==
    /\ pc = "page" => page \in Nat /\ at = 1 /\ Gapless(log, batch, cursor) /\ Paged(log, batch, cursor, page)
    /\ pc \in {"apply", "entity", "send"} =>
          /\ at \in 1 .. Len(batch) /\ Gapless(log, batch, cursor)
          /\ Prior(batch, cursor, at) <= applied
    /\ pc = "save" => batch # <<>> /\ LastId(batch, cursor) <= applied

\* How far cache k was told of node n.
Telling(k) == (k = "key" /\ pc \in {"entity", "send"}) \/ (k = "entity" /\ pc = "send")
Told(k, n) ==
    IF Telling(k) /\ n \in Affected(batch[at]) /\ batch[at].id > applied
    THEN batch[at].id ELSE applied

\* No entry of n up to position t is newer than v.
Newest(l, n, t, v) == \A j \in Nat : 1 <= j /\ j <= t /\ l[j] = n => j <= v
FreshCaches ==
    \A k \in Cache, n \in Node :
        cached[k][n] # None => <<k, n>> \in excused \/ Newest(log, n, Told(k, n), cached[k][n])
FreshReaders ==
    \A r \in Reader :
        held[r] # Nothing =>
            \/ r \in raced
            \/ Newest(log, held[r].node, Told(held[r].cache, held[r].node), held[r].version)

EventInv ==
    /\ LogTypes /\ ManagerTypes /\ CacheTypes
    /\ Behind /\ Position /\ FreshCaches /\ FreshReaders

\* The version of a node is that of its last entry.
LEMMA LastTouchIs ==
    ASSUME NEW n, NEW i \in Nat
    PROVE  /\ LastTouch(n, i) \in 0 .. i
           /\ \A j \in 1 .. i : log[j] = n => j <= LastTouch(n, i)
           /\ LastTouch(n, i) # 0 => log[LastTouch(n, i)] = n
<1>1. PICK S : S = {0} \cup {j \in 1 .. i : log[j] = n}
  OBVIOUS
<1>2. \A x \in S : x \in 0 .. i /\ i - x \in Nat
  BY <1>1
<1> DEFINE short == {i - x : x \in S}
<1>3. short \in SUBSET Nat /\ short # {}
  BY <1>1, <1>2
<1>4. PICK d \in short : \A e \in short : d <= e
  BY <1>3, LeastNumber
<1>5. PICK x \in S : d = i - x
  BY <1>4
<1>6. \A y \in S : x >= y
  <2> SUFFICES ASSUME NEW y \in S PROVE x >= y
    OBVIOUS
  <2>1. i - y \in short
    OBVIOUS
  <2> QED
    BY <1>2, <1>4, <1>5, <2>1
<1>7. PICK m : m = LastTouch(n, i)
  OBVIOUS
<1>8. m \in S /\ \A y \in S : m >= y
  BY <1>1, <1>5, <1>6, <1>7 DEF LastTouch, Max
<1> QED
  BY <1>1, <1>2, <1>7, <1>8

\* The event being applied is one of the batch, and the log holds it.
LEMMA BatchAt ==
    ASSUME ManagerTypes, LogTypes, Behind, Position, pc \in {"apply", "entity", "send"}
    PROVE  /\ at \in 1 .. Len(batch) /\ batch[at] \in EventRec
           /\ batch[at].id \in Nat /\ batch[at].id <= Len(log)
           /\ Affected(batch[at]) \subseteq Node \cup {Hidden}
           /\ Prior(batch, cursor, at) <= applied
           /\ Follows(log, Prior(batch, cursor, at), batch[at])
<1>1. at \in 1 .. Len(batch) /\ Gapless(log, batch, cursor) /\ Prior(batch, cursor, at) <= applied
  BY DEF Position
<1>2. batch[at] \in EventRec
  BY <1>1 DEF ManagerTypes
<1>3. Follows(log, Prior(batch, cursor, at), batch[at])
  BY <1>1 DEF Gapless
<1>4. batch[at].id \in Nat /\ batch[at].node \in Node \cup {Hidden}
  BY <1>2 DEF EventRec
<1>5. batch[at].id <= Len(log)
  BY <1>3 DEF Follows
<1>6. Affected(batch[at]) \subseteq Node \cup {Hidden}
  BY <1>4 DEF Affected
<1> QED
  BY <1>1, <1>2, <1>3, <1>4, <1>5, <1>6

LEMMA ToldIs ==
    ASSUME ManagerTypes, LogTypes, Behind, Position, NEW k, NEW n
    PROVE  Told(k, n) \in Nat /\ applied <= Told(k, n) /\ Told(k, n) <= Len(log)
<1>1. applied \in Nat /\ applied <= Len(log) /\ Len(log) \in Nat
  BY DEF ManagerTypes, LogTypes, Behind
<1>2. CASE Telling(k)
  <2>1. pc \in {"apply", "entity", "send"}
    BY <1>2 DEF Telling
  <2>2. batch[at].id \in Nat /\ batch[at].id <= Len(log)
    BY <2>1, BatchAt
  <2> QED
    BY <1>1, <2>2 DEF Told
<1>3. CASE ~Telling(k)
  BY <1>1, <1>3 DEF Told
<1> QED
  BY <1>2, <1>3

\* A subscriber finds an older version than it was told of only with a cause.
LEMMA EventsTrue ==
    ASSUME EventInv
    PROVE  StaleHasCause
<1> SUFFICES ASSUME NEW k \in Cache, NEW n \in Node, Stale(k, n), <<k, n>> \notin excused
             PROVE  FALSE
  BY DEF StaleHasCause
<1>1. PICK v : v = cached[k][n]
  OBVIOUS
<1>2. PICK t : t = LastTouch(n, applied)
  OBVIOUS
<1>3. applied \in Nat
  BY DEF EventInv, ManagerTypes
<1>4. t \in 0 .. applied /\ (t # 0 => log[t] = n)
  BY <1>2, <1>3, LastTouchIs
<1>5. v \in Nat /\ v < t
  BY <1>1, <1>2 DEF Stale, EventInv, CacheTypes
<1>6. Newest(log, n, Told(k, n), v)
  BY <1>1 DEF Stale, EventInv, FreshCaches
<1>7. Told(k, n) \in Nat /\ applied <= Told(k, n)
  BY ToldIs DEF EventInv
<1> QED
  BY <1>3, <1>4, <1>5, <1>6, <1>7 DEF Newest

\* What the log gains leaves the batch as it was.
LEMMA PriorIs ==
    ASSUME NEW b \in Seq(EventRec), NEW c \in Nat
    PROVE  /\ \A i \in 1 .. Len(b) : Prior(b, c, i) \in Nat /\ b[i] \in EventRec /\ b[i].id \in Nat
           /\ LastId(b, c) \in Nat
<1>0. \A i \in 1 .. Len(b) : b[i] \in EventRec
  OBVIOUS
<1>1. \A i \in 1 .. Len(b) : b[i] \in EventRec /\ b[i].id \in Nat
  BY <1>0 DEF EventRec
<1>2. ASSUME NEW i \in 1 .. Len(b) PROVE Prior(b, c, i) \in Nat
  <2>1. CASE i = 1
    BY <2>1 DEF Prior
  <2>2. CASE i # 1
    <3>1. i - 1 \in 1 .. Len(b)
      BY <2>2
    <3> QED
      BY <1>1, <2>2, <3>1 DEF Prior
  <2> QED
    BY <2>1, <2>2
<1>3. LastId(b, c) \in Nat
  <2>1. CASE b = <<>>
    BY <2>1 DEF LastId
  <2>2. CASE b # <<>>
    <3>1. Len(b) \in 1 .. Len(b)
      BY <2>2, EmptySeq
    <3> QED
      BY <1>1, <2>2, <3>1 DEF LastId
  <2> QED
    BY <2>1, <2>2
<1> QED
  BY <1>1, <1>2, <1>3

LEMMA GaplessGrows ==
    ASSUME NEW l \in Seq(Node \cup {Hidden}), NEW m \in Seq(Node \cup {Hidden}),
           Len(l) <= Len(m), \A x \in 1 .. Len(l) : m[x] = l[x],
           NEW b \in Seq(EventRec), NEW c \in Nat
    PROVE  /\ Gapless(l, b, c) => Gapless(m, b, c)
           /\ \A i \in Nat : Paged(l, b, c, i) => Paged(m, b, c, i)
<1>1. ASSUME NEW i \in Nat, NEW j \in Nat, j <= Len(l), HiddenIn(l, i, j)
      PROVE  HiddenIn(m, i, j)
  BY <1>1 DEF HiddenIn
<1>2. ASSUME NEW i \in Nat, NEW e \in EventRec, Follows(l, i, e)
      PROVE  Follows(m, i, e)
  <2>1. e.id \in Nat /\ e.id <= Len(l) /\ i <= e.id
    BY <1>2 DEF EventRec, Follows
  <2>2. ASSUME e.kind = "node"
        PROVE  i < e.id /\ HiddenIn(m, i, e.id - 1) /\ m[e.id] = e.node
    <3>1. i < e.id /\ HiddenIn(l, i, e.id - 1) /\ l[e.id] = e.node
      BY <1>2, <2>2 DEF Follows
    <3>2. e.id - 1 \in Nat /\ e.id - 1 <= Len(l) /\ e.id \in 1 .. Len(l)
      BY <2>1, <3>1
    <3> QED
      BY <1>1, <3>1, <3>2
  <2>3. ASSUME e.kind = "advance" PROVE HiddenIn(m, i, e.id)
    BY <1>1, <1>2, <2>1, <2>3 DEF Follows
  <2> QED
    BY <2>1, <2>2, <2>3 DEF Follows
<1>3. ASSUME Gapless(l, b, c) PROVE Gapless(m, b, c)
  BY <1>2, <1>3, PriorIs DEF Gapless
<1>4. ASSUME NEW i \in Nat, Paged(l, b, c, i) PROVE Paged(m, b, c, i)
  BY <1>1, <1>4, PriorIs, SMTT(30) DEF Paged
<1> QED
  BY <1>3, <1>4

\* An event that follows the end of what was paged through follows the last
\* event before it.
LEMMA FollowsFurther ==
    ASSUME NEW l, NEW i \in Nat, NEW p \in Nat, NEW e \in EventRec,
           i <= p, HiddenIn(l, i, p), Follows(l, p, e)
    PROVE  Follows(l, i, e)
<1>1. e.id \in Nat /\ p <= e.id /\ e.id <= Len(l) /\ i <= e.id
  BY DEF EventRec, Follows
<1>2. ASSUME NEW j \in Nat, HiddenIn(l, p, j) PROVE HiddenIn(l, i, j)
  BY <1>2 DEF HiddenIn
<1>3. ASSUME e.kind = "node"
      PROVE  i < e.id /\ HiddenIn(l, i, e.id - 1) /\ l[e.id] = e.node
  <2>1. p < e.id /\ HiddenIn(l, p, e.id - 1) /\ l[e.id] = e.node
    BY <1>3 DEF Follows
  <2>2. e.id - 1 \in Nat
    BY <1>1, <2>1
  <2> QED
    BY <1>1, <1>2, <2>1, <2>2
<1>4. ASSUME e.kind = "advance" PROVE HiddenIn(l, i, e.id)
  BY <1>1, <1>2, <1>4 DEF Follows
<1> QED
  BY <1>1, <1>3, <1>4 DEF Follows

LEMMA Joined ==
    ASSUME NEW l, NEW b \in Seq(EventRec), NEW e \in Seq(EventRec), e # <<>>,
           NEW c \in Nat, NEW p \in Nat,
           Gapless(l, b, c), Paged(l, b, c, p), Gapless(l, e, p)
    PROVE  /\ b \o e \in Seq(EventRec) /\ b \o e # <<>>
           /\ Gapless(l, b \o e, c)
           /\ LastId(b \o e, c) = LastId(e, p)
<1>1. PICK w : w = b \o e
  OBVIOUS
<1>2. /\ Len(b) \in Nat /\ Len(e) \in Nat /\ Len(e) >= 1
      /\ w \in Seq(EventRec) /\ Len(w) = Len(b) + Len(e)
  BY <1>1, EmptySeq
<1>3. /\ \A i \in 1 .. Len(b) : w[i] = b[i]
      /\ \A i \in 1 .. Len(e) : w[Len(b) + i] = e[i]
  <2>1. \A i \in 1 .. Len(b) + Len(e) : w[i] = IF i <= Len(b) THEN b[i] ELSE e[i - Len(b)]
    BY <1>1, ConcatProperties
  <2>2. ASSUME NEW i \in 1 .. Len(b) PROVE w[i] = b[i]
    BY <1>2, <2>1
  <2>3. ASSUME NEW i \in 1 .. Len(e) PROVE w[Len(b) + i] = e[i]
    <3>1. Len(b) + i \in 1 .. Len(b) + Len(e) /\ ~(Len(b) + i <= Len(b)) /\ (Len(b) + i) - Len(b) = i
      BY <1>2
    <3> QED
      BY <2>1, <3>1
  <2> QED
    BY <2>2, <2>3
<1>4. w # <<>>
  BY <1>2
<1>5. LastId(w, c) = LastId(e, p)
  BY <1>2, <1>3, <1>4 DEF LastId
<1>6. ASSUME NEW i \in 1 .. Len(w) PROVE Follows(l, Prior(w, c, i), w[i])
  <2>1. CASE i <= Len(b)
    <3>1. i \in 1 .. Len(b) /\ w[i] = b[i] /\ Follows(l, Prior(b, c, i), b[i])
      BY <1>2, <1>3, <2>1 DEF Gapless
    <3>2. Prior(w, c, i) = Prior(b, c, i)
      <4>1. CASE i = 1
        BY <4>1 DEF Prior
      <4>2. CASE i # 1
        <5>1. i - 1 \in 1 .. Len(b)
          BY <3>1, <4>2
        <5> QED
          BY <1>3, <4>2, <5>1 DEF Prior
      <4> QED
        BY <4>1, <4>2
    <3> QED
      BY <3>1, <3>2
  <2>2. CASE i = Len(b) + 1
    <3>1. w[i] = e[1] /\ e[1] \in EventRec
      BY <1>2, <1>3, <2>2
    <3>2. Follows(l, p, e[1])
      BY <1>2 DEF Gapless, Prior
    <3>3. Prior(w, c, i) = LastId(b, c)
      <4>1. CASE b = <<>>
        <5>1. i = 1
          BY <2>2, <4>1
        <5> QED
          BY <4>1, <5>1 DEF Prior, LastId
      <4>2. CASE b # <<>>
        <5>1. Len(b) \in 1 .. Len(b) /\ i # 1 /\ i - 1 = Len(b)
          BY <1>2, <2>2, <4>2, EmptySeq
        <5> QED
          BY <1>3, <4>2, <5>1 DEF Prior, LastId
      <4> QED
        BY <4>1, <4>2
    <3>4. LastId(b, c) \in Nat /\ LastId(b, c) <= p /\ HiddenIn(l, LastId(b, c), p)
      BY PriorIs DEF Paged
    <3>5. PICK z \in Nat : z = LastId(b, c)
      BY <3>4
    <3> QED
      BY <3>1, <3>2, <3>3, <3>4, <3>5, FollowsFurther
  <2>3. CASE i > Len(b) + 1
    <3>1. PICK j \in 1 .. Len(e) : i = Len(b) + j /\ j # 1
      <4>1. i - Len(b) \in 1 .. Len(e) /\ i = Len(b) + (i - Len(b)) /\ i - Len(b) # 1
        BY <1>2, <2>3
      <4> QED
        BY <4>1
    <3>2. j - 1 \in 1 .. Len(e) /\ i - 1 = Len(b) + (j - 1) /\ i # 1
      BY <1>2, <3>1
    <3>3. Prior(w, c, i) = Prior(e, p, j)
      BY <1>3, <3>1, <3>2 DEF Prior
    <3> QED
      BY <1>3, <3>1, <3>3 DEF Gapless
  <2> QED
    BY <1>2, <2>1, <2>2, <2>3
<1> QED
  BY <1>1, <1>2, <1>4, <1>5, <1>6 DEF Gapless

\* One event at the end of what was paged through.
LEMMA JoinedOne ==
    ASSUME NEW l, NEW b \in Seq(EventRec), NEW e \in EventRec,
           NEW c \in Nat, NEW p \in Nat,
           Gapless(l, b, c), Paged(l, b, c, p), Follows(l, p, e)
    PROVE  /\ Append(b, e) \in Seq(EventRec) /\ Append(b, e) # <<>>
           /\ Gapless(l, Append(b, e), c)
<1>1. <<e>> \in Seq(EventRec) /\ <<e>> # <<>> /\ Len(<<e>>) = 1 /\ <<e>>[1] = e
  OBVIOUS
<1>2. Gapless(l, <<e>>, p)
  BY <1>1 DEF Gapless, Prior
<1>3. Append(b, e) = b \o <<e>>
  BY AppendIsConcat
<1>4. PICK one \in Seq(EventRec) : one = <<e>>
  BY <1>1
<1>5. one # <<>> /\ Gapless(l, one, p) /\ Append(b, e) = b \o one
  BY <1>1, <1>2, <1>3, <1>4
<1> QED
  BY <1>5, Joined

\* A page: its events follow each other and its start, and after the last one
\* nothing is to be seen on it.
LEMMA PageIs ==
    ASSUME LogTypes, page \in Nat, page <= Len(log)
    PROVE  /\ PageEnd(page) \in page .. Len(log)
           /\ PageEvents(page) \in Seq(EventRec)
           /\ Gapless(log, PageEvents(page), page)
           /\ Paged(log, PageEvents(page), page, PageEnd(page))
<1> USE PageAssumption
<1>1. PICK end : end = PageEnd(page)
  OBVIOUS
<1>2. Len(log) \in Nat
  BY DEF LogTypes
<1>3. end \in page .. Len(log)
  <2>1. PICK far \in Nat : far = page + PageSize /\ far >= page
    OBVIOUS
  <2>2. PICK all \in Nat : all = Len(log)
    BY <1>2
  <2>3. end = Min({far, all})
    BY <1>1, <2>1, <2>2 DEF PageEnd, HeadId
  <2>4. end \in {far, all} /\ \A y \in {far, all} : end <= y
    BY <2>1, <2>2, <2>3 DEF Min
  <2> QED
    BY <2>1, <2>2, <2>4
<1>4. PICK ids : ids = {j \in page + 1 .. end : log[j] # Hidden}
  OBVIOUS
<1>5. PICK k \in Nat : k = Cardinality(ids) /\ Ordered(InOrder(ids), k, ids)
  <2>1. ids \in SUBSET (page + 1 .. end) /\ end \in Nat
    BY <1>2, <1>3, <1>4
  <2> QED
    BY <2>1, InOrderIs
<1>6. PICK visible : visible = InOrder(ids)
  OBVIOUS
<1>7. /\ visible \in [1 .. k -> ids]
      /\ \A x, y \in 1 .. k : x < y => visible[x] < visible[y]
      /\ \A v \in ids : \E x \in 1 .. k : visible[x] = v
  BY <1>5, <1>6 DEF Ordered
<1>8. \A x \in 1 .. k : /\ visible[x] \in Nat /\ page < visible[x] /\ visible[x] <= end
                        /\ log[visible[x]] \in Node
  <2> SUFFICES ASSUME NEW x \in 1 .. k
               PROVE  /\ visible[x] \in Nat /\ page < visible[x] /\ visible[x] <= end
                      /\ log[visible[x]] \in Node
    OBVIOUS
  <2>1. PICK v \in ids : v = visible[x]
    BY <1>7
  <2>2. v \in Nat /\ page < v /\ v <= end /\ log[v] # Hidden /\ v \in 1 .. Len(log)
    BY <1>2, <1>3, <1>4, <2>1
  <2>3. log[v] \in Node
    BY <2>2 DEF LogTypes
  <2> QED
    BY <2>1, <2>2, <2>3
<1>9. PICK evs : evs = [x \in 1 .. k |-> [kind |-> "node", id |-> visible[x], node |-> log[visible[x]]]]
  OBVIOUS
<1>10. evs = PageEvents(page)
  <2>1. DOMAIN visible = 1 .. k
    BY <1>7
  <2> QED
    BY <1>1, <1>4, <1>6, <1>9, <2>1 DEF PageEvents
<1>11. \A x \in 1 .. k : evs[x] \in EventRec /\ evs[x].kind = "node" /\ evs[x].id = visible[x]
                         /\ evs[x].node = log[visible[x]]
  BY <1>8, <1>9 DEF EventRec
<1>12. evs \in Seq(EventRec) /\ Len(evs) = k
  <2>1. evs \in [1 .. k -> EventRec]
    BY <1>9, <1>11
  <2> QED
    BY <1>5, <2>1, IsASeq, LenProperties
\* Between one visible position and the next there is none.
<1>13. ASSUME NEW z \in Nat, NEW x \in Nat, NEW y \in Nat,
              page <= z, z < x, x <= y, y <= end,
              \A t \in 1 .. k : visible[t] <= z \/ visible[t] > y
       PROVE  log[x] = Hidden
  <2> SUFFICES ASSUME log[x] # Hidden PROVE FALSE
    OBVIOUS
  <2>1. x \in ids
    BY <1>3, <1>4, <1>13
  <2>2. PICK t \in 1 .. k : visible[t] = x
    BY <1>7, <2>1
  <2> QED
    BY <1>13, <2>2
<1>14. ASSUME NEW i \in 1 .. k PROVE Follows(log, Prior(evs, page, i), evs[i])
  <2>1. PICK z \in Nat : /\ z = Prior(evs, page, i) /\ page <= z /\ z < visible[i]
                         /\ \A t \in 1 .. k : visible[t] <= z \/ visible[t] >= visible[i]
    <3>1. CASE i = 1
      <4>1. \A t \in 1 .. k : t = i \/ i < t
        BY <3>1
      <4>2. Prior(evs, page, i) = page
        BY <3>1 DEF Prior
      <4>3. ASSUME NEW t \in 1 .. k PROVE visible[t] >= visible[i]
        <5>1. t = i \/ visible[i] < visible[t]
          BY <1>7, <4>1
        <5>2. visible[t] \in Nat /\ visible[i] \in Nat
          BY <1>8
        <5> QED
          BY <5>1, <5>2
      <4>4. page <= page /\ page < visible[i]
        BY <1>8
      <4> QED
        BY <4>2, <4>3, <4>4
    <3>2. CASE i # 1
      <4>1. PICK h \in 1 .. k : h = i - 1 /\ h < i
        BY <3>2
      <4>2. Prior(evs, page, i) = visible[h]
        BY <1>11, <3>2, <4>1 DEF Prior
      <4>3. \A t \in 1 .. k : t = i \/ i < t \/ t = h \/ t < h
        BY <4>1
      <4>4. \A t \in 1 .. k : visible[t] <= visible[h] \/ visible[t] >= visible[i]
        <5> SUFFICES ASSUME NEW t \in 1 .. k
                     PROVE  visible[t] <= visible[h] \/ visible[t] >= visible[i]
          OBVIOUS
        <5>1. t = i \/ visible[i] < visible[t] \/ t = h \/ visible[t] < visible[h]
          BY <1>7, <4>3
        <5>2. visible[t] \in Nat /\ visible[i] \in Nat /\ visible[h] \in Nat
          BY <1>8
        <5> QED
          BY <5>1, <5>2
      <4> QED
        BY <1>7, <1>8, <4>1, <4>2, <4>4
    <3> QED
      BY <3>1, <3>2
  <2>2. PICK v \in Nat : v = visible[i] /\ v <= end
    BY <1>8
  <2>3. HiddenIn(log, z, v - 1)
    <3> SUFFICES ASSUME NEW x \in Nat, z < x, x <= v - 1 PROVE log[x] = Hidden
      BY DEF HiddenIn
    <3>1. v - 1 \in Nat /\ v - 1 <= end
      BY <1>3, <2>1, <2>2
    <3>2. \A t \in 1 .. k : visible[t] <= z \/ visible[t] > v - 1
      BY <1>8, <2>1, <2>2
    <3> QED
      BY <1>13, <2>1, <3>1, <3>2
  <2>4. evs[i].id = v /\ evs[i].kind = "node" /\ log[v] = evs[i].node
    BY <1>11, <2>2
  <2> QED
    BY <1>2, <1>3, <2>1, <2>2, <2>3, <2>4 DEF Follows
<1>15. PICK z \in Nat : /\ z = LastId(evs, page) /\ page <= z /\ z <= end
                        /\ \A t \in 1 .. k : visible[t] <= z
  <2>1. CASE k = 0
    <3>1. evs = <<>>
      BY <1>12, <2>1, EmptySeq
    <3> QED
      BY <1>3, <2>1, <3>1 DEF LastId
  <2>2. CASE k # 0
    <3>1. k \in 1 .. k /\ evs # <<>> /\ \A t \in 1 .. k : t = k \/ t < k
      BY <1>12, <2>2
    <3>2. LastId(evs, page) = visible[k]
      BY <1>11, <1>12, <3>1 DEF LastId
    <3> QED
      BY <1>7, <1>8, <3>1, <3>2
  <2> QED
    BY <2>1, <2>2
<1>16. HiddenIn(log, z, end)
  <2> SUFFICES ASSUME NEW x \in Nat, z < x, x <= end PROVE log[x] = Hidden
    BY DEF HiddenIn
  <2> QED
    BY <1>3, <1>13, <1>15
<1>17. Gapless(log, evs, page) /\ Paged(log, evs, page, end)
  BY <1>2, <1>3, <1>12, <1>14, <1>15, <1>16 DEF Gapless, Paged
<1> QED
  BY <1>1, <1>3, <1>10, <1>12, <1>17

\* Whatever the caches were told after a step they were told before it.
LEMMA FreshKept ==
    ASSUME CacheTypes, FreshCaches, FreshReaders, UNCHANGED caches,
           \A k \in Cache, n \in Node, j \in Nat :
               1 <= j /\ j <= Told(k, n)' /\ log'[j] = n => j <= Told(k, n) /\ log[j] = n
    PROVE  CacheTypes' /\ FreshCaches' /\ FreshReaders'
<1>1. cached' = cached /\ held' = held /\ raced' = raced /\ excused' = excused
  BY DEF caches
<1>2. ASSUME NEW k \in Cache, NEW n \in Node, NEW v, Newest(log, n, Told(k, n), v)
      PROVE  Newest(log', n, Told(k, n)', v)
  BY <1>2 DEF Newest
<1>3. CacheTypes'
  BY <1>1 DEF CacheTypes, Nothing, None
<1>4. FreshCaches'
  BY <1>1, <1>2 DEF FreshCaches
<1>5. FreshReaders'
  <2> SUFFICES ASSUME NEW r \in Reader, held[r] # Nothing, r \notin raced
               PROVE  Newest(log', held[r].node, Told(held[r].cache, held[r].node)', held[r].version)
    BY <1>1 DEF FreshReaders
  <2>1. held[r] \in Fetched
    BY DEF CacheTypes
  <2>2. PICK h \in Fetched : h = held[r] /\ h = held'[r]
    BY <1>1, <2>1
  <2>3. h.cache \in Cache /\ h.node \in Node
    BY <2>2 DEF Fetched
  <2>4. Newest(log, h.node, Told(h.cache, h.node), h.version)
    BY <2>2 DEF FreshReaders
  <2>5. Newest(log', h.node, Told(h.cache, h.node)', h.version)
    BY <1>2, <2>3, <2>4
  <2> QED
    BY <2>2, <2>5
<1> QED
  BY <1>3, <1>4, <1>5

\* A step of the manager that tells no cache anything.
LEMMA FreshQuiet ==
    ASSUME EventInv, UNCHANGED <<log, applied, caches>>, pc' \notin {"entity", "send"}
    PROVE  CacheTypes' /\ FreshCaches' /\ FreshReaders'
<1>1. ASSUME NEW k \in Cache, NEW n \in Node
      PROVE  Told(k, n)' = applied /\ applied <= Told(k, n) /\ Told(k, n) \in Nat /\ applied \in Nat
  <2>1. applied <= Told(k, n) /\ Told(k, n) \in Nat /\ applied \in Nat
    BY ToldIs DEF EventInv, ManagerTypes
  <2>2. ~Telling(k)'
    BY DEF Telling
  <2>3. Told(k, n)' = applied
    BY <2>2 DEF Told
  <2> QED
    BY <2>1, <2>3
<1>2. \A k \in Cache, n \in Node, j \in Nat :
          1 <= j /\ j <= Told(k, n)' /\ log'[j] = n => j <= Told(k, n) /\ log[j] = n
  <2> SUFFICES ASSUME NEW k \in Cache, NEW n \in Node, NEW j \in Nat,
                      1 <= j, j <= Told(k, n)', log'[j] = n
               PROVE  j <= Told(k, n) /\ log[j] = n
    OBVIOUS
  <2>1. PICK t \in Nat : t = Told(k, n) /\ applied <= t /\ Told(k, n)' = applied /\ applied \in Nat
    BY <1>1
  <2> QED
    BY <2>1
<1> QED
  BY <1>2, FreshKept DEF EventInv

\* A step that neither the log nor the manager takes part in.
LEMMA FreshStill ==
    ASSUME EventInv, UNCHANGED <<pc, batch, at, applied, caches>>,
           \A x \in 1 .. Len(log) : log'[x] = log[x]
    PROVE  CacheTypes' /\ FreshCaches' /\ FreshReaders'
<1>1. ASSUME NEW k \in Cache, NEW n \in Node
      PROVE  Told(k, n)' = Told(k, n) /\ Told(k, n) <= Len(log) /\ Told(k, n) \in Nat
  <2>1. Told(k, n) <= Len(log) /\ Told(k, n) \in Nat
    BY ToldIs DEF EventInv
  <2>2. Told(k, n)' = Told(k, n)
    BY DEF Told, Telling
  <2> QED
    BY <2>1, <2>2
<1>2. \A k \in Cache, n \in Node, j \in Nat :
          1 <= j /\ j <= Told(k, n)' /\ log'[j] = n => j <= Told(k, n) /\ log[j] = n
  <2> SUFFICES ASSUME NEW k \in Cache, NEW n \in Node, NEW j \in Nat,
                      1 <= j, j <= Told(k, n)', log'[j] = n
               PROVE  j <= Told(k, n) /\ log[j] = n
    OBVIOUS
  <2>1. PICK t \in Nat : t = Told(k, n) /\ t <= Len(log) /\ Told(k, n)' = t
    BY <1>1
  <2>2. Len(log) \in Nat
    BY DEF EventInv, LogTypes
  <2>3. j \in 1 .. Len(log)
    BY <2>1, <2>2
  <2> QED
    BY <2>1, <2>3
<1> QED
  BY <1>2, FreshKept DEF EventInv

-----------------------------------------------------------------------------
(* The server.                                                             *)

LEMMA EventStart == Init \/ InitResumed => EventInv
<1> SUFFICES ASSUME NEW s \in {None, 0}, InitWith(s) PROVE EventInv
  BY DEF Init, InitResumed
<1>1. LogTypes /\ ManagerTypes
  BY DEF InitWith, LogTypes, ManagerTypes, ManagerLabels, None
<1>2. CacheTypes
  BY DEF InitWith, CacheTypes
<1>3. Len(log) = 0
  BY DEF InitWith
<1>4. Behind
  BY <1>3 DEF InitWith, Behind, None
<1>5. Position
  BY DEF InitWith, Position
<1>6. FreshCaches
  BY DEF InitWith, FreshCaches
<1>7. FreshReaders
  BY DEF InitWith, FreshReaders
<1> QED
  BY <1>1, <1>2, <1>4, <1>5, <1>6, <1>7 DEF EventInv

LEMMA EventStutter == EventInv /\ UNCHANGED vars => EventInv'
<1> SUFFICES ASSUME EventInv, UNCHANGED vars PROVE EventInv'
  OBVIOUS
<1>1. CacheTypes' /\ FreshCaches' /\ FreshReaders'
  BY FreshStill DEF vars, caches
<1>2. LogTypes' /\ ManagerTypes' /\ Behind'
  BY DEF vars, EventInv, LogTypes, ManagerTypes, Behind
<1>3. Position'
  BY DEF vars, EventInv, Position
<1> QED
  BY <1>1, <1>2, <1>3 DEF EventInv

LEMMA ChangeKeeps ==
    ASSUME EventInv, NEW e \in Node \cup {Hidden}, Change(e)
    PROVE  EventInv'
<1>1. /\ log \in Seq(Node \cup {Hidden}) /\ Len(log) \in Nat
      /\ log' \in Seq(Node \cup {Hidden}) /\ Len(log') = Len(log) + 1
      /\ \A x \in 1 .. Len(log) : log'[x] = log[x]
  BY AppendProperties DEF EventInv, LogTypes, Change
<1>2. /\ UNCHANGED <<floor, stored, pc, cursor, page, batch, at, applied>> /\ UNCHANGED caches
  BY DEF Change
<1>3. CacheTypes' /\ FreshCaches' /\ FreshReaders'
  BY <1>1, <1>2, FreshStill
<1>4. LogTypes' /\ ManagerTypes'
  BY <1>1, <1>2 DEF EventInv, LogTypes, ManagerTypes
<1>5. Behind'
  BY <1>1, <1>2 DEF EventInv, Behind, ManagerTypes
<1>6. Position'
  <2>1. batch \in Seq(EventRec) /\ (pc \notin {"start", "seed"} => cursor \in Nat)
    BY DEF EventInv, ManagerTypes, Behind
  <2>2. Len(log) <= Len(log')
    BY <1>1
  <2>3. ASSUME pc = "page"
        PROVE  page \in Nat /\ at = 1 /\ Gapless(log', batch, cursor) /\ Paged(log', batch, cursor, page)
    <3>1. cursor \in Nat /\ page \in Nat /\ at = 1 /\ Gapless(log, batch, cursor) /\ Paged(log, batch, cursor, page)
      BY <2>1, <2>3 DEF EventInv, Position
    <3> QED
      BY <1>1, <2>1, <2>2, <3>1, GaplessGrows
  <2>4. ASSUME pc \in {"apply", "entity", "send"}
        PROVE  /\ at \in 1 .. Len(batch) /\ Gapless(log', batch, cursor)
               /\ Prior(batch, cursor, at) <= applied
    <3>1. cursor \in Nat /\ at \in 1 .. Len(batch) /\ Gapless(log, batch, cursor) /\ Prior(batch, cursor, at) <= applied
      BY <2>1, <2>4 DEF EventInv, Position
    <3> QED
      BY <1>1, <2>1, <2>2, <3>1, GaplessGrows
  <2> QED
    BY <1>2, <2>3, <2>4 DEF EventInv, Position
<1> QED
  BY <1>3, <1>4, <1>5, <1>6 DEF EventInv

LEMMA TruncateKeeps ==
    ASSUME EventInv, Truncate
    PROVE  EventInv'
<1>1. UNCHANGED <<log, stored, pc, cursor, page, batch, at, applied, caches>> /\ floor' = Len(log)
  BY DEF Truncate, HeadId
<1>2. CacheTypes' /\ FreshCaches' /\ FreshReaders'
  BY <1>1, FreshStill
<1>3. LogTypes' /\ ManagerTypes' /\ Behind'
  BY <1>1 DEF EventInv, LogTypes, ManagerTypes, Behind
<1>4. Position'
  BY <1>1 DEF EventInv, Position
<1> QED
  BY <1>2, <1>3, <1>4 DEF EventInv

-----------------------------------------------------------------------------
(* The manager finds its cursor and pages.                                 *)

LEMMA StartKeeps ==
    ASSUME EventInv, Resume \/ MustSeed \/ SeedFails \/ Poll \/ PageFails
    PROVE  EventInv'
<1>1. /\ UNCHANGED <<log, floor, stored, applied>> /\ UNCHANGED caches
      /\ pc' \in {"sleep", "seed", "page"}
  BY DEF Resume, MustSeed, SeedFails, Poll, PageFails, server
<1>2. CacheTypes' /\ FreshCaches' /\ FreshReaders'
  BY <1>1, FreshQuiet
<1>3. ManagerTypes /\ LogTypes /\ Behind /\ Position
  BY DEF EventInv
<1>4. LogTypes'
  BY <1>1, <1>3 DEF LogTypes
<1>5. ManagerTypes' /\ Behind' /\ Position'
  <2>1. CASE Resume
    <3>1. /\ cursor' = stored /\ stored \in Nat /\ stored <= applied
          /\ UNCHANGED <<page, batch, at>> /\ pc' = "sleep"
      BY <1>3, <2>1 DEF Resume, ManagerTypes, Behind
    <3> QED
      BY <1>1, <1>3, <3>1 DEF ManagerTypes, ManagerLabels, Behind, Position
  <2>2. CASE MustSeed \/ SeedFails
    <3>1. UNCHANGED <<cursor, page, batch, at>> /\ pc' = "seed"
      BY <2>2 DEF MustSeed, SeedFails
    <3> QED
      BY <1>1, <1>3, <3>1 DEF ManagerTypes, ManagerLabels, Behind, Position
  <2>3. CASE Poll
    <3>1. /\ UNCHANGED cursor /\ cursor \in Nat /\ cursor <= applied /\ page' = cursor
          /\ batch' = <<>> /\ at' = 1 /\ pc' = "page"
      BY <1>3, <2>3 DEF Poll, Behind
    <3>2. ManagerTypes' /\ Behind'
      BY <1>1, <1>3, <3>1 DEF ManagerTypes, ManagerLabels, Behind
    <3>3. Gapless(log, <<>>, cursor)
      BY DEF Gapless
    <3>4. cursor <= Len(log)
      BY <1>3, <3>1 DEF ManagerTypes, LogTypes, Behind
    <3>5. Paged(log, <<>>, cursor, cursor)
      BY <3>1, <3>4 DEF Paged, LastId, HiddenIn
    <3>6. Position'
      BY <1>1, <3>1, <3>3, <3>5 DEF Position
    <3> QED
      BY <3>2, <3>6
  <2>4. CASE PageFails
    <3>1. UNCHANGED <<cursor, page, batch, at>> /\ pc' = "sleep" /\ pc = "page"
      BY <2>4 DEF PageFails
    <3> QED
      BY <1>1, <1>3, <3>1 DEF ManagerTypes, ManagerLabels, Behind, Position
  <2> QED
    BY <2>1, <2>2, <2>3, <2>4
<1> QED
  BY <1>2, <1>4, <1>5 DEF EventInv

LEMMA SeedKeeps ==
    ASSUME EventInv, Seed
    PROVE  EventInv'
<1>1. /\ cursor' = Len(log) /\ applied' = Len(log) /\ pc' = "sleep"
      /\ stored' \in {stored, Len(log)}
      /\ excused' = Cache \X Node /\ raced' = {r \in Reader : held[r] # Nothing}
      /\ UNCHANGED <<log, floor, page, batch, at, cached, held>>
  BY DEF Seed, HeadId, server
<1>2. ManagerTypes /\ LogTypes /\ Behind /\ Position /\ CacheTypes
  BY DEF EventInv
<1>3. PICK top \in Nat : top = Len(log)
  BY <1>2 DEF LogTypes
<1>4. LogTypes' /\ CacheTypes'
  BY <1>1, <1>2 DEF LogTypes, CacheTypes
<1>5. ManagerTypes' /\ Behind' /\ Position'
  BY <1>1, <1>2, <1>3 DEF ManagerTypes, ManagerLabels, Behind, Position, None
<1>6. FreshCaches' /\ FreshReaders'
  BY <1>1 DEF FreshCaches, FreshReaders
<1> QED
  BY <1>2, <1>4, <1>5, <1>6 DEF EventInv

LEMMA MarkerIs ==
    ASSUME NEW kind \in {"advance", "lost"}, NEW id \in Nat
    PROVE  \E m \in EventRec : m = Marker(kind, id) /\ m.kind = kind /\ m.id = id
<1>1. PICK m : m = [kind |-> kind, id |-> id, node |-> Hidden]
  OBVIOUS
<1>2. m \in EventRec /\ m.kind = kind /\ m.id = id
  BY <1>1 DEF EventRec
<1> QED
  BY <1>1, <1>2 DEF Marker

LEMMA PageKeeps ==
    ASSUME EventInv, Page
    PROVE  EventInv'
<1>1. ManagerTypes /\ LogTypes /\ Behind /\ Position
  BY DEF EventInv
<1>2. /\ pc = "page" /\ page \in Nat /\ at = 1 /\ Gapless(log, batch, cursor)
      /\ Paged(log, batch, cursor, page) /\ cursor \in Nat /\ page <= Len(log)
      /\ batch \in Seq(EventRec)
  BY <1>1 DEF Page, Position, Behind, ManagerTypes, Paged
<1>3. PICK evs \in Seq(EventRec) : evs = PageEvents(page)
  BY <1>1, <1>2, PageIs
<1>4. Len(log) \in Nat
  BY <1>1 DEF LogTypes
<1>5. PICK end \in Nat : end = PageEnd(page) /\ page <= end /\ end <= Len(log)
  BY <1>1, <1>2, <1>4, PageIs
<1>6. Gapless(log, evs, page) /\ Paged(log, evs, page, end)
  BY <1>1, <1>2, <1>3, <1>5, PageIs
\* What the batch may be afterwards.
<1> DEFINE Full(b) == b \in Seq(EventRec) /\ b # <<>> /\ Gapless(log, b, cursor)
<1>7. Full(Append(batch, Marker("lost", Len(log))))
  <2>1. PICK m \in EventRec : m = Marker("lost", Len(log)) /\ m.kind = "lost" /\ m.id = Len(log)
    BY <1>4, MarkerIs
  <2>2. Follows(log, page, m)
    BY <1>2, <1>4, <2>1 DEF Follows
  <2> QED
    BY <1>2, <2>1, <2>2, JoinedOne
<1>8. ASSUME evs = <<>> PROVE Full(Append(batch, Marker("advance", end)))
  <2>1. PICK m \in EventRec : m = Marker("advance", end) /\ m.kind = "advance" /\ m.id = end
    BY <1>5, MarkerIs
  <2>2. HiddenIn(log, page, end)
    BY <1>6, <1>8 DEF Paged, LastId
  <2>3. Follows(log, page, m)
    BY <1>5, <2>1, <2>2 DEF Follows
  <2> QED
    BY <1>2, <2>1, <2>3, JoinedOne
<1>9. ASSUME evs # <<>> PROVE Full(batch \o evs) /\ LastId(batch \o evs, cursor) = LastId(evs, page)
  BY <1>2, <1>6, <1>9, Joined
<1>10. Full(batch) \/ batch = <<>>
  BY <1>2
<1>11. /\ UNCHANGED <<log, floor, stored, cursor, at, applied>> /\ UNCHANGED caches
  BY DEF Page, server
<1>13. \/ (Full(batch') \/ batch' = <<>>) /\ pc' = (IF batch' = <<>> THEN "sleep" ELSE "apply") /\ page' = page
       \/ /\ Full(batch') /\ pc' = "page" /\ page' = end
          /\ LastId(batch', cursor) = LastId(evs, page)
  <2> HIDE DEF Full
  <2>1. CASE page < floor
    <3>1. Collected(Append(batch, Marker("lost", Len(log))))
      BY <2>1 DEF Page, HeadId
    <3> QED
      BY <1>7, <3>1 DEF Collected
  <2>2. CASE ~(page < floor) /\ evs = <<>>
    <3>1. Collected(IF end # page THEN Append(batch, Marker("advance", end)) ELSE batch)
      BY <1>3, <1>5, <2>2 DEF Page
    <3>2. CASE end # page
      BY <1>8, <2>2, <3>1, <3>2 DEF Collected
    <3>3. CASE end = page
      BY <1>10, <3>1, <3>3 DEF Collected
    <3> QED
      BY <3>2, <3>3
  <2>3. CASE ~(page < floor) /\ evs # <<>> /\ end = HeadId
    <3>1. Collected(batch \o evs)
      BY <1>3, <1>5, <2>3 DEF Page
    <3> QED
      BY <1>9, <2>3, <3>1 DEF Collected
  <2>4. CASE ~(page < floor) /\ evs # <<>> /\ end # HeadId
    <3>1. batch' = batch \o evs /\ page' = end /\ pc' = pc
      BY <1>3, <1>5, <2>4 DEF Page
    <3> QED
      BY <1>2, <1>9, <2>4, <3>1
  <2> QED
    BY <2>1, <2>2, <2>3, <2>4
<1>14. CacheTypes' /\ FreshCaches' /\ FreshReaders'
  <2>1. pc' \notin {"entity", "send"}
    BY <1>13
  <2> QED
    BY <1>11, <2>1, FreshQuiet
<1>15. LogTypes'
  BY <1>1, <1>11 DEF LogTypes
<1>16. ManagerTypes' /\ Behind'
  <2>1. batch' \in Seq(EventRec)
    <3>1. CASE batch' = <<>>
      BY <3>1
    <3>2. CASE Full(batch')
      BY <3>2
    <3> HIDE DEF Full
    <3> QED
      BY <1>13, <3>1, <3>2
  <2>2. page' \in Nat /\ pc' \in {"sleep", "apply", "page"}
    <3> HIDE DEF Full
    <3> QED
      BY <1>2, <1>5, <1>13
  <2> QED
    BY <1>1, <1>2, <1>11, <2>1, <2>2 DEF ManagerTypes, ManagerLabels, Behind
<1>17. Position'
  <2>1. CASE pc' = "sleep"
    BY <2>1 DEF Position
  <2>2. CASE pc' = "apply"
    <3>1. Full(batch')
      BY <1>13, <2>2
    <3>2. 1 \in 1 .. Len(batch')
      BY <3>1, EmptySeq
    <3>3. Prior(batch', cursor, 1) <= applied
      BY <1>1 DEF Prior, Behind
    <3> QED
      BY <1>2, <1>11, <2>2, <3>1, <3>2, <3>3 DEF Position
  <2>3. CASE pc' = "page"
    <3>1. Full(batch') /\ page' = end /\ LastId(batch', cursor) = LastId(evs, page)
      BY <1>13, <2>3
    <3>2. Paged(log, batch', cursor, end)
      BY <1>6, <3>1 DEF Paged
    <3> QED
      BY <1>2, <1>5, <1>11, <2>3, <3>1, <3>2 DEF Position
  <2> QED
    BY <1>13, <2>1, <2>2, <2>3
<1> QED
  BY <1>14, <1>15, <1>16, <1>17 DEF EventInv

\* The cursor saved is the id of the last event that was broadcast.
LEMMA SaveKeeps ==
    ASSUME EventInv, Save
    PROVE  EventInv'
<1>1. ManagerTypes /\ LogTypes /\ Behind /\ Position
  BY DEF EventInv
<1>2. PICK id : id = batch[Len(batch)].id
  OBVIOUS
<1>3. /\ cursor' = id /\ stored' \in {stored, id} /\ pc = "save" /\ pc' = "sleep"
      /\ batch' = <<>> /\ at' = 1 /\ UNCHANGED <<log, floor, page, applied>> /\ UNCHANGED caches
  BY <1>2 DEF Save, server
<1>4. id \in Nat /\ id <= applied
  <2>1. batch # <<>> /\ LastId(batch, cursor) <= applied /\ batch \in Seq(EventRec) /\ cursor \in Nat
    BY <1>1, <1>3 DEF Position, ManagerTypes, Behind
  <2>2. LastId(batch, cursor) = id
    BY <1>2, <2>1 DEF LastId
  <2>3. LastId(batch, cursor) \in Nat
    BY <2>1, PriorIs
  <2> QED
    BY <2>1, <2>2, <2>3
<1>5. CacheTypes' /\ FreshCaches' /\ FreshReaders'
  BY <1>3, FreshQuiet
<1>6. LogTypes' /\ ManagerTypes' /\ Behind' /\ Position'
  BY <1>1, <1>3, <1>4 DEF LogTypes, ManagerTypes, ManagerLabels, Behind, Position
<1> QED
  BY <1>5, <1>6 DEF EventInv

-----------------------------------------------------------------------------
(* The readers.                                                            *)

\* What a step of a reader leaves alone.
LEMMA ReaderLeaves ==
    ASSUME EventInv, UNCHANGED <<log, floor, stored, pc, cursor, page, batch, at, applied>>
    PROVE  /\ LogTypes' /\ ManagerTypes' /\ Behind' /\ Position'
           /\ \A k \in Cache, n \in Node : Told(k, n)' = Told(k, n)
<1>1. LogTypes' /\ ManagerTypes' /\ Behind'
  BY DEF EventInv, LogTypes, ManagerTypes, Behind
<1>2. Position'
  BY DEF EventInv, Position
<1>3. \A k \in Cache, n \in Node : Told(k, n)' = Told(k, n)
  BY DEF Told, Telling
<1> QED
  BY <1>1, <1>2, <1>3

\* A reader no step tells anything.
LEMMA ReaderKept ==
    ASSUME CacheTypes, FreshReaders, NEW s \in Reader,
           held[s] # Nothing, s \notin raced, held'[s] = held[s], log' = log,
           \A k \in Cache, n \in Node :
               k = held[s].cache /\ n = held[s].node => Told(k, n)' = Told(k, n)
    PROVE  Newest(log', held'[s].node, Told(held[s].cache, held[s].node)', held'[s].version)
<1>1. PICK g \in Fetched : g = held[s] /\ g = held'[s]
  BY DEF CacheTypes
<1>2. Newest(log, g.node, Told(g.cache, g.node), g.version)
  BY <1>1 DEF FreshReaders
<1>3. Told(held[s].cache, held[s].node)' = Told(g.cache, g.node)
  <2>1. g.cache \in Cache /\ g.node \in Node
    BY <1>1 DEF Fetched
  <2>2. Told(held[s].cache, held[s].node)' = Told(g.cache, g.node)'
    BY <1>1 DEF Told, Telling
  <2> QED
    BY <1>1, <2>1, <2>2
<1> QED
  BY <1>1, <1>2, <1>3

LEMMA FetchKeeps ==
    ASSUME EventInv, NEW r \in Reader, NEW k \in Cache, NEW n \in Node, Fetch(r, k, n)
    PROVE  EventInv'
<1>1. PICK v : v = LastTouch(n, Len(log))
  OBVIOUS
<1>2. PICK h : h = [cache |-> k, node |-> n, version |-> v]
  OBVIOUS
<1>3. /\ held' = [held EXCEPT ![r] = h] /\ raced' = raced \ {r}
      /\ UNCHANGED <<log, floor, stored, pc, cursor, page, batch, at, applied, cached, excused>>
  BY <1>1, <1>2 DEF Fetch, server, HeadId
<1>4. /\ LogTypes' /\ ManagerTypes' /\ Behind' /\ Position'
      /\ \A k2 \in Cache, n2 \in Node : Told(k2, n2)' = Told(k2, n2)
  BY <1>3, ReaderLeaves
<1>5. Len(log) \in Nat
  BY DEF EventInv, LogTypes
<1>6. v \in Nat /\ \A j \in 1 .. Len(log) : log[j] = n => j <= v
  BY <1>1, <1>5, LastTouchIs
<1>7. h \in Fetched /\ h.cache = k /\ h.node = n /\ h.version = v
  BY <1>2, <1>6 DEF Fetched
<1>8. held \in [Reader -> Fetched \cup {Nothing}] /\ cached \in [Cache -> [Node -> Nat \cup {None}]]
  BY DEF EventInv, CacheTypes
<1>9. CacheTypes'
  BY <1>3, <1>7, <1>8 DEF CacheTypes
<1>10. FreshCaches'
  BY <1>3, <1>4 DEF EventInv, FreshCaches
<1>11. Newest(log, n, Told(k, n), v)
  <2>1. PICK t \in Nat : t = Told(k, n) /\ t <= Len(log)
    BY ToldIs DEF EventInv
  <2> QED
    BY <1>5, <1>6, <2>1 DEF Newest
<1>12. FreshReaders'
  <2> SUFFICES ASSUME NEW s \in Reader, held'[s] # Nothing, s \notin raced'
               PROVE  Newest(log', held'[s].node, Told(held[s].cache, held[s].node)', held'[s].version)
    BY DEF FreshReaders
  <2>1. CASE s = r
    <3>1. held'[s] = h
      BY <1>3, <1>8, <2>1
    <3>2. Told(held[s].cache, held[s].node)' = Told(k, n)
      <4>1. Told(held[s].cache, held[s].node)' = Told(k, n)'
        BY <1>7, <3>1 DEF Told, Telling
      <4> QED
        BY <1>4, <4>1
    <3> QED
      BY <1>3, <1>7, <1>11, <3>1, <3>2
  <2>2. CASE s # r
    <3>1. held'[s] = held[s] /\ s \notin raced
      BY <1>3, <1>8, <2>2
    <3> QED
      BY <1>3, <1>4, <3>1, ReaderKept DEF EventInv
  <2> QED
    BY <2>1, <2>2
<1> QED
  BY <1>4, <1>9, <1>10, <1>12 DEF EventInv

LEMMA PutKeeps ==
    ASSUME EventInv, NEW r \in Reader, Put(r)
    PROVE  EventInv'
<1>1. held \in [Reader -> Fetched \cup {Nothing}] /\ cached \in [Cache -> [Node -> Nat \cup {None}]]
  BY DEF EventInv, CacheTypes
<1>2. PICK h \in Fetched : h = held[r] /\ held[r] # Nothing
  BY <1>1 DEF Put
<1>3. PICK k \in Cache, n \in Node, v \in Nat : k = h.cache /\ n = h.node /\ v = h.version
  BY <1>2 DEF Fetched
<1>4. /\ cached' = [cached EXCEPT ![k][n] = v]
      /\ excused' = IF r \in raced THEN excused \cup {<<k, n>>} ELSE excused \ {<<k, n>>}
      /\ held' = [held EXCEPT ![r] = Nothing] /\ raced' = raced \ {r}
      /\ UNCHANGED <<log, floor, stored, pc, cursor, page, batch, at, applied>>
  BY <1>2, <1>3 DEF Put, server
<1>5. /\ LogTypes' /\ ManagerTypes' /\ Behind' /\ Position'
      /\ \A k2 \in Cache, n2 \in Node : Told(k2, n2)' = Told(k2, n2)
  BY <1>4, ReaderLeaves
<1>6. CacheTypes'
  <2>1. cached' \in [Cache -> [Node -> Nat \cup {None}]]
    BY <1>1, <1>4
  <2>2. held' \in [Reader -> Fetched \cup {Nothing}]
    BY <1>1, <1>4
  <2> QED
    BY <2>1, <2>2 DEF CacheTypes
<1>7. FreshCaches'
  <2> SUFFICES ASSUME NEW k2 \in Cache, NEW n2 \in Node, cached'[k2][n2] # None, <<k2, n2>> \notin excused'
               PROVE  Newest(log', n2, Told(k2, n2)', cached'[k2][n2])
    BY DEF FreshCaches
  <2>1. CASE k2 = k /\ n2 = n
    <3>1. cached'[k2][n2] = v
      BY <1>1, <1>4, <2>1
    <3>2. r \notin raced
      BY <1>4, <2>1
    <3>3. Newest(log, n, Told(k, n), v)
      BY <1>2, <1>3, <3>2 DEF EventInv, FreshReaders
    <3> QED
      BY <1>4, <1>5, <2>1, <3>1, <3>3
  <2>2. CASE k2 # k \/ n2 # n
    <3>1. cached'[k2][n2] = cached[k2][n2]
      BY <1>1, <1>4, <2>2
    <3>2. <<k2, n2>> \notin excused
      BY <1>4, <2>2
    <3>3. Newest(log, n2, Told(k2, n2), cached[k2][n2])
      BY <3>1, <3>2 DEF EventInv, FreshCaches
    <3> QED
      BY <1>4, <1>5, <3>1, <3>3
  <2> QED
    BY <2>1, <2>2
<1>8. FreshReaders'
  <2> SUFFICES ASSUME NEW s \in Reader, held'[s] # Nothing, s \notin raced'
               PROVE  Newest(log', held'[s].node, Told(held[s].cache, held[s].node)', held'[s].version)
    BY DEF FreshReaders
  <2>1. s # r /\ held'[s] = held[s] /\ s \notin raced
    BY <1>1, <1>4
  <2> QED
    BY <1>4, <1>5, <2>1, ReaderKept DEF EventInv
<1> QED
  BY <1>5, <1>6, <1>7, <1>8 DEF EventInv

LEMMA EvictKeeps ==
    ASSUME EventInv, NEW k \in Cache, NEW n \in Node, Evict(k, n)
    PROVE  EventInv'
<1>1. held \in [Reader -> Fetched \cup {Nothing}] /\ cached \in [Cache -> [Node -> Nat \cup {None}]]
  BY DEF EventInv, CacheTypes
<1>2. /\ cached' = [cached EXCEPT ![k][n] = None] /\ excused' = excused \ {<<k, n>>}
      /\ held' = held /\ raced' = raced
      /\ UNCHANGED <<log, floor, stored, pc, cursor, page, batch, at, applied>>
  BY DEF Evict, server
<1>3. /\ LogTypes' /\ ManagerTypes' /\ Behind' /\ Position'
      /\ \A k2 \in Cache, n2 \in Node : Told(k2, n2)' = Told(k2, n2)
  BY <1>2, ReaderLeaves
<1>4. CacheTypes'
  <2>1. cached' \in [Cache -> [Node -> Nat \cup {None}]]
    BY <1>1, <1>2
  <2> QED
    BY <1>1, <1>2, <2>1 DEF CacheTypes
<1>5. FreshCaches'
  <2> SUFFICES ASSUME NEW k2 \in Cache, NEW n2 \in Node, cached'[k2][n2] # None, <<k2, n2>> \notin excused'
               PROVE  Newest(log', n2, Told(k2, n2)', cached'[k2][n2])
    BY DEF FreshCaches
  <2>1. k2 # k \/ n2 # n
    BY <1>1, <1>2
  <2>2. cached'[k2][n2] = cached[k2][n2]
    BY <1>1, <1>2, <2>1
  <2>3. <<k2, n2>> \notin excused
    BY <1>2, <2>1
  <2>4. Newest(log, n2, Told(k2, n2), cached[k2][n2])
    BY <2>2, <2>3 DEF EventInv, FreshCaches
  <2> QED
    BY <1>2, <1>3, <2>2, <2>4
<1>6. FreshReaders'
  <2> SUFFICES ASSUME NEW s \in Reader, held'[s] # Nothing, s \notin raced'
               PROVE  Newest(log', held'[s].node, Told(held[s].cache, held[s].node)', held'[s].version)
    BY DEF FreshReaders
  <2> QED
    BY <1>2, <1>3, ReaderKept DEF EventInv
<1> QED
  BY <1>3, <1>4, <1>5, <1>6 DEF EventInv

-----------------------------------------------------------------------------
(* An event is applied.                                                    *)

\* The entries of the nodes ns are forgotten; what is told of the others stays.
LEMMA ForgetKeeps ==
    ASSUME EventInv, NEW k \in Cache, NEW ns, Forget(k, ns), log' = log,
           \A k2 \in Cache, n2 \in Node : k2 # k \/ n2 \notin ns => Told(k2, n2)' = Told(k2, n2)
    PROVE  CacheTypes' /\ FreshCaches' /\ FreshReaders'
<1>1. held \in [Reader -> Fetched \cup {Nothing}] /\ cached \in [Cache -> [Node -> Nat \cup {None}]]
  BY DEF EventInv, CacheTypes
<1>2. /\ cached' = [cached EXCEPT ![k] = [n \in Node |-> IF n \in ns THEN None ELSE cached[k][n]]]
      /\ raced' = raced \cup {r \in Reader : held[r].cache = k /\ held[r].node \in ns}
      /\ excused' = excused \ ({k} \X ns)
      /\ held' = held
  BY DEF Forget
<1>3. CacheTypes'
  <2>1. cached' \in [Cache -> [Node -> Nat \cup {None}]]
    BY <1>1, <1>2
  <2> QED
    BY <1>1, <1>2, <2>1 DEF CacheTypes
<1>4. FreshCaches'
  <2> SUFFICES ASSUME NEW k2 \in Cache, NEW n2 \in Node, cached'[k2][n2] # None, <<k2, n2>> \notin excused'
               PROVE  Newest(log', n2, Told(k2, n2)', cached'[k2][n2])
    BY DEF FreshCaches
  <2>1. k2 # k \/ n2 \notin ns
    BY <1>1, <1>2
  <2>2. cached'[k2][n2] = cached[k2][n2]
    BY <1>1, <1>2, <2>1
  <2>3. <<k2, n2>> \notin excused
    BY <1>2, <2>1
  <2>4. Newest(log, n2, Told(k2, n2), cached[k2][n2])
    BY <2>2, <2>3 DEF EventInv, FreshCaches
  <2> QED
    BY <2>1, <2>2, <2>4
<1>5. FreshReaders'
  <2> SUFFICES ASSUME NEW s \in Reader, held'[s] # Nothing, s \notin raced'
               PROVE  Newest(log', held'[s].node, Told(held[s].cache, held[s].node)', held'[s].version)
    BY DEF FreshReaders
  <2>1. held'[s] = held[s] /\ s \notin raced /\ (held[s].cache # k \/ held[s].node \notin ns)
    BY <1>2
  <2> QED
    BY <2>1, ReaderKept DEF EventInv
<1> QED
  BY <1>3, <1>4, <1>5

\* What applying an event leaves alone.
LEMMA ApplyLeaves ==
    ASSUME EventInv, pc \in {"apply", "entity"}, pc' \in {"entity", "send"},
           UNCHANGED <<log, floor, stored, cursor, page, batch, at, applied>>
    PROVE  LogTypes' /\ ManagerTypes' /\ Behind' /\ Position'
<1>1. ManagerTypes /\ LogTypes /\ Behind /\ Position
  BY DEF EventInv
<1>2. LogTypes' /\ ManagerTypes' /\ Behind'
  BY <1>1 DEF LogTypes, ManagerTypes, ManagerLabels, Behind
<1>3. Position'
  BY <1>1 DEF Position
<1> QED
  BY <1>2, <1>3

LEMMA ApplyKeysKeeps ==
    ASSUME EventInv, ApplyKeys
    PROVE  EventInv'
<1>1. /\ pc = "apply" /\ pc' = "entity" /\ Forget("key", Affected(batch[at]))
      /\ UNCHANGED <<log, floor, stored, cursor, page, batch, at, applied>>
  BY DEF ApplyKeys, server
<1>2. LogTypes' /\ ManagerTypes' /\ Behind' /\ Position'
  BY <1>1, ApplyLeaves
<1>3. ASSUME NEW k \in Cache, NEW n \in Node, k # "key" \/ n \notin Affected(batch[at])
      PROVE  Told(k, n)' = Told(k, n)
  <2>1. Told(k, n) = applied
    BY <1>1 DEF Told, Telling
  <2>2. Told(k, n)' = applied
    <3>1. CASE k # "key"
      BY <1>1, <3>1 DEF Told, Telling
    <3>2. CASE n \notin Affected(batch[at])
      <4>1. n \notin Affected(batch[at])'
        BY <1>1, <3>2 DEF Affected
      <4> QED
        BY <1>1, <4>1 DEF Told
    <3> QED
      BY <1>3, <3>1, <3>2
  <2> QED
    BY <2>1, <2>2
<1>4. "key" \in Cache
  BY DEF Cache
<1>5. CacheTypes' /\ FreshCaches' /\ FreshReaders'
  BY <1>1, <1>3, <1>4, ForgetKeeps
<1> QED
  BY <1>2, <1>5 DEF EventInv

LEMMA EntitiesTold ==
    ASSUME pc = "entity", pc' = "send", UNCHANGED <<batch, at, applied>>,
           NEW k \in Cache, NEW n \in Node, k # "entity" \/ n \notin Affected(batch[at])
    PROVE  Told(k, n)' = Told(k, n)
<1>1. Affected(batch[at])' = Affected(batch[at])
  BY DEF Affected
<1>2. CASE k # "entity"
  <2>1. k = "key"
    BY <1>2 DEF Cache
  <2> QED
    BY <1>1, <2>1 DEF Told, Telling
<1>3. CASE n \notin Affected(batch[at])
  BY <1>1, <1>3 DEF Told
<1> QED
  BY <1>2, <1>3

LEMMA ApplyEntitiesKeeps ==
    ASSUME EventInv, ApplyEntities
    PROVE  EventInv'
<1>1. /\ pc = "entity" /\ pc' = "send" /\ Forget("entity", Affected(batch[at]))
      /\ UNCHANGED <<log, floor, stored, cursor, page, batch, at, applied>>
  BY DEF ApplyEntities, server
<1>2. LogTypes' /\ ManagerTypes' /\ Behind' /\ Position'
  BY <1>1, ApplyLeaves
<1>3. \A k \in Cache, n \in Node :
          k # "entity" \/ n \notin Affected(batch[at]) => Told(k, n)' = Told(k, n)
  BY <1>1, EntitiesTold
<1>4. "entity" \in Cache
  BY DEF Cache
<1>5. CacheTypes' /\ FreshCaches' /\ FreshReaders'
  BY <1>1, <1>3, <1>4, ForgetKeeps
<1> QED
  BY <1>2, <1>5 DEF EventInv

LEMMA ApplyFailsKeeps ==
    ASSUME EventInv, ApplyFails
    PROVE  EventInv'
<1>1. PICK ns : ns = Affected(batch[at])
  OBVIOUS
<1>2. /\ pc = "entity" /\ pc' = "send"
      /\ excused' = excused \cup ({"entity"} \X ns)
      /\ raced' = raced \cup {r \in Reader : held[r].cache = "entity" /\ held[r].node \in ns}
      /\ UNCHANGED <<log, floor, stored, cursor, page, batch, at, applied, cached, held>>
  BY <1>1 DEF ApplyFails, server
<1>3. LogTypes' /\ ManagerTypes' /\ Behind' /\ Position'
  BY <1>2, ApplyLeaves
<1>4. \A k \in Cache, n \in Node : k # "entity" \/ n \notin ns => Told(k, n)' = Told(k, n)
  BY <1>1, <1>2, EntitiesTold
<1>5. CacheTypes'
  BY <1>2 DEF EventInv, CacheTypes
<1>6. FreshCaches'
  <2> SUFFICES ASSUME NEW k \in Cache, NEW n \in Node, cached[k][n] # None, <<k, n>> \notin excused'
               PROVE  Newest(log', n, Told(k, n)', cached'[k][n])
    BY <1>2 DEF FreshCaches
  <2>1. (k # "entity" \/ n \notin ns) /\ <<k, n>> \notin excused
    BY <1>2
  <2>2. Newest(log, n, Told(k, n), cached[k][n])
    BY <2>1 DEF EventInv, FreshCaches
  <2> QED
    BY <1>2, <1>4, <2>1, <2>2
<1>7. FreshReaders'
  <2> SUFFICES ASSUME NEW s \in Reader, held'[s] # Nothing, s \notin raced'
               PROVE  Newest(log', held'[s].node, Told(held[s].cache, held[s].node)', held'[s].version)
    BY DEF FreshReaders
  <2>1. held'[s] = held[s] /\ s \notin raced /\ (held[s].cache # "entity" \/ held[s].node \notin ns)
    BY <1>2
  <2> QED
    BY <1>2, <1>4, <2>1, ReaderKept DEF EventInv
<1> QED
  BY <1>3, <1>5, <1>6, <1>7 DEF EventInv

LEMMA SendKeeps ==
    ASSUME EventInv, Send
    PROVE  EventInv'
<1>1. ManagerTypes /\ LogTypes /\ Behind /\ Position /\ pc = "send"
  BY DEF EventInv, Send
<1>2. PICK e \in EventRec : e = batch[at]
  BY <1>1, BatchAt
<1>3. PICK id \in Nat : id = e.id /\ id <= Len(log)
  BY <1>1, <1>2, BatchAt
<1>4. /\ at \in 1 .. Len(batch) /\ Gapless(log, batch, cursor)
      /\ applied \in Nat /\ Len(log) \in Nat /\ applied <= Len(log) /\ Len(batch) \in Nat
      /\ cursor \in Nat /\ batch \in Seq(EventRec)
  BY <1>1 DEF ManagerTypes, LogTypes, Behind, Position
<1>5. PICK p \in Nat : p = Prior(batch, cursor, at) /\ p <= applied /\ Follows(log, p, e)
  BY <1>1, <1>2, <1>4, BatchAt, PriorIs
<1>6. PICK new : new = Max({applied, id})
  OBVIOUS
<1>7. new \in {applied, id} /\ new >= applied /\ new >= id
  <2>1. PICK old \in Nat : old = applied
    BY <1>4
  <2>2. \E m \in {old, id} : \A y \in {old, id} : m >= y
    BY <2>1
  <2>3. new \in {old, id} /\ \A y \in {old, id} : new >= y
    BY <1>6, <2>1, <2>2 DEF Max
  <2> QED
    BY <2>1, <2>3
<1>8. /\ applied' = new /\ at' = at + 1
      /\ pc' = (IF at = Len(batch) THEN "save" ELSE "apply")
      /\ UNCHANGED <<log, floor, stored, cursor, page, batch>> /\ UNCHANGED caches
  BY <1>2, <1>3, <1>6 DEF Send, server
<1>9. ManagerTypes' /\ LogTypes' /\ Behind'
  <2>1. new \in Nat /\ new <= Len(log) /\ at + 1 \in Nat
    BY <1>3, <1>4, <1>7
  <2>2. pc' \in {"save", "apply"}
    BY <1>8
  <2>3. stored <= new /\ cursor <= new
    BY <1>1, <1>4, <1>7, <2>1 DEF Behind, ManagerTypes, None
  <2> QED
    BY <1>1, <1>4, <1>8, <2>1, <2>2, <2>3 DEF ManagerTypes, ManagerLabels, LogTypes, Behind
<1>10. Position'
  <2>1. CASE at = Len(batch)
    <3>1. batch # <<>> /\ LastId(batch, cursor) = id
      BY <1>2, <1>3, <1>4, <2>1 DEF LastId
    <3> QED
      BY <1>7, <1>8, <2>1, <3>1 DEF Position
  <2>2. CASE at # Len(batch)
    <3>1. at + 1 \in 1 .. Len(batch) /\ at + 1 # 1 /\ (at + 1) - 1 = at
      BY <1>4, <2>2
    <3>2. Prior(batch, cursor, at + 1) = id
      BY <1>2, <1>3, <3>1 DEF Prior
    <3> QED
      BY <1>4, <1>7, <1>8, <2>2, <3>1, <3>2 DEF Position
  <2> QED
    BY <2>1, <2>2
<1>11. CacheTypes' /\ FreshCaches' /\ FreshReaders'
  <2>1. ASSUME NEW k \in Cache, NEW n \in Node, NEW j \in Nat,
               1 <= j, j <= Told(k, n)', log'[j] = n
        PROVE  j <= Told(k, n) /\ log[j] = n
    <3>1. Told(k, n)' = new
      BY <1>8 DEF Told, Telling
    <3>2. log[j] = n /\ j <= new
      BY <1>8, <2>1, <3>1
    <3>3. PICK t \in Nat : t = Told(k, n) /\ applied <= t
      BY <1>1, ToldIs
    <3>4. ASSUME applied < j PROVE j <= t
      <4>1. j <= id /\ p < j /\ id > applied
        BY <1>4, <1>5, <1>7, <3>2, <3>4
      <4>2. n # Hidden
        BY PageAssumption
      <4>3. e.kind # "advance"
        BY <1>3, <1>5, <3>2, <4>1, <4>2 DEF Follows, HiddenIn
      <4>4. n \in Affected(e)
        <5>1. CASE e.kind = "node"
          <6>1. HiddenIn(log, p, id - 1) /\ log[id] = e.node
            BY <1>3, <1>5, <5>1 DEF Follows
          <6>2. ~(j <= id - 1)
            BY <3>2, <4>1, <4>2, <6>1 DEF HiddenIn
          <6>3. j = id
            BY <4>1, <6>2
          <6> QED
            BY <3>2, <5>1, <6>1, <6>3 DEF Affected
        <5>2. CASE e.kind = "lost"
          BY <5>2 DEF Affected
        <5> QED
          BY <4>3, <5>1, <5>2 DEF EventRec
      <4>5. Telling(k)
        BY <1>1 DEF Telling, Cache
      <4>6. Told(k, n) = id
        BY <1>2, <1>3, <4>1, <4>4, <4>5 DEF Told
      <4> QED
        BY <3>3, <4>1, <4>6
    <3> QED
      BY <1>4, <3>2, <3>3, <3>4
  <2> QED
    BY <1>8, <2>1, FreshKept DEF EventInv
<1> QED
  BY <1>9, <1>10, <1>11 DEF EventInv

LEMMA CrashKeeps ==
    ASSUME EventInv, Crash
    PROVE  EventInv'
<1>1. /\ pc' = "start" /\ cursor' = None /\ page' = None /\ batch' = <<>> /\ at' = 1
      /\ cached' = [cached EXCEPT !["key"] = [n \in Node |-> None]]
      /\ held' = [r \in Reader |-> Nothing]
      /\ excused' = excused \ ({"key"} \X Node)
      /\ UNCHANGED <<log, floor, stored, applied>>
  BY DEF Crash, server
<1>2. ManagerTypes /\ LogTypes /\ Behind /\ Position /\ CacheTypes
  BY DEF EventInv
<1>3. LogTypes' /\ ManagerTypes' /\ Behind' /\ Position'
  BY <1>1, <1>2 DEF LogTypes, ManagerTypes, ManagerLabels, Behind, Position, None
<1>4. cached \in [Cache -> [Node -> Nat \cup {None}]]
  BY <1>2 DEF CacheTypes
<1>5. CacheTypes'
  <2>1. cached' \in [Cache -> [Node -> Nat \cup {None}]]
    BY <1>1, <1>4
  <2> QED
    BY <1>1, <2>1 DEF CacheTypes
<1>6. FreshCaches'
  <2> SUFFICES ASSUME NEW k \in Cache, NEW n \in Node, cached'[k][n] # None, <<k, n>> \notin excused'
               PROVE  Newest(log', n, Told(k, n)', cached'[k][n])
    BY DEF FreshCaches
  <2>1. k # "key"
    BY <1>1, <1>4
  <2>2. cached'[k][n] = cached[k][n] /\ <<k, n>> \notin excused
    BY <1>1, <1>4, <2>1
  <2>3. Newest(log, n, Told(k, n), cached[k][n])
    BY <2>2 DEF EventInv, FreshCaches
  <2>4. Told(k, n)' = applied
    BY <1>1 DEF Told, Telling
  <2>5. applied <= Told(k, n) /\ Told(k, n) \in Nat /\ applied \in Nat
    BY <1>2, ToldIs DEF ManagerTypes
  <2>6. PICK t \in Nat : t = Told(k, n)
    BY <2>5
  <2>7. Newest(log, n, applied, cached[k][n])
    BY <2>3, <2>5, <2>6 DEF Newest
  <2> QED
    BY <1>1, <2>2, <2>4, <2>7
<1>7. FreshReaders'
  BY <1>1 DEF FreshReaders
<1> QED
  BY <1>3, <1>5, <1>6, <1>7 DEF EventInv

LEMMA EventStep == EventInv /\ [Next]_vars => EventInv'
<1> SUFFICES ASSUME EventInv, [Next]_vars PROVE EventInv'
  OBVIOUS
<1>1. CASE \E e \in Node \cup {Hidden} : Change(e)
  BY <1>1, ChangeKeeps
<1>2. CASE Truncate
  BY <1>2, TruncateKeeps
<1>3. CASE \E r \in Reader, k \in Cache, n \in Node : Fetch(r, k, n)
  BY <1>3, FetchKeeps
<1>4. CASE \E r \in Reader : Put(r)
  BY <1>4, PutKeeps
<1>5. CASE \E k \in Cache, n \in Node : Evict(k, n)
  BY <1>5, EvictKeeps
<1>6. CASE Resume \/ MustSeed \/ SeedFails \/ Poll \/ PageFails
  BY <1>6, StartKeeps
<1>7. CASE Seed
  BY <1>7, SeedKeeps
<1>8. CASE Page
  BY <1>8, PageKeeps
<1>9. CASE ApplyKeys
  BY <1>9, ApplyKeysKeeps
<1>10. CASE ApplyEntities
  BY <1>10, ApplyEntitiesKeeps
<1>11. CASE ApplyFails
  BY <1>11, ApplyFailsKeeps
<1>12. CASE Send
  BY <1>12, SendKeeps
<1>13. CASE Save
  BY <1>13, SaveKeeps
<1>14. CASE Crash
  BY <1>14, CrashKeeps
<1>15. CASE UNCHANGED vars
  BY <1>15, EventStutter
<1> QED
  BY <1>1, <1>2, <1>3, <1>4, <1>5, <1>6, <1>7, <1>8, <1>9, <1>10, <1>11, <1>12, <1>13,
     <1>14, <1>15 DEF Next, Manager

\* Only a seed and a broadcast move what subscribers were told of, and a
\* broadcast passes over nothing that could be seen.
LEMMA NothingSkipped ==
    ASSUME EventInv, [Next]_vars, applied' > applied
    PROVE  \/ pc = "seed"
           \/ batch[at].kind = "lost"
           \/ \A j \in (applied + 1) .. (applied' - 1) : log[j] = Hidden
<1>1. ManagerTypes /\ LogTypes /\ Behind /\ Position /\ applied \in Nat
  BY DEF EventInv, ManagerTypes
<1>2. Seed \/ Send \/ applied' = applied
  BY DEF Next, Manager, Change, Truncate, Fetch, Put, Evict, Resume, MustSeed, SeedFails, Poll,
         Page, PageFails, ApplyKeys, ApplyEntities, ApplyFails, Save, Crash, vars
<1>3. CASE Seed
  BY <1>3 DEF Seed
<1>4. CASE Send /\ batch[at].kind # "lost"
  <2>1. PICK e \in EventRec : e = batch[at] /\ e.kind # "lost"
    BY <1>1, <1>4, BatchAt DEF Send
  <2>2. PICK id \in Nat : id = e.id
    BY <2>1 DEF EventRec
  <2>3. cursor \in Nat /\ batch \in Seq(EventRec) /\ at \in 1 .. Len(batch)
    BY <1>1, <1>4, BatchAt DEF Send, ManagerTypes, Behind
  <2>4. PICK p \in Nat : p = Prior(batch, cursor, at) /\ p <= applied /\ Follows(log, p, e)
    BY <1>1, <1>4, <2>1, <2>3, BatchAt, PriorIs DEF Send
  <2>5. applied' = id
    <3>1. applied' = Max({applied, id})
      BY <1>4, <2>1, <2>2 DEF Send
    <3>2. applied' \in {applied, id}
      BY <1>1, <3>1 DEF Max
    <3> QED
      BY <1>1, <3>2
  <2>6. e.kind = "node" \/ e.kind = "advance"
    BY <2>1 DEF EventRec
  <2>7. ASSUME NEW j \in (applied + 1) .. (id - 1) PROVE log[j] = Hidden
    <3>1. j \in Nat /\ p < j /\ j <= id - 1 /\ j <= id
      BY <1>1, <2>2, <2>4
    <3>2. HiddenIn(log, p, id - 1) \/ HiddenIn(log, p, id)
      BY <2>2, <2>4, <2>6 DEF Follows
    <3> QED
      BY <3>1, <3>2 DEF HiddenIn
  <2> QED
    BY <2>5, <2>7
<1> QED
  BY <1>1, <1>2, <1>3, <1>4

\* invalidate_caches_for_event against concurrent readers, failed requests and
\* restarts: an entry older than what subscribers were told of has a cause.
THEOREM StaleAlwaysHasCause == (Init \/ InitResumed) /\ [][Next]_vars => []StaleHasCause
<1>1. EventInv => StaleHasCause
  BY EventsTrue
<1> QED
  BY <1>1, EventStart, EventStep, PTL

\* enumerate_events and the saved cursor: whatever fails, no visible event is
\* passed over without a ContinuityLost or a seed.
THEOREM EventsNeverSkipped == (Init \/ InitResumed) /\ [][Next]_vars => NoEventSkipped
<1>1. EventInv /\ [Next]_vars =>
        [applied' > applied =>
          \/ pc = "seed"
          \/ batch[at].kind = "lost"
          \/ \A j \in (applied + 1) .. (applied' - 1) : log[j] = Hidden]_vars
  BY NothingSkipped
<1> QED
  BY <1>1, EventStart, EventStep, PTL DEF NoEventSkipped

-----------------------------------------------------------------------------
\* EntityCache implements its parts: every one of its behaviours is one of the event
\* manager and its readers, one of the loads and one of the store.
THEOREM EntityImplementsParts ==
    EntitySpec => (Init \/ InitResumed) /\ [][Next]_vars /\ FlightSpec /\ CacheSpec
<1>1. EntityInit => (Init \/ InitResumed) /\ FlightInit /\ CacheInit
  BY DEF EntityInit
<1>2. [EntityNext]_entityVars =>
        [Next]_vars /\ [FlightNext]_flightVars /\ [CacheNext]_storeCacheVars
  BY DEF EntityNext, entityVars
<1> QED
  BY <1>1, <1>2, PTL DEF EntitySpec, FlightSpec, CacheSpec
=============================================================================
