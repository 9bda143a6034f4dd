----------------------------- MODULE CacheStore -----------------------------
(***************************************************************************)
(* The repository behind the entity cache (proton-sdk/src/cache.rs and     *)
(* proton-drive-rs/src/cache.rs): a least-recently-used map with two tag   *)
(* indexes (InMemoryCacheRepository), a layer that seals each value under  *)
(* the session's key (EncryptedCacheRepository), and one that parses what  *)
(* comes back (DriveEntityCache).                                          *)
(*                                                                         *)
(* A read that cannot be opened or parsed is a miss, and clears the store  *)
(* or removes the entry in a step of its own: other tasks come between.    *)
(***************************************************************************)
EXTENDS Integers, FiniteSets

CONSTANTS
    Key,        \* cache keys
    Value,      \* what is stored
    Malformed,  \* values of an older form, which no longer parse
    Tag,        \* tags
    CipherKey,  \* encryption keys
    CacheUser,     \* tasks that read
    Capacity,   \* entries held at most
    NoValue,    \* no entry
    MaxWrites   \* bound: entries written, and clients built

ASSUME StoreAssumption ==
    /\ Malformed \subseteq Value
    /\ Capacity \in Nat \ {0} /\ MaxWrites \in Nat
    /\ IsFiniteSet(Key) /\ {"no", "clear"} \cap Key = {}

\* None is no value of an Option's type.
ASSUME NoValueAssumption ==
    /\ NoValue \notin [value : Value, under : CipherKey]
    /\ NoValue \notin [value : Value, tags : SUBSET Tag]
    /\ \A tags \in SUBSET Tag : tags # NoValue

VARIABLES
    entries,    \* entries[k]: the sealed value under k, or NoValue
    older,      \* recency: pairs of keys, the first used less recently
    keyToTags,  \* key_to_tags: the tags of k, or NoValue
    tagToKeys,  \* tag_to_keys
    cipher,     \* the key the client was built with
    clearing,   \* what each reader has still to do: "no", "clear" or the key to remove
    reply,      \* the answer of the last read
    writes      \* entries written and clients built so far

storeCacheVars == <<entries, older, keyToTags, tagToKeys, cipher, clearing, reply, writes>>

Held == {k \in Key : entries[k] # NoValue}

CacheInit ==
    /\ entries = [k \in Key |-> NoValue] /\ older = {}
    /\ keyToTags = [k \in Key |-> NoValue] /\ tagToKeys = [t \in Tag |-> {}]
    /\ cipher \in CipherKey /\ clearing = [r \in CacheUser |-> "no"]
    /\ reply = NoValue /\ writes = 0

\* LruCache: k becomes the most recently used, or is gone.
Used(k, among) == {e \in older : e[1] # k /\ e[2] # k} \cup {<<j, k>> : j \in among \ {k}}
Without(gone) == {e \in older : e[1] \notin gone /\ e[2] \notin gone}
Oldest == {k \in Held : \A j \in Held : <<j, k>> \notin older}

\* clear_tags_for_key, on both indexes.
DropTags(index, gone) == [k \in Key |-> IF k \in gone THEN NoValue ELSE index[k]]
DropKeys(index, gone) == [t \in Tag |-> index[t] \ gone]

\* The keys whose tags a set clears: the key's own and the evicted one's.
Cleared(k, evicted) == {k} \cup evicted

\* set: sealed under the cipher, stored, the oldest evicted when there is no room.
Set(k, v, tags) ==
    /\ writes < MaxWrites /\ writes' = writes + 1
    /\ \E evicted \in IF k \in Held \/ Cardinality(Held) < Capacity THEN {{}}
                      ELSE {{j} : j \in Oldest} :
          /\ entries' = [j \in Key |-> IF j = k THEN [value |-> v, under |-> cipher]
                                       ELSE IF j \in evicted THEN NoValue ELSE entries[j]]
          /\ older' = {e \in Used(k, Held) : e[1] \notin evicted /\ e[2] \notin evicted}
          /\ keyToTags' = [DropTags(keyToTags, Cleared(k, evicted)) EXCEPT ![k] = tags]
          /\ tagToKeys' = [t \in Tag |-> DropKeys(tagToKeys, Cleared(k, evicted))[t]
                                         \cup (IF t \in tags THEN {k} ELSE {})]
    /\ UNCHANGED <<cipher, clearing, reply>>

\* EncryptedCacheRepository::decrypt: opened by the key it was sealed with.
Opens(k) == entries[k].under = cipher

\* get, through the three layers: a hit, a plain miss, or a miss that is cleaned up.
Get(r, k) ==
    /\ clearing[r] = "no"
    /\ \/ /\ k \notin Held
          /\ reply' = NoValue /\ UNCHANGED <<older, clearing>>
       \/ /\ k \in Held
          /\ older' = Used(k, Held)
          /\ IF ~Opens(k) THEN clearing' = [clearing EXCEPT ![r] = "clear"] /\ UNCHANGED reply
             ELSE IF entries[k].value \in Malformed
             THEN clearing' = [clearing EXCEPT ![r] = k] /\ UNCHANGED reply
             ELSE reply' = entries[k].value /\ UNCHANGED clearing
    /\ UNCHANGED <<entries, keyToTags, tagToKeys, cipher, writes>>

\* The inner repository's remove, remove_by_tag and clear.
Removed(gone) ==
    /\ entries' = [k \in Key |-> IF k \in gone THEN NoValue ELSE entries[k]]
    /\ older' = Without(gone)
    /\ keyToTags' = DropTags(keyToTags, gone)
    /\ tagToKeys' = DropKeys(tagToKeys, gone)

Remove(k) == Removed({k}) /\ UNCHANGED <<cipher, clearing, reply, writes>>
RemoveByTag(t) == Removed(tagToKeys[t]) /\ UNCHANGED <<cipher, clearing, reply, writes>>
ClearAll == Removed(Key) /\ UNCHANGED <<cipher, clearing, reply, writes>>

\* The end of a read that could not be opened or parsed.
CleanUp(r) ==
    /\ clearing[r] # "no"
    /\ IF clearing[r] = "clear" THEN Removed(Key) ELSE Removed({clearing[r]})
    /\ clearing' = [clearing EXCEPT ![r] = "no"] /\ reply' = NoValue
    /\ UNCHANGED <<cipher, writes>>

\* Mutant of Found: any of the tags is enough.
FoundAny(tags) == {k \in Held : \E t \in tags : k \in tagToKeys[t]}

\* The keys the index has under every tag.
Found(tags) == {k \in Held : \A t \in tags : k \in tagToKeys[t]}

\* get_by_tags, without touching recency.
GetByTags(r, tags) ==
    /\ clearing[r] = "no" /\ tags # {}
    /\ IF \A k \in Found(tags) : Opens(k)
       THEN reply' = {<<k, entries[k].value>> : k \in Found(tags)} /\ UNCHANGED clearing
       ELSE clearing' = [clearing EXCEPT ![r] = "clear"] /\ UNCHANGED reply
    /\ UNCHANGED <<entries, older, keyToTags, tagToKeys, cipher, writes>>

\* The client is built anew, over a repository that outlived it.
Restart(c) ==
    /\ writes < MaxWrites /\ writes' = writes + 1
    /\ cipher' = c /\ clearing' = [r \in CacheUser |-> "no"]
    /\ UNCHANGED <<entries, older, keyToTags, tagToKeys, reply>>

CacheNext ==
    \/ \E k \in Key, v \in Value, tags \in SUBSET Tag : Set(k, v, tags)
    \/ \E k \in Key : Remove(k)
    \/ \E t \in Tag : RemoveByTag(t)
    \/ \E r \in CacheUser : \/ \E k \in Key : Get(r, k)
                         \/ \E tags \in SUBSET Tag : GetByTags(r, tags)
                         \/ CleanUp(r)
    \/ \E c \in CipherKey : Restart(c)
    \/ ClearAll

CacheSpec == CacheInit /\ [][CacheNext]_storeCacheVars

-----------------------------------------------------------------------------
(* Properties.                                                             *)

\* The two indexes and the map agree: the indexes are each other's inverse and name
\* no key that is not held, so eviction leaks nothing, and the map keeps its bound.
IndexTight ==
    /\ Cardinality(Held) <= Capacity
    /\ \A k \in Key : keyToTags[k] # NoValue <=> k \in Held
    /\ \A k \in Key, t \in Tag : k \in tagToKeys[t] <=> k \in Held /\ t \in keyToTags[k]

Abstract == INSTANCE TagCache WITH
    held <- [k \in Key |-> IF k \in Held
                           THEN [value |-> entries[k].value, tags |-> keyToTags[k]] ELSE NoValue],
    answer <- reply

\* The layered, bounded, twice indexed store is a tagged store that may forget: no
\* read, by key or by tags, ever yields a value that was replaced or removed.
ImplementsTagCache == Abstract!TagInit /\ [][Abstract!TagNext]_(Abstract!tagVars)

\* The store keeps the promise of its trait and leaks nothing doing so.
StoreSound == ImplementsTagCache /\ []IndexTight
=============================================================================
