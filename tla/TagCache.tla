------------------------------ MODULE TagCache ------------------------------
(***************************************************************************)
(* What a cache repository promises (the trait CacheRepository of          *)
(* proton-sdk/src/cache.rs): a store of tagged values that may forget, and *)
(* answers with nothing but what was last stored and not removed since.    *)
(***************************************************************************)
EXTENDS FiniteSets

CONSTANTS Key, Value, Tag, NoValue

VARIABLES
    held,     \* held[k]: the value and the tags stored under k, or NoValue
    answer    \* the answer of the last read

tagVars == <<held, answer>>

TagEntry == [value : Value, tags : SUBSET Tag]

TagInit == held = [k \in Key |-> NoValue] /\ answer = NoValue

\* Some entries are forgotten, none is changed.
Forgets(new, old) == new \in [Key -> TagEntry \cup {NoValue}]
                     /\ \A k \in Key : new[k] = old[k] \/ new[k] = NoValue

\* set: the entry and its tags replace what was there; others may make room.
Put(k, v, tags) ==
    /\ held'[k] = [value |-> v, tags |-> tags]
    /\ Forgets(held', [held EXCEPT ![k] = held'[k]])
    /\ UNCHANGED answer

\* get: what is held, or a miss, which may forget.
Read(k) ==
    \/ held[k] # NoValue /\ answer' = held[k].value /\ UNCHANGED held
    \/ answer' = NoValue /\ Forgets(held', held)

\* remove, remove_by_tag, clear: no entry concerned is left.
Discard(gone) ==
    /\ \A k \in gone : held'[k] = NoValue
    /\ Forgets(held', held)
    /\ UNCHANGED answer

Tagged(tags) == {k \in Key : held[k] # NoValue /\ tags \subseteq held[k].tags}

\* get_by_tags: every entry with all the tags, or a miss.
ReadTagged(tags) ==
    \/ /\ answer' = {<<k, held[k].value>> : k \in Tagged(tags)}
       /\ UNCHANGED held
    \/ answer' = {} /\ Forgets(held', held)

TagNext ==
    \/ Discard({})
    \/ \E k \in Key : Read(k) \/ Discard({k})
    \/ \E k \in Key, v \in Value, tags \in SUBSET Tag : Put(k, v, tags)
    \/ \E t \in Tag : Discard(Tagged({t}))
    \/ Discard(Key)
    \/ \E tags \in (SUBSET Tag) \ {{}} : ReadTagged(tags)

TagSpec == TagInit /\ [][TagNext]_tagVars
=============================================================================
