---------------------------- MODULE PhotoLookup ----------------------------
(***************************************************************************)
(* Asking the photos volume what it already has (client.rs:                *)
(* find_photo_duplicates, find_photo_duplicates_many,                      *)
(* photo_name_collisions).                                                 *)
(*                                                                         *)
(* The inputs of a call are hashed, the distinct name hashes go out in     *)
(* chunks, and every photo the server names is matched with all the inputs *)
(* of its name.  The volume changes between two chunks.  A name or content *)
(* hash stands for what it is a hash of: one key of the photos root makes  *)
(* them all.                                                               *)
(***************************************************************************)
EXTENDS Selections

CONSTANTS
    Stored,         \* photos the volume may have
    PhotoName, Digest,
    NoDigest,       \* the server sent no content hash
    Wanted,         \* inputs of the calls: sequences of [name, digest]
    ChunkSize,      \* DUPLICATE_BATCH
    MaxLookups, MaxVolumeChanges

ASSUME PhotoLookupAssumption ==
    /\ IsFiniteSet(Stored) /\ NoDigest \notin Digest /\ ChunkSize \in Nat \ {0}
    /\ Wanted \subseteq Seq([name : PhotoName, digest : Digest])
    /\ MaxLookups \in Nat /\ MaxVolumeChanges \in Nat

VARIABLES
    hasPhotos,    \* ensure_photos finds a photos volume
    volume,       \* server: [Stored -> its name, digest and state]
    asking,       \* the call: "idle", "many", "one", "names", or "done"
    inputs,       \* what it was asked
    hashes,       \* name_hashes not yet sent
    matches,      \* out: for every input the photos found, in order
    result,       \* "ok" or "error"
    throughout,   \* history: photos that have not changed since the call began
    lookups, volumeChanges

lookupVars == <<hasPhotos, volume, asking, inputs, hashes, matches, result, throughout, lookups,
                volumeChanges>>

\* A draft has a name but no link id yet; a trashed photo is named with its state.
StoredPhoto == [name : PhotoName, digest : Digest \cup {NoDigest},
                state : {"none", "draft", "active", "trashed"}]

LookupInit ==
    /\ hasPhotos \in BOOLEAN
    /\ volume \in [Stored -> {p \in StoredPhoto : p.state # "none" => hasPhotos}]
    /\ asking = "idle" /\ inputs = <<>> /\ hashes = <<>> /\ matches = <<>> /\ result = "ok"
    /\ throughout = {} /\ lookups = 0 /\ volumeChanges = 0

\* The names of the inputs; the distinct ones, each where it is first met.
HashesEach(items) == [i \in 1 .. Len(items) |-> items[i].name]
NameHashes(items) ==
    LET first == {i \in 1 .. Len(items) : \A j \in 1 .. i - 1 : items[j].name # items[i].name}
    IN  Picked(HashesEach(items), first)

BeginLookup(kind, items) ==
    /\ asking \in {"idle", "done"} /\ lookups < MaxLookups /\ lookups' = lookups + 1
    /\ inputs' = items /\ matches' = [i \in 1 .. Len(items) |-> <<>>]
    /\ hashes' = NameHashes(items) /\ throughout' = Stored
    /\ IF items # <<>> /\ ~hasPhotos THEN asking' = "done" /\ result' = "error"
       ELSE asking' = kind /\ result' = "ok"
    /\ UNCHANGED <<hasPhotos, volume, volumeChanges>>

FindPhotoDuplicates(items) == Len(items) = 1 /\ BeginLookup("one", items)
FindPhotoDuplicatesMany(items) == BeginLookup("many", items)
PhotoNameCollisions(items) == BeginLookup("names", items)

\* The photo the server names counts: it has a link, is active and, where contents
\* are compared, has a content hash.
Candidate(p) ==
    /\ volume[p].state = "active"
    /\ asking # "names" => volume[p].digest # NoDigest

Matches(p, item) ==
    volume[p].name = item.name /\ (asking # "names" => volume[p].digest = item.digest)

\* The server answers a chunk with every photo of those names, whatever its state, in
\* some order; a candidate goes to every input it matches.
AskChunk ==
    /\ asking \in {"one", "many", "names"} /\ hashes # <<>>
    /\ LET n == IF Len(hashes) < ChunkSize THEN Len(hashes) ELSE ChunkSize
           chunk == {hashes[i] : i \in 1 .. n}
       IN  /\ hashes' = SubSeq(hashes, n + 1, Len(hashes))
           /\ \E found \in Orderings({p \in Stored : volume[p].name \in chunk /\ Candidate(p)}) :
                 matches' = [i \in 1 .. Len(inputs) |->
                    matches[i] \o Picked(found, {k \in DOMAIN found : Matches(found[k], inputs[i])})]
    /\ UNCHANGED <<hasPhotos, volume, asking, inputs, result, throughout, lookups, volumeChanges>>

AskChunkFails ==
    /\ asking \in {"one", "many", "names"} /\ hashes # <<>>
    /\ asking' = "done" /\ result' = "error"
    /\ UNCHANGED <<hasPhotos, volume, inputs, hashes, matches, throughout, lookups, volumeChanges>>

LookupEnds ==
    /\ asking \in {"one", "many", "names"} /\ hashes = <<>>
    /\ asking' = "done"
    /\ UNCHANGED <<hasPhotos, volume, inputs, hashes, matches, result, throughout, lookups,
                   volumeChanges>>

\* Another client uploads, trashes, restores or renames a photo.
VolumeChanges ==
    /\ hasPhotos /\ volumeChanges < MaxVolumeChanges /\ volumeChanges' = volumeChanges + 1
    /\ \E p \in Stored, to \in StoredPhoto :
          /\ volume[p] # to /\ volume' = [volume EXCEPT ![p] = to]
          /\ throughout' = throughout \ {p}
    /\ UNCHANGED <<hasPhotos, asking, inputs, hashes, matches, result, lookups>>

LookupNext ==
    \/ \E items \in Wanted : FindPhotoDuplicates(items) \/ FindPhotoDuplicatesMany(items)
                                \/ PhotoNameCollisions(items)
    \/ AskChunk \/ AskChunkFails \/ LookupEnds \/ VolumeChanges

LookupSpec == LookupInit /\ [][LookupNext]_lookupVars

\* find_photo_duplicates_many answers for every input in its own place: a photo that
\* did not change during the call is listed for exactly the inputs whose name it
\* carries and whose contents it has, once for each, even when inputs share a name
\* or the name hashes fill several chunks.  Likewise "a `false` is conclusive" for
\* photo_name_collisions, and a photo that is not active is never listed.
EachInputAnswered ==
    asking \in {"one", "many", "names"} /\ hashes = <<>> =>
        \A i \in 1 .. Len(inputs), p \in throughout :
            CountOf(matches[i], p) = IF Candidate(p) /\ Matches(p, inputs[i]) THEN 1 ELSE 0
=============================================================================
