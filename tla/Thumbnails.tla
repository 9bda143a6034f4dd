----------------------------- MODULE Thumbnails -----------------------------
(***************************************************************************)
(* A batch of thumbnails: enumerate_thumbnails of the account's client     *)
(* (client.rs) and of a public link's visitor (public_link.rs), which      *)
(* differ only in the routes they use.                                     *)
(*                                                                         *)
(* The block id of every file's thumbnail is looked up first; the ids are  *)
(* then resolved in chunks.  The server answers a chunk with blocks and    *)
(* errors, and may leave an id out, name it in both, name it twice or name *)
(* one of another chunk.  Whatever it says, the caller is owed an outcome  *)
(* for every file.                                                         *)
(*                                                                         *)
(* The caller may name a file several times.  The targets are kept by id,  *)
(* so a file found again replaces its earlier target, while every lookup   *)
(* that fails is reported.  An id, and an outcome, is known here by the    *)
(* place in the caller's list it stands for.                               *)
(***************************************************************************)
EXTENDS Integers, Sequences, FiniteSets, Functions

CONSTANTS
    Pic,               \* files
    PicLists,          \* what callers ask about: lists of files
    MaxIdsPerRequest   \* MAX_THUMBNAIL_IDS_PER_REQUEST

ASSUME ThumbnailsAssumption ==
    PicLists \subseteq Seq(Pic) /\ MaxIdsPerRequest \in Nat \ {0}

VARIABLES
    pics,         \* the files the caller named, in order
    toLookUp,     \* the places in that list whose block id is not known yet
    unreported,   \* targets: the ids that have no outcome yet
    unsent,       \* the ids no chunk has held yet
    inChunk,      \* the ids of the chunk in hand
    thumbPhase,   \* what is being worked through
    gotBlocks,    \* blocks of the answer not yet downloaded
    refused,      \* the ids the answer has an error for
    outcomes      \* the outcomes, in the order they were pushed

thumbVars == <<pics, toLookUp, unreported, unsent, inChunk, thumbPhase, gotBlocks, refused,
               outcomes>>

ThumbInit ==
    /\ pics \in PicLists
    /\ toLookUp = DOMAIN pics /\ unreported = {} /\ unsent = {} /\ inChunk = {}
    /\ thumbPhase = "lookup" /\ gotBlocks = <<>> /\ refused = {} /\ outcomes = <<>>

\* Some ids, one after the other.
InTurn(ids) == CHOOSE turn \in Injection(1 .. Cardinality(ids), ids) : TRUE

PushThumb(i, outcome) == outcomes' = Append(outcomes, [of |-> i, outcome |-> outcome])
PushErrors(ids) ==
    outcomes' = outcomes \o [i \in 1 .. Cardinality(ids) |->
                                [of |-> InTurn(ids)[i], outcome |-> "error"]]

\* file_thumbnail_target / thumbnail_target: link details, keys and the revision's
\* thumbnail headers; a file without a thumbnail of the type, or one whose lookup
\* fails, is reported at once.
FindTarget(i) ==
    /\ thumbPhase = "lookup" /\ i \in toLookUp /\ \A j \in toLookUp : i <= j
    /\ toLookUp' = toLookUp \ {i}
    /\ \/ /\ unreported' = {j \in unreported : pics[j] # pics[i]} \cup {i}
          /\ UNCHANGED outcomes
       \/ PushThumb(i, "error") /\ UNCHANGED unreported
    /\ UNCHANGED <<pics, unsent, inChunk, thumbPhase, gotBlocks, refused>>

TargetsFound ==
    /\ thumbPhase = "lookup" /\ toLookUp = {}
    /\ thumbPhase' = "chunks" /\ unsent' = unreported
    /\ UNCHANGED <<pics, toLookUp, unreported, inChunk, gotBlocks, refused, outcomes>>

\* The next chunk is resolved: it holds as many of the ids left as fit.
NextChunk(c) == Cardinality(c) = (IF Cardinality(unsent) < MaxIdsPerRequest
                                  THEN Cardinality(unsent) ELSE MaxIdsPerRequest)

\* The answer: some blocks, in some order and possibly repeated, and some errors.
ResolveChunk(c) ==
    /\ thumbPhase = "chunks" /\ unsent # {} /\ NextChunk(c)
    /\ inChunk' = c /\ unsent' = unsent \ c /\ thumbPhase' = "blocks"
    /\ gotBlocks' \in {b \in UNION {[1..n -> DOMAIN pics] : n \in 0..(Cardinality(c) + 1)} :
                      \A i \in DOMAIN b : b[i] \in c \cup unreported}
    /\ refused' \in SUBSET c
    /\ UNCHANGED <<pics, toLookUp, unreported, outcomes>>

\* The request for a chunk fails: every file of it gets that error.
ChunkFails(c) ==
    /\ thumbPhase = "chunks" /\ unsent # {} /\ NextChunk(c)
    /\ unsent' = unsent \ c
    /\ unreported' = unreported \ c
    /\ PushErrors(c \cap unreported)
    /\ UNCHANGED <<pics, toLookUp, inChunk, thumbPhase, gotBlocks, refused>>

\* A block is downloaded and decrypted, or fails; one whose id has been reported
\* already is passed over.
Unreported(i) == i \in unreported

DownloadBlock ==
    /\ thumbPhase = "blocks" /\ gotBlocks # <<>>
    /\ LET i == Head(gotBlocks) IN
       IF Unreported(i)
       THEN /\ unreported' = unreported \ {i}
            /\ \E outcome \in {"ok", "error"} : PushThumb(i, outcome)
       ELSE UNCHANGED <<unreported, outcomes>>
    /\ gotBlocks' = Tail(gotBlocks)
    /\ UNCHANGED <<pics, toLookUp, unsent, inChunk, thumbPhase, refused>>

\* The answer's errors, then what it did not mention.
SweepNot(reported) == reported
Sweep(reported) == reported \cup (inChunk \cap unreported)

CloseChunk ==
    /\ thumbPhase = "blocks" /\ gotBlocks = <<>>
    /\ PushErrors(Sweep(refused \cap unreported))
    /\ unreported' = unreported \ Sweep(refused \cap unreported)
    /\ thumbPhase' = "chunks" /\ refused' = {} /\ inChunk' = {}
    /\ UNCHANGED <<pics, toLookUp, unsent, gotBlocks>>

ThumbsDone ==
    /\ thumbPhase = "chunks" /\ unsent = {}
    /\ thumbPhase' = "done"
    /\ UNCHANGED <<pics, toLookUp, unreported, unsent, inChunk, gotBlocks, refused, outcomes>>

ThumbNext ==
    \/ \E i \in toLookUp : FindTarget(i)
    \/ TargetsFound \/ DownloadBlock \/ CloseChunk \/ ThumbsDone
    \/ \E c \in SUBSET unsent : ResolveChunk(c) \/ ChunkFails(c)

ThumbSpec == ThumbInit /\ [][ThumbNext]_thumbVars

\* Every file asked about has an outcome when the batch ends, however the server's
\* answers overlap, repeat or leave ids out, and at most one for each time it was named:
\* a file named once has exactly one.
OneOutcomeEach ==
    thumbPhase = "done" =>
        /\ \A i \in DOMAIN pics : \E k \in DOMAIN outcomes : pics[outcomes[k].of] = pics[i]
        /\ \A k, l \in DOMAIN outcomes : outcomes[k].of = outcomes[l].of => k = l
=============================================================================
