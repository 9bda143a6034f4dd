----------------------------- MODULE Revisions -----------------------------
(***************************************************************************)
(* A file's revisions and the readers open on them: open_revision,         *)
(* read_at, download_range, download_revision, restore and delete of a     *)
(* revision (client.rs, revision.rs, transport.rs), and the same reads by  *)
(* a public link's visitor (public_link.rs).                               *)
(*                                                                         *)
(* A reader takes the file's details, then lists the blocks of the         *)
(* revision it pinned, then places the blocks by plaintext sizes that come *)
(* from the uploader's extended attributes; the file gains and loses       *)
(* revisions between any two of these steps and while it reads.            *)
(***************************************************************************)
EXTENDS Integers, Sequences, FiniteSets

CONSTANTS
    Reader,
    Uploads,        \* what is uploaded: block sizes, and the attributes recorded of them
    BlockSize,      \* DEFAULT_BLOCK_SIZE
    NoSizes,        \* an absent BlockSizes or Size
    NoRevision,
    Ranges,         \* the <<offset, length>> pairs that are read
    MaxRevisions, MaxReads

\* Where each block ends, by the sizes of the blocks: the running sum.
Ends(sizes) ==
    LET end[b \in 0 .. Len(sizes)] == IF b = 0 THEN 0 ELSE end[b - 1] + sizes[b]
    IN end

Total(sizes) == Ends(sizes)[Len(sizes)]

\* What uploaders record of their blocks: sizes and a total that are left out, or
\* cannot be (too few sizes, one that is not positive, a negative total), or are true.
Fits(layout, attrs) ==
    attrs # NoSizes =>
        /\ attrs.sizes # NoSizes =>
              /\ attrs.sizes \in Seq(Int)
              /\ Len(attrs.sizes) = Len(layout) =>
                    attrs.sizes = layout \/ \E b \in 1 .. Len(layout) : attrs.sizes[b] <= 0
        /\ attrs.total # NoSizes =>
              attrs.total \in Int /\ (attrs.total >= 0 => attrs.total = Total(layout))

ASSUME RevisionsAssumption ==
    /\ BlockSize \in Nat \ {0}
    /\ \A u \in Uploads : u.layout \in Seq(1..BlockSize) /\ Fits(u.layout, u.attrs)
    /\ Ranges \subseteq Nat \X Nat
    /\ MaxRevisions \in Nat \ {0} /\ MaxReads \in Nat

VARIABLES
    revisions,   \* the file's revisions, by id: state, layout, attributes and content
    restoring,   \* restores the server accepted and has not applied
    entry,       \* the active revision in the client's entity cache
    reader,      \* [Reader -> where it is and what it knows]
    readCount

revisionVars == <<revisions, restoring, entry, reader, readCount>>

Closed == [at |-> "closed", visitor |-> FALSE, rev |-> 0, attrs |-> NoSizes, sizes |-> <<>>,
           from |-> 0, to |-> 0, out |-> <<>>]

Revision(state, l, attrs, of) == [state |-> state, layout |-> l, attrs |-> attrs, content |-> of]

RevisionsInit ==
    /\ \E u \in Uploads : revisions = <<Revision("active", u.layout, u.attrs, 1)>>
    /\ restoring = {} /\ entry = NoRevision
    /\ reader = [r \in Reader |-> Closed] /\ readCount = 0

Active == CHOOSE i \in DOMAIN revisions : revisions[i].state = "active"

\* The plaintext of a revision is the sequence of its bytes, each known by the
\* content it belongs to and its place in it; a block is a piece of it.
Text(layout, of) == [n \in 1 .. Total(layout) |-> <<of, n>>]
Pieces(text, layout) ==
    [b \in 1 .. Len(layout) |-> SubSeq(text, Ends(layout)[b - 1] + 1, Ends(layout)[b])]

Content(i) == Text(revisions[i].layout, revisions[i].content)
BlocksOf(i) == Pieces(Content(i), revisions[i].layout)

Others == UNCHANGED <<restoring, entry, reader, readCount>>

-----------------------------------------------------------------------------
(* The history.                                                             *)

\* An upload is committed: a new active revision, the old one superseded.
AddRevision(l, attrs, of) ==
    /\ Len(revisions) < MaxRevisions
    /\ revisions' = Append([i \in DOMAIN revisions |->
                              IF i = Active THEN [revisions[i] EXCEPT !.state = "superseded"]
                              ELSE revisions[i]],
                           Revision("active", l, attrs, of))

CommitRevision ==
    /\ \E u \in Uploads : AddRevision(u.layout, u.attrs, Len(revisions) + 1)
    /\ Others

\* restore_revision: the server applies it now or later (202), the client drops the
\* file's entity entry; an error leaves the entry.
RestoreRevision(i) ==
    /\ revisions[i].state = "superseded"
    /\ restoring' = restoring \cup {i} /\ entry' = NoRevision
    /\ UNCHANGED <<revisions, reader, readCount>>

\* The restored content becomes a new revision.
ApplyRestore(i) ==
    /\ i \in restoring
    /\ IF revisions[i].state = "superseded"
       THEN AddRevision(revisions[i].layout, revisions[i].attrs, revisions[i].content)
       ELSE UNCHANGED revisions
    /\ restoring' = restoring \ {i}
    /\ UNCHANGED <<entry, reader, readCount>>

\* delete_revision; the server refuses the active one.
DeleteRevision(i) ==
    /\ revisions[i].state = "superseded"
    /\ revisions' = [revisions EXCEPT ![i].state = "deleted"]
    /\ Others

\* get_node on an entity miss.
CacheNode ==
    /\ entry = NoRevision
    /\ entry' = Active
    /\ UNCHANGED <<revisions, restoring, reader, readCount>>

-----------------------------------------------------------------------------
(* Opening a reader.                                                        *)

\* What the details carry of revision i's attributes: only the active one's.
DetailAttrsAny(i) == revisions[Active].attrs

DetailAttrs(i) == IF i = Active THEN revisions[i].attrs ELSE NoSizes

\* The file's details: an explicit revision wins, otherwise the one active now is
\* pinned.  A visitor keeps the active revision's attributes of this answer.
OpenRevision(r, i, visitor) ==
    /\ reader[r].at = "closed"
    /\ reader' = [reader EXCEPT ![r] =
                    [Closed EXCEPT !.at = "pinned", !.rev = i, !.visitor = visitor,
                       !.attrs = DetailAttrs(i)]]
    /\ UNCHANGED <<revisions, restoring, entry, readCount>>

\* rank_block_sizes: the recorded sizes when there is one for every block, refused if
\* one is not positive; else full blocks and a rest from the total; else a single block;
\* otherwise it refuses.
RankedFromTotal(total, count) ==
    [b \in 1..count |->
        LET rest == total - BlockSize * (b - 1)
        IN IF rest < 0 THEN 0 ELSE IF rest < BlockSize THEN rest ELSE BlockSize]

RankBlockSizes(attrs, count) ==
    IF attrs # NoSizes /\ attrs.sizes # NoSizes /\ Len(attrs.sizes) = count
    THEN IF \E b \in 1..count : attrs.sizes[b] <= 0 THEN NoSizes ELSE attrs.sizes
    ELSE IF attrs # NoSizes /\ attrs.total # NoSizes /\ attrs.total >= 0
    THEN RankedFromTotal(attrs.total, count)
    ELSE IF count <= 1 THEN [b \in 1..count |-> BlockSize]
    ELSE NoSizes

\* The block listing of the pinned revision, with its attributes; a visitor's route
\* may strip these, and then those of the details serve.
ListBlocks(r) ==
    /\ reader[r].at = "pinned"
    /\ LET rev == revisions[reader[r].rev] IN
       \E attrs \in {rev.attrs} \cup (IF reader[r].visitor THEN {reader[r].attrs} ELSE {}) :
          LET sizes == RankBlockSizes(attrs, Len(rev.layout)) IN
          reader' = [reader EXCEPT ![r] =
              IF rev.state = "deleted" \/ sizes = NoSizes THEN Closed
              ELSE [reader[r] EXCEPT !.at = "open", !.sizes = sizes]]
    /\ UNCHANGED <<revisions, restoring, entry, readCount>>

-----------------------------------------------------------------------------
(* Reading.                                                                 *)

FileSize(r) == Total(reader[r].sizes)

\* splice_block: the part of a block that is in the range.
SpliceBlock(out, plain, start, offset, end) ==
    LET from == IF offset > start THEN offset - start ELSE 0
        to == IF end - start < Len(plain) THEN end - start ELSE Len(plain)
    IN out \o SubSeq(plain, from + 1, to)

\* plan_blocks, and the loop of read_at: the blocks that overlap the range by the
\* sizes the reader has are spliced in block order.
Spliced(blocks, sizes, offset, end) ==
    LET ends == Ends(sizes)
        out[b \in 0 .. Len(sizes)] ==
            IF b = 0 THEN <<>>
            ELSE IF ends[b - 1] < end /\ ends[b] > offset
                 THEN SpliceBlock(out[b - 1], blocks[b], ends[b - 1], offset, end)
                 ELSE out[b - 1]
    IN out[Len(sizes)]

\* The bytes read_at hands out: the range is clamped to the size the reader has.
BytesAt(blocks, sizes, offset, length) ==
    LET size == Total(sizes)
        end == IF offset + length < size THEN offset + length ELSE size
    IN IF length = 0 \/ offset >= size THEN <<>> ELSE Spliced(blocks, sizes, offset, end)

\* read_at (download_range is one on a fresh reader).  The blocks of a deleted
\* revision cannot be fetched.
ReadAt(r, offset, length) ==
    /\ reader[r].at = "open" /\ readCount < MaxReads
    /\ readCount' = readCount + 1
    /\ reader' = [reader EXCEPT ![r] =
           IF revisions[reader[r].rev].state = "deleted" /\ length # 0 /\ offset < FileSize(r)
           THEN Closed
           ELSE [reader[r] EXCEPT !.at = "read", !.from = offset, !.to = offset + length,
                    !.out = BytesAt(BlocksOf(reader[r].rev), reader[r].sizes, offset, length)]]
    /\ UNCHANGED <<revisions, restoring, entry>>

\* The loop of download_revision_to: reads of a block's length, each where the bytes
\* so far end, until the size is reached or a read comes back empty; from then on
\* every further round adds nothing, and in as many rounds as there are bytes it is.
Downloaded(blocks, sizes) ==
    LET out[k \in 0 .. Total(sizes)] ==
            IF k = 0 THEN <<>>
            ELSE out[k - 1] \o BytesAt(blocks, sizes, Len(out[k - 1]), BlockSize)
    IN out[Total(sizes)]

DownloadRevision(r) ==
    /\ reader[r].at = "open" /\ readCount < MaxReads
    /\ readCount' = readCount + 1
    /\ reader' = [reader EXCEPT ![r] =
           IF revisions[reader[r].rev].state = "deleted" /\ FileSize(r) # 0 THEN Closed
           ELSE [reader[r] EXCEPT !.at = "read", !.from = 0, !.to = FileSize(r),
                                  !.out = Downloaded(BlocksOf(reader[r].rev), reader[r].sizes)]]
    /\ UNCHANGED <<revisions, restoring, entry>>

ReadAgain(r) ==
    /\ reader[r].at = "read"
    /\ reader' = [reader EXCEPT ![r].at = "open", ![r].out = <<>>]
    /\ UNCHANGED <<revisions, restoring, entry, readCount>>

RevisionsNext ==
    \/ CommitRevision \/ CacheNode
    \/ \E i \in DOMAIN revisions : RestoreRevision(i) \/ ApplyRestore(i) \/ DeleteRevision(i)
    \/ \E r \in Reader :
          \/ \E visitor \in BOOLEAN, i \in DOMAIN revisions : OpenRevision(r, i, visitor)
          \/ ListBlocks(r) \/ ReadAgain(r) \/ DownloadRevision(r)
          \/ \E range \in Ranges : ReadAt(r, range[1], range[2])

RevisionsSpec == RevisionsInit /\ [][RevisionsNext]_revisionVars

-----------------------------------------------------------------------------
(* The reader places block b at the sum of the sizes it has for the blocks   *)
(* before it, and whole-file downloads trust the lengths that come back.     *)

Standard(l) == \A b \in 1..(Len(l) - 1) : l[b] = BlockSize

\* Every read of an open reader, and every download of a revision, hands out exactly
\* the bytes of the pinned revision in the range asked for, clamped to its length,
\* whatever was committed, restored or deleted since the reader was opened; unless
\* the sizes had to be inferred from a total and the blocks are not the standard
\* full ones (rank_block_sizes says so).
ReadsAreSlices ==
    \A r \in Reader :
        LET rev == revisions[reader[r].rev] IN
        reader[r].at = "read" /\ (Standard(rev.layout) \/ reader[r].sizes = rev.layout) =>
            reader[r].out = SubSeq(Content(reader[r].rev), reader[r].from + 1,
                                   IF reader[r].to < Total(rev.layout) THEN reader[r].to
                                   ELSE Total(rev.layout))
=============================================================================
