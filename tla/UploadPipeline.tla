--------------------------- MODULE UploadPipeline ---------------------------
(***************************************************************************)
(* The block pipeline of an upload (proton-drive-rs/src/client.rs:         *)
(* write_blocks, encrypt_content_blocks, upload_prepared_blocks,           *)
(* upload_batch), any number of uploads sharing the pool of BlockSlots.    *)
(*                                                                         *)
(* The encryptor reads blocks in order, each under a permit, encrypts a    *)
(* window of them at a time and sends them in order through a bounded      *)
(* channel; the uploader takes what has arrived as one batch, asks for     *)
(* upload targets, and stores the blocks of the batch in any order.  A     *)
(* block keeps its permit until it is stored or dropped.  The encryptor    *)
(* waits for a permit only when its window is empty, otherwise it tries.   *)
(* Thumbnails ride the first batch, without permits, as job 0.             *)
(***************************************************************************)
EXTENDS BlockSlots

CONSTANTS
    Upload,       \* the uploads
    MaxBlocks,    \* bound: content blocks of a file
    MaxEncrypts,  \* MAX_CONCURRENT_BLOCK_ENCRYPTS
    MaxUploads,   \* MAX_CONCURRENT_BLOCK_UPLOADS
    MaxBuffered   \* MAX_BUFFERED_UPLOAD_BLOCKS

ASSUME WidthAssumption ==
    {MaxEncrypts, MaxUploads, MaxBuffered} \subseteq Nat \ {0} /\ MaxBlocks \in Nat

VARIABLES
    size,      \* size[u]: content blocks in the reader of u
    enc,       \* enc[u]: where the encryptor of u stands
    upl,       \* upl[u]: where the uploader of u stands
    read,      \* read[u]: blocks read so far (block_sizes)
    drained,   \* drained[u]: reader_drained
    window,    \* window[u]: encrypting, in order of index
    sealed,    \* sealed[u]: blocks whose encrypt task has ended
    outbox,    \* outbox[u]: the block in tx.send, 0 for none
    chan,      \* chan[u]: the channel
    thumbs,    \* thumbs[u]: pending_thumbnails is not empty
    batch,     \* batch[u]: jobs of the batch not stored yet
    stored,    \* stored[u]: jobs stored
    loose      \* blocks in encrypt tasks that outlived their upload

pipe == <<enc, upl, read, drained, window, sealed, outbox, chan, thumbs, batch, stored>>
uploadVars == <<size, enc, upl, read, drained, window, sealed, outbox, chan, thumbs,
                batch, stored, loose>>

Elems(s) == {s[x] : x \in DOMAIN s}

\* The blocks of u that own a permit.
Owned(u) ==
    Elems(window[u]) \cup ({outbox[u]} \ {0}) \cup Elems(chan[u]) \cup (batch[u] \ {0})

Named(u, s) == {u} \X s
Running(u) == enc[u] # "ended"

UploadInit ==
    /\ size \in [Upload -> 0 .. MaxBlocks]
    /\ thumbs \in [Upload -> BOOLEAN]
    /\ enc = [u \in Upload |-> "fill"]
    /\ upl = [u \in Upload |-> "recv"]
    /\ read = [u \in Upload |-> 0]
    /\ drained = [u \in Upload |-> FALSE]
    /\ window = [u \in Upload |-> <<>>]
    /\ sealed = [u \in Upload |-> {}]
    /\ outbox = [u \in Upload |-> 0]
    /\ chan = [u \in Upload |-> <<>>]
    /\ batch = [u \in Upload |-> {}]
    /\ stored = [u \in Upload |-> {}]
    /\ loose = {}

Set(f, u, v) == [f EXCEPT ![u] = v]

-----------------------------------------------------------------------------
(* encrypt_content_blocks.                                                 *)

WantsBlock(u) == ~drained[u] /\ Len(window[u]) < MaxEncrypts

\* Mutant of AwaitPermit: it waits for a permit whatever is in the window.
AwaitPermitAlways(u) ==
    /\ enc[u] = "fill" /\ WantsBlock(u)
    /\ AskPermit(<<u, read[u] + 1>>)
    /\ enc' = Set(enc, u, "wait")
    /\ UNCHANGED <<size, upl, read, drained, window, sealed, outbox, chan, thumbs, batch,
                   stored, loose>>

\* Nothing is in flight: wait for a permit.
AwaitPermit(u) ==
    /\ enc[u] = "fill" /\ WantsBlock(u) /\ window[u] = <<>>
    /\ AskPermit(<<u, read[u] + 1>>)
    /\ enc' = Set(enc, u, "wait")
    /\ UNCHANGED <<size, upl, read, drained, window, sealed, outbox, chan, thumbs, batch,
                   stored, loose>>

\* With a permit, awaited or tried for: the next block is read and its encrypt
\* task spawned, or the reader is at its end and the permit dropped.
ReadBlock(u) ==
    LET i == read[u] + 1
    IN  /\ \/ enc[u] = "wait" /\ Grantable(<<u, i>>)
           \/ enc[u] = "fill" /\ WantsBlock(u) /\ window[u] # <<>> /\ Tryable
        /\ IF i <= size[u]
           THEN /\ IF enc[u] = "wait" THEN Grant(<<u, i>>) ELSE TryAcquire(<<u, i>>)
                /\ read' = Set(read, u, i)
                /\ window' = Set(window, u, Append(window[u], i))
                /\ enc' = Set(enc, u, "fill")
                /\ UNCHANGED drained
           ELSE /\ Release({<<u, i>>})
                /\ drained' = Set(drained, u, TRUE)
                /\ enc' = Set(enc, u, "next")
                /\ UNCHANGED <<read, window>>
        /\ UNCHANGED <<size, upl, sealed, outbox, chan, thumbs, batch, stored, loose>>

\* The window is full, the reader drained, or no permit to be had.
StopFilling(u) ==
    /\ enc[u] = "fill"
    /\ \/ ~WantsBlock(u)
       \/ window[u] # <<>> /\ ~Tryable
    /\ enc' = Set(enc, u, "next")
    /\ UNCHANGED <<slots, size, upl, read, drained, window, sealed, outbox, chan, thumbs,
                   batch, stored, loose>>

\* The encrypt task of block i ends.
Encrypted(u, i) ==
    /\ i \in Elems(window[u]) \ sealed[u]
    /\ sealed' = Set(sealed, u, sealed[u] \cup {i})
    /\ UNCHANGED <<slots, size, enc, upl, read, drained, window, outbox, chan, thumbs,
                   batch, stored, loose>>

\* encrypting.next: the oldest block of the window, or the end of the encryptor.
NextEncrypted(u) ==
    /\ enc[u] = "next"
    /\ IF window[u] = <<>>
       THEN /\ enc' = Set(enc, u, "done")
            /\ UNCHANGED <<window, outbox>>
       ELSE /\ Head(window[u]) \in sealed[u]
            /\ enc' = Set(enc, u, "send")
            /\ window' = Set(window, u, Tail(window[u]))
            /\ outbox' = Set(outbox, u, Head(window[u]))
    /\ UNCHANGED <<slots, size, upl, read, drained, sealed, chan, thumbs, batch, stored, loose>>

\* tx.send.
SendBlock(u) ==
    /\ enc[u] = "send" /\ Len(chan[u]) < MaxBuffered
    /\ chan' = Set(chan, u, Append(chan[u], outbox[u]))
    /\ outbox' = Set(outbox, u, 0)
    /\ enc' = Set(enc, u, "fill")
    /\ UNCHANGED <<slots, size, upl, read, drained, window, sealed, thumbs, batch, stored, loose>>

-----------------------------------------------------------------------------
(* upload_prepared_blocks and upload_batch.                                *)

AtMost(x, y) == IF x <= y THEN x ELSE y

\* recv_many: all that has arrived, at most MaxBuffered + 1 blocks, and the
\* thumbnails if they are still pending.
Receive(u) ==
    /\ upl[u] = "recv" /\ chan[u] # <<>>
    /\ LET n == AtMost(Len(chan[u]), MaxBuffered + 1)
       IN  /\ batch' = Set(batch, u, Elems(SubSeq(chan[u], 1, n))
                                     \cup (IF thumbs[u] THEN {0} ELSE {}))
           /\ chan' = Set(chan, u, SubSeq(chan[u], n + 1, Len(chan[u])))
    /\ thumbs' = Set(thumbs, u, FALSE)
    /\ upl' = Set(upl, u, "prepare")
    /\ UNCHANGED <<slots, size, enc, read, drained, window, sealed, outbox, stored, loose>>

\* The channel is closed and empty: thumbnails nobody carried get a batch of
\* their own, else the uploader is done.
ChannelClosed(u) ==
    /\ upl[u] = "recv" /\ chan[u] = <<>> /\ enc[u] = "done"
    /\ upl' = Set(upl, u, IF thumbs[u] THEN "prepare" ELSE "done")
    /\ batch' = Set(batch, u, IF thumbs[u] THEN {0} ELSE {})
    /\ thumbs' = Set(thumbs, u, FALSE)
    /\ UNCHANGED <<slots, size, enc, read, drained, window, sealed, outbox, chan, stored, loose>>

\* request_upload_targets answers.
Prepared(u) ==
    /\ upl[u] = "prepare"
    /\ upl' = Set(upl, u, "store")
    /\ UNCHANGED <<slots, size, enc, read, drained, window, sealed, outbox, chan, thumbs,
                   batch, stored, loose>>

\* upload_one_block succeeds for job i and drops its permit; the batch is over
\* with its last job.
StoreJob(u, i) ==
    /\ upl[u] = "store" /\ i \in batch[u]
    /\ stored' = Set(stored, u, stored[u] \cup {i})
    /\ batch' = Set(batch, u, batch[u] \ {i})
    /\ upl' = Set(upl, u, IF batch[u] = {i} THEN "recv" ELSE "store")
    /\ Release({<<u, i>>})
    /\ UNCHANGED <<size, enc, read, drained, window, sealed, outbox, chan, thumbs, loose>>

-----------------------------------------------------------------------------
(* write_blocks.                                                           *)

\* try_join! has both halves: the counts are compared and the manifest made.
Join(u) ==
    /\ enc[u] = "done" /\ upl[u] = "done"
    /\ enc' = Set(enc, u, "ended")
    /\ upl' = Set(upl, u, IF Cardinality(stored[u] \ {0}) = read[u] THEN "ok" ELSE "mismatch")
    /\ UNCHANGED <<slots, size, read, drained, window, sealed, outbox, chan, thumbs, batch,
                   stored, loose>>

\* Mutant of Abandon: what is in the channel is forgotten, its permits are not
\* given back.
AbandonLeaks(u) ==
    /\ Running(u)
    /\ Release(Named(u, Elems(window[u]) \cup {outbox[u], read[u] + 1} \cup batch[u]))
    /\ loose' = loose \cup Named(u, Elems(window[u]) \ sealed[u])
    /\ enc' = Set(enc, u, "ended") /\ upl' = Set(upl, u, "failed")
    /\ window' = Set(window, u, <<>>) /\ outbox' = Set(outbox, u, 0)
    /\ chan' = Set(chan, u, <<>>) /\ batch' = Set(batch, u, {})
    /\ UNCHANGED <<size, read, drained, sealed, thumbs, stored>>

\* One half fails (the reader, an encryption, the preparation, a block past its
\* attempts) or the caller drops the upload: everything it owns is dropped.  A
\* spawned encrypt task is not: it runs on with its buffer, without a permit.
Abandon(u) ==
    /\ Running(u)
    /\ Release(Named(u, Owned(u) \cup {read[u] + 1}))
    /\ loose' = loose \cup Named(u, Elems(window[u]) \ sealed[u])
    /\ enc' = Set(enc, u, "ended") /\ upl' = Set(upl, u, "failed")
    /\ window' = Set(window, u, <<>>) /\ outbox' = Set(outbox, u, 0)
    /\ chan' = Set(chan, u, <<>>) /\ batch' = Set(batch, u, {})
    /\ UNCHANGED <<size, read, drained, sealed, thumbs, stored>>

\* An encrypt task nobody waits for ends and its buffer is freed.
LooseEnds(b) ==
    /\ b \in loose
    /\ loose' = loose \ {b}
    /\ UNCHANGED <<slots, size, pipe>>

EncryptorStep(u) ==
    \/ AwaitPermit(u) \/ ReadBlock(u) \/ StopFilling(u) \/ NextEncrypted(u) \/ SendBlock(u)
UploaderStep(u) ==
    \/ Receive(u) \/ ChannelClosed(u) \/ Prepared(u) \/ Join(u)
    \/ \E i \in 0 .. MaxBlocks : StoreJob(u, i)

UploadNext ==
    \/ \E u \in Upload : EncryptorStep(u) \/ UploaderStep(u) \/ Abandon(u)
    \/ \E u \in Upload, i \in 1 .. MaxBlocks : Encrypted(u, i)
    \/ \E b \in loose : LooseEnds(b)

-----------------------------------------------------------------------------
(* Properties.                                                             *)

\* Every block of an upload is somewhere: nothing that was read is lost or
\* handled twice on its way through window, channel and batch, and an upload
\* that ends well has stored every block of its file, and its thumbnails.
NothingLost ==
    \A u \in Upload :
        /\ upl[u] # "failed" =>
              /\ Owned(u) \cup (stored[u] \ {0}) = 1 .. read[u]
              /\ Owned(u) \cap stored[u] = {}
        /\ upl[u] = "ok" => read[u] = size[u] /\ ~thumbs[u]
        /\ upl[u] # "mismatch"
=============================================================================
