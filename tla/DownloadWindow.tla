--------------------------- MODULE DownloadWindow ---------------------------
(***************************************************************************)
(* The window of concurrent block fetches of a download                    *)
(* (proton-drive-rs/src/client.rs, write_content_blocks; revision.rs,      *)
(* read_at and block_plaintext), any number of downloads sharing the pool  *)
(* of BlockSlots.                                                          *)
(*                                                                         *)
(* Fetches are started in index order, each asks for a permit first, and   *)
(* they may end in any order; blocks are written in index order, and a     *)
(* permit is held until its block is written.                              *)
(***************************************************************************)
EXTENDS BlockSlots

CONSTANTS
    Download,       \* the downloads
    MaxTargets,     \* bound: blocks of a revision
    MaxDownloads    \* MAX_CONCURRENT_BLOCK_DOWNLOADS

ASSUME DownloadsAssumption == MaxDownloads \in Nat \ {0} /\ MaxTargets \in Nat

VARIABLES
    count,       \* count[d]: blocks to fetch
    started,     \* started[d]: fetches started so far
    fetch,       \* fetch[d][i]: where the fetch of block i stands
    written,     \* written[d]: the blocks written, in order
    left,        \* left[d]: the download has ended, well or not
    detached     \* blocks in decrypt tasks that outlived their download

downloadVars == <<count, started, fetch, written, left, detached>>

Target == 1 .. MaxTargets

DownloadInit ==
    /\ count \in [Download -> 0 .. MaxTargets]
    /\ started = [d \in Download |-> 0]
    /\ fetch = [d \in Download |-> [i \in Target |-> "none"]]
    /\ written = [d \in Download |-> <<>>]
    /\ left = [d \in Download |-> FALSE]
    /\ detached = {}

FetchTo(d, i, label) == fetch' = [fetch EXCEPT ![d][i] = label]

\* The blocks of d that own a permit.
Resident(d) == {i \in Target : fetch[d][i] \in {"fetch", "decrypt", "ready"}}

-----------------------------------------------------------------------------
\* buffered: the next fetch is started while fewer than MaxDownloads are under
\* way or ready, and gets in line for a permit.
StartFetch(d) ==
    /\ ~left[d] /\ started[d] < count[d]
    /\ started[d] - Len(written[d]) < MaxDownloads
    /\ AskPermit(<<d, started[d] + 1>>)
    /\ FetchTo(d, started[d] + 1, "wait")
    /\ started' = [started EXCEPT ![d] = @ + 1]
    /\ UNCHANGED <<count, written, left, detached>>

\* The permit is there: the block is requested.
Permitted(d, i) ==
    /\ fetch[d][i] = "wait"
    /\ Grant(<<d, i>>)
    /\ FetchTo(d, i, "fetch")
    /\ UNCHANGED <<count, started, written, left, detached>>

\* The ciphertext arrived and goes to a decrypt task; the task ends.
Fetched(d, i) ==
    /\ \/ fetch[d][i] = "fetch" /\ FetchTo(d, i, "decrypt")
       \/ fetch[d][i] = "decrypt" /\ FetchTo(d, i, "ready")
    /\ UNCHANGED <<slots, count, started, written, left, detached>>

\* Mutant of Write: a block is written as soon as it is ready.
WriteAny(d) ==
    /\ ~left[d]
    /\ \E i \in 1 .. count[d] :
          /\ fetch[d][i] = "ready"
          /\ written' = [written EXCEPT ![d] = Append(@, i)]
          /\ FetchTo(d, i, "gone")
          /\ Release({<<d, i>>})
    /\ UNCHANGED <<count, started, left, detached>>

\* The oldest block is ready: it is written and its permit dropped.
Write(d) ==
    LET i == Len(written[d]) + 1
    IN  /\ ~left[d] /\ i <= count[d] /\ fetch[d][i] = "ready"
        /\ written' = [written EXCEPT ![d] = Append(@, i)]
        /\ FetchTo(d, i, "gone")
        /\ Release({<<d, i>>})
        /\ UNCHANGED <<count, started, left, detached>>

\* All blocks are written.
Finish(d) ==
    /\ ~left[d] /\ Len(written[d]) = count[d]
    /\ left' = [left EXCEPT ![d] = TRUE]
    /\ UNCHANGED <<slots, count, started, fetch, written, detached>>

\* A fetch, a decryption or a write fails, or the caller drops the download: the
\* window and its permits go, decrypt tasks run on.
Quit(d) ==
    /\ ~left[d]
    /\ left' = [left EXCEPT ![d] = TRUE]
    /\ detached' = detached \cup ({d} \X {i \in Target : fetch[d][i] = "decrypt"})
    /\ fetch' = [fetch EXCEPT ![d] = [i \in Target |-> "gone"]]
    /\ Release({d} \X Target)
    /\ UNCHANGED <<count, started, written>>

\* A decrypt task nobody waits for ends.
DetachedEnds(b) ==
    /\ b \in detached
    /\ detached' = detached \ {b}
    /\ UNCHANGED <<slots, count, started, fetch, written, left>>

DownloadStep(d) == StartFetch(d) \/ Write(d) \/ Finish(d)
FetchStep(d, i) == Permitted(d, i) \/ Fetched(d, i)

DownloadNext ==
    \/ \E d \in Download : DownloadStep(d) \/ Quit(d)
    \/ \E d \in Download, i \in Target : FetchStep(d, i)
    \/ \E b \in detached : DetachedEnds(b)

-----------------------------------------------------------------------------
\* The manifest and the output are made of the blocks 1, 2, 3, ... however the
\* fetches overtake each other, and a download never has more blocks resident
\* than its window.
WrittenInOrder ==
    \A d \in Download :
        /\ \A x \in DOMAIN written[d] : written[d][x] = x
        /\ Cardinality(Resident(d)) <= MaxDownloads
=============================================================================
