------------------------------ MODULE Transfers ------------------------------
(***************************************************************************)
(* Uploads and downloads of one client together, sharing one pool of block *)
(* permits (with_max_inflight_blocks).                                     *)
(***************************************************************************)
EXTENDS UploadPipeline, DownloadWindow

ASSUME TransferAssumption == Upload \cap Download = {}

transferVars == <<slots, uploadVars, downloadVars>>

TransfersInit == SlotsInit /\ UploadInit /\ DownloadInit

TransfersNext ==
    \/ UploadNext /\ UNCHANGED downloadVars
    \/ DownloadNext /\ UNCHANGED uploadVars

TransfersSpec == TransfersInit /\ [][TransfersNext]_transferVars

-----------------------------------------------------------------------------
\* The pool is exact: a permit is out for a block if and only if a transfer owns
\* that block, on every path out of a transfer, and never more than there are.
PermitsMatchBlocks ==
    /\ held = UNION ({Named(u, Owned(u)) : u \in Upload}
                     \cup {{d} \X Resident(d) : d \in Download})
    /\ Cardinality(held) <= pool

\* Blocks and permits are accounted for: every block that was read is in one place,
\* and has its permit exactly as long as a transfer owns it.
BlocksAccounted == PermitsMatchBlocks /\ NothingLost
======================================================================
