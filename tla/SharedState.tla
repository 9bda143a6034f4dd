---------------------------- MODULE SharedState ----------------------------
(***************************************************************************)
(* What concurrent calls of one client share: the context-share cache and  *)
(* its gate, the URL table of a revision with its session, the limiter of  *)
(* a file's block posts, and the pool of permits of uploads and downloads. *)
(*                                                                         *)
(* The four have no variable in common, and none waits for another while   *)
(* it holds something of its own.  A behaviour of all is an interleaving   *)
(* of one of each, and each is explored while the others rest.             *)
(***************************************************************************)
EXTENDS ContextShare, BlockTargets, BlockUpload, Transfers

VARIABLE moving    \* the part that is explored

sharedVars == <<vars, targetVars, postVars, transferVars, moving>>

\* One of the initial states of the transfers, for when they rest.
TransfersRest ==
    /\ pool = 1 /\ \A u \in Upload : size[u] = 0 /\ ~thumbs[u]
    /\ \A d \in Download : count[d] = 0

SharedInit ==
    /\ moving \in {"contexts", "fetches", "posts", "transfers"}
    /\ Init /\ TargetsInit /\ PostInit
    /\ TransfersInit /\ (moving = "transfers" \/ TransfersRest)

SharedNext ==
    \/ moving = "contexts" /\ Next /\ UNCHANGED <<targetVars, postVars, transferVars, moving>>
    \/ moving = "fetches" /\ TargetsNext /\ UNCHANGED <<vars, postVars, transferVars, moving>>
    \/ moving = "posts" /\ PostNext /\ UNCHANGED <<vars, targetVars, transferVars, moving>>
    \/ moving = "transfers" /\ TransfersNext /\ UNCHANGED <<vars, targetVars, postVars, moving>>

\* Live futures are polled, blocking tasks end, and so does every request, preparation
\* and listing, by its timeout if need be; nobody must call, fail or drop.  The parts that rest have
\* nothing to do but the batch and the transfers, which are ready from the start.
SharedFairness ==
    /\ Fairness
    /\ \A f \in Fetch : WF_targetVars(TargetStep(f))
    /\ \A j \in Job : WF_postVars(moving = "posts" /\ JobStep(j))
    /\ \A u \in Upload :
          /\ WF_<<slots, uploadVars>>(moving = "transfers" /\ EncryptorStep(u))
          /\ WF_<<slots, uploadVars>>(moving = "transfers" /\ UploaderStep(u))
          /\ WF_<<slots, uploadVars>>(moving = "transfers"
                                      /\ \E i \in 1 .. MaxBlocks : Encrypted(u, i))
    /\ \A d \in Download :
          /\ WF_<<slots, downloadVars>>(moving = "transfers" /\ DownloadStep(d))
          /\ WF_<<slots, downloadVars>>(moving = "transfers" /\ \E i \in Target : FetchStep(d, i))

SharedSpec == SharedInit /\ [][SharedNext]_sharedVars /\ SharedFairness

-----------------------------------------------------------------------------
(* Properties.                                                             *)

\* Nobody waits for ever for what calls share: not for the gate, not for the mutexes
\* of a URL table and its session, and not in the limiter of a batch, whatever was
\* dropped or failed meanwhile.
NobodyWaitsForever == EveryoneServed /\ EveryFetchEnds /\ BatchEnds

\* With any pool, one permit included, every transfer ends: no transfer waits
\* for a permit that only itself, or a transfer waiting for it, can give back.
EveryTransferEnds ==
    moving = "transfers" ~> /\ \A u \in Upload : ~Running(u)
                            /\ \A d \in Download : left[d]
=============================================================================
