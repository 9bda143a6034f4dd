----------------------------- MODULE NodeWrites -----------------------------
(***************************************************************************)
(* What a client does to change the tree: uploads, moves, renames, trash,  *)
(* albums, sharing and devices.                                            *)
(*                                                                         *)
(* The parts have no variable in common: each is explored while the others *)
(* rest in one of their initial states.                                    *)
(***************************************************************************)
EXTENDS FileUpload, NodeMoves, Albums, Sharing, Devices

VARIABLE moving    \* the part that is explored

\* One initial state of each part that has several, for when it rests.
FilesRest == ~inPhotos
MovesRest == place = CHOOSE start \in Start : TRUE
AlbumsRest == album = {} /\ ~albumThere
SharingRests == context = HomeAddress /\ share = 0
DevicesRest == \A d \in Device : ~devices[d].there

WritesInit ==
    /\ moving \in {"files", "moves", "albums", "sharing", "devices"}
    /\ FileInit /\ (moving = "files" \/ FilesRest)
    /\ MoveInit /\ (moving = "moves" \/ MovesRest)
    /\ AlbumInit /\ (moving = "albums" \/ AlbumsRest)
    /\ SharingInit /\ (moving = "sharing" \/ SharingRests)
    /\ DevicesInit /\ (moving = "devices" \/ DevicesRest)

writesVars == <<fileVars, moveVars, albumVars, sharingVars, deviceVars, moving>>

WritesNext ==
    \/ /\ moving = "files" /\ FileNext
       /\ UNCHANGED <<moveVars, albumVars, sharingVars, deviceVars, moving>>
    \/ /\ moving = "moves" /\ MoveNext
       /\ UNCHANGED <<fileVars, albumVars, sharingVars, deviceVars, moving>>
    \/ /\ moving = "albums" /\ AlbumNext
       /\ UNCHANGED <<fileVars, moveVars, sharingVars, deviceVars, moving>>
    \/ /\ moving = "sharing" /\ SharingNext
       /\ UNCHANGED <<fileVars, moveVars, albumVars, deviceVars, moving>>
    \/ /\ moving = "devices" /\ DeviceNext
       /\ UNCHANGED <<fileVars, moveVars, albumVars, sharingVars, moving>>

WritesSpec == WritesInit /\ [][WritesNext]_writesVars
=============================================================================
