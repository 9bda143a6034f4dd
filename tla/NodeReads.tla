----------------------------- MODULE NodeReads -----------------------------
(***************************************************************************)
(* What a client does to read: it opens My Files and Photos, resolves      *)
(* keys, walks paths, lists, looks photos up, downloads thumbnails and     *)
(* revisions, follows a public link; on the account's keys below.          *)
(*                                                                         *)
(* The parts have no variable in common: what one is given by another (a   *)
(* key, an address, a root) it takes as read, present or failing.  Each is *)
(* explored while the others rest in one of their initial states.          *)
(***************************************************************************)
EXTENDS KeyWalk, Bootstrap, FolderPath, Paging, Visitor, Thumbnails, Revisions, PhotoLookup,
        Account

VARIABLE moving    \* the part that is explored

\* One initial state of each part that has several, for when it rests.
WalkRests ==
    /\ parent = (CHOOSE t \in Trees : TRUE) /\ \A r \in SharedRoot : membership[r] = 0
    /\ \A n \in Node : keys[n] = {} /\ known[n] = {}
BootRests == volumes = {} /\ ~photosOn
PagingRests == rows = {}
VisitorRests == within = (CHOOSE t \in TopTrees : TRUE) /\ ~secret.legacy /\ visit.password = 0
ThumbRests == pics = <<>>
RevisionsRest ==
    LET u == CHOOSE any \in Uploads : TRUE
    IN revisions[1].layout = u.layout /\ revisions[1].attrs = u.attrs
LookupRests ==
    LET none == CHOOSE p \in StoredPhoto : p.state = "none"
    IN ~hasPhotos /\ \A p \in Stored : volume[p] = none
AccountRests ==
    /\ \A a \in Address : opensWith[a] = FirstKey
    /\ secretRight /\ lockedScope /\ keySalts = NotLoaded /\ passphrases = NotLoaded

ReadsInit ==
    /\ moving \in {"keys", "roots", "paths", "lists", "visitor", "thumbnails", "revisions",
                   "lookups", "account"}
    /\ WalkInit /\ (moving = "keys" \/ WalkRests)
    /\ BootInit /\ (moving = "roots" \/ BootRests)
    /\ PathInit
    /\ PagingInit /\ (moving = "lists" \/ PagingRests)
    /\ VisitorInit /\ (moving = "visitor" \/ VisitorRests)
    /\ ThumbInit /\ (moving = "thumbnails" \/ ThumbRests)
    /\ RevisionsInit /\ (moving = "revisions" \/ RevisionsRest)
    /\ LookupInit /\ (moving = "lookups" \/ LookupRests)
    /\ AccountInit /\ (moving = "account" \/ AccountRests)

readsVars == <<walkVars, bootVars, pathVars, pagingVars, visitorVars, thumbVars, revisionVars,
               lookupVars, accountVars, moving>>

ReadsNext ==
    \/ /\ moving = "keys" /\ WalkNext
       /\ UNCHANGED <<bootVars, pathVars, pagingVars, visitorVars, thumbVars, revisionVars,
                      lookupVars, accountVars, moving>>
    \/ /\ moving = "roots" /\ BootNext
       /\ UNCHANGED <<walkVars, pathVars, pagingVars, visitorVars, thumbVars, revisionVars,
                      lookupVars, accountVars, moving>>
    \/ /\ moving = "paths" /\ PathNext
       /\ UNCHANGED <<walkVars, bootVars, pagingVars, visitorVars, thumbVars, revisionVars,
                      lookupVars, accountVars, moving>>
    \/ /\ moving = "lists" /\ PagingNext
       /\ UNCHANGED <<walkVars, bootVars, pathVars, visitorVars, thumbVars, revisionVars,
                      lookupVars, accountVars, moving>>
    \/ /\ moving = "visitor" /\ VisitorNext
       /\ UNCHANGED <<walkVars, bootVars, pathVars, pagingVars, thumbVars, revisionVars,
                      lookupVars, accountVars, moving>>
    \/ /\ moving = "thumbnails" /\ ThumbNext
       /\ UNCHANGED <<walkVars, bootVars, pathVars, pagingVars, visitorVars, revisionVars,
                      lookupVars, accountVars, moving>>
    \/ /\ moving = "revisions" /\ RevisionsNext
       /\ UNCHANGED <<walkVars, bootVars, pathVars, pagingVars, visitorVars, thumbVars,
                      lookupVars, accountVars, moving>>
    \/ /\ moving = "lookups" /\ LookupNext
       /\ UNCHANGED <<walkVars, bootVars, pathVars, pagingVars, visitorVars, thumbVars,
                      revisionVars, accountVars, moving>>
    \/ /\ moving = "account" /\ AccountNext
       /\ UNCHANGED <<walkVars, bootVars, pathVars, pagingVars, visitorVars, thumbVars,
                      revisionVars, lookupVars, moving>>

ReadsSpec == ReadsInit /\ [][ReadsNext]_readsVars
=============================================================================
