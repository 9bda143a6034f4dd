----------------------------- MODULE Bootstrap -----------------------------
(***************************************************************************)
(* Resolving My Files and Photos on first use                              *)
(* (proton-drive-rs/src/client.rs: ensure_my_files, create_volume,         *)
(* ensure_photos and what reads their results).                            *)
(*                                                                         *)
(* The first calls of a client race for a mutex; the winner reads the      *)
(* share, creates the volume when there is none or only a locked one, and  *)
(* fills the cache in one go.  A call may fail or be dropped at any await, *)
(* and a request given up on may still take effect at the server, which    *)
(* takes every creation: the client is not to rely on a refusal.           *)
(***************************************************************************)
EXTENDS Integers, FiniteSets

CONSTANTS
    Opener,     \* first calls of the client
    MaxOpens,   \* bound: how often they are made
    MaxSlips    \* bound: requests that fail or are given up on

ASSUME OpenerAssumption == Opener # {} /\ MaxOpens \in Nat /\ MaxSlips \in Nat

VARIABLES
    volumes,    \* server: volumes, each readable with our keys or not, active or locked
    photosOn,   \* server: the account has a photos volume
    late,       \* network: creations given up on that have not arrived
    filesHeld,  \* the caller holding Bootstrap::my_files, or none
    photosHeld, \* the caller holding Bootstrap::photos, or none
    filesCache, \* DriveCache::my_files_share, my_files_root, main_volume_id: a volume
    photosCache,\* DriveCache::photos_volume_exists: "unknown", "yes", "no"
    opc,        \* opc[o]: where caller o stands
    answer,     \* answer[o]: the volume the share lookup gave o
    opens,      \* calls made so far
    slips,      \* requests that failed so far
    made,       \* history: volumes the client created
    ambiguous   \* history: creations given up on before their answer, or overtaken

bootVars == <<volumes, photosOn, late, filesHeld, photosHeld, filesCache, photosCache,
              opc, answer, opens, slips, made, ambiguous>>

None == [id |-> 0, ours |-> FALSE, state |-> "none"]
Volume == [id : Nat, ours : BOOLEAN, state : {"active", "locked"}]
Nobody == "nobody"
ASSUME NobodyAssumption == Nobody \notin Opener

BootInit ==
    /\ \/ volumes = {}
       \/ \E v \in [id : {1}, ours : BOOLEAN, state : {"active", "locked"}] : volumes = {v}
    /\ photosOn \in BOOLEAN
    /\ late = 0
    /\ filesHeld = Nobody /\ photosHeld = Nobody
    /\ filesCache = None /\ photosCache = "unknown"
    /\ opc = [o \in Opener |-> "idle"]
    /\ answer = [o \in Opener |-> None]
    /\ opens = 0 /\ slips = 0 /\ made = 0 /\ ambiguous = 0

To(o, label) == opc' = [opc EXCEPT ![o] = label]

\* The call returns, with a value or an error, and its guards are dropped.
Leave(o) ==
    /\ To(o, "idle")
    /\ filesHeld' = IF filesHeld = o THEN Nobody ELSE filesHeld
    /\ photosHeld' = IF photosHeld = o THEN Nobody ELSE photosHeld

\* GET v2/shares/my-files: the active volume, else a locked one.
Current ==
    IF volumes = {} THEN None
    ELSE CHOOSE v \in volumes :
            /\ \A w \in volumes : w.state = "active" => v.state = "active"
            /\ \A w \in volumes : w.state = v.state => v.id <= w.id

-----------------------------------------------------------------------------
(* ensure_my_files.                                                        *)

\* A cached share ends the call; otherwise it waits for the mutex.
OpenFiles(o) ==
    /\ opc[o] = "idle" /\ opens < MaxOpens
    /\ opens' = opens + 1
    /\ To(o, IF filesCache = None THEN "files lock" ELSE "idle")
    /\ UNCHANGED <<volumes, photosOn, late, filesHeld, photosHeld, filesCache, photosCache,
                   answer, slips, made, ambiguous>>

\* Mutant of LockFiles: the callers do not exclude each other.
LockFilesShared(o) ==
    /\ opc[o] = "files lock"
    /\ filesHeld' = o /\ To(o, "files ask") /\ UNCHANGED photosHeld
    /\ UNCHANGED <<volumes, photosOn, late, filesCache, photosCache, answer, opens, slips,
                   made, ambiguous>>

\* The mutex is granted and the cache checked again.
LockFiles(o) ==
    /\ opc[o] = "files lock" /\ filesHeld = Nobody
    /\ IF filesCache # None
       THEN Leave(o)
       ELSE filesHeld' = o /\ To(o, "files ask") /\ UNCHANGED photosHeld
    /\ UNCHANGED <<volumes, photosOn, late, filesCache, photosCache, answer, opens, slips,
                   made, ambiguous>>

\* The share lookup; is_not_found leads to a creation.
AskShare(o) ==
    /\ opc[o] = "files ask"
    /\ answer' = [answer EXCEPT ![o] = Current]
    /\ To(o, IF volumes = {} THEN "files create" ELSE "files open")
    /\ UNCHANGED <<volumes, photosOn, late, filesHeld, photosHeld, filesCache, photosCache,
                   opens, slips, made, ambiguous>>

\* create_volume: the material is sealed to our keys, so the volume is readable.
CreateVolume(o) ==
    /\ opc[o] \in {"files create", "files replace"}
    /\ volumes' = volumes \cup {[id |-> Cardinality(volumes) + 1, ours |-> TRUE, state |-> "active"]}
    /\ made' = made + 1
    /\ To(o, IF opc[o] = "files create" THEN "files reread" ELSE "files last")
    /\ UNCHANGED <<photosOn, late, filesHeld, photosHeld, filesCache, photosCache, answer,
                   opens, slips, ambiguous>>

\* The share is read back after a creation.
RereadShare(o) ==
    /\ opc[o] \in {"files reread", "files last"}
    /\ answer' = [answer EXCEPT ![o] = Current]
    /\ To(o, IF opc[o] = "files reread" THEN "files open" ELSE "files final")
    /\ UNCHANGED <<volumes, photosOn, late, filesHeld, photosHeld, filesCache, photosCache,
                   opens, slips, made, ambiguous>>

\* The share key opens: share, root, its key and the volume id are cached together.
ShareOpens(o) ==
    /\ opc[o] \in {"files open", "files final"} /\ answer[o].ours
    /\ filesCache' = answer[o]
    /\ Leave(o)
    /\ UNCHANGED <<volumes, photosOn, late, photosCache, answer, opens, slips, made, ambiguous>>

\* The share key does not open: only when has_active_regular_volume finds none is a
\* new volume made.
ShareSealed(o) ==
    /\ opc[o] = "files open" /\ ~answer[o].ours
    /\ IF \E v \in volumes : v.state = "active"
       THEN Leave(o)
       ELSE To(o, "files replace") /\ UNCHANGED <<filesHeld, photosHeld>>
    /\ UNCHANGED <<volumes, photosOn, late, filesCache, photosCache, answer, opens, slips,
                   made, ambiguous>>

StillSealed(o) ==
    /\ opc[o] = "files final" /\ ~answer[o].ours
    /\ Leave(o)
    /\ UNCHANGED <<volumes, photosOn, late, filesCache, photosCache, answer, opens, slips,
                   made, ambiguous>>

-----------------------------------------------------------------------------
(* ensure_photos.                                                          *)

OpenPhotos(o) ==
    /\ opc[o] = "idle" /\ opens < MaxOpens
    /\ opens' = opens + 1
    /\ To(o, IF photosCache = "unknown" THEN "photos lock" ELSE "idle")
    /\ UNCHANGED <<volumes, photosOn, late, filesHeld, photosHeld, filesCache, photosCache,
                   answer, slips, made, ambiguous>>

LockPhotos(o) ==
    /\ opc[o] = "photos lock" /\ photosHeld = Nobody
    /\ IF photosCache # "unknown"
       THEN Leave(o)
       ELSE photosHeld' = o /\ To(o, "photos ask") /\ UNCHANGED filesHeld
    /\ UNCHANGED <<volumes, photosOn, late, filesCache, photosCache, answer, opens, slips,
                   made, ambiguous>>

\* The volume is resolved, or its absence recorded for good.
AskPhotos(o) ==
    /\ opc[o] = "photos ask"
    /\ photosCache' = IF photosOn THEN "yes" ELSE "no"
    /\ Leave(o)
    /\ UNCHANGED <<volumes, photosOn, late, filesCache, answer, opens, slips, made, ambiguous>>

-----------------------------------------------------------------------------
(* What goes wrong.                                                        *)

\* A request fails, or the caller is dropped, without effect at the server.
OpenFails(o) ==
    /\ opc[o] # "idle" /\ slips < MaxSlips
    /\ slips' = slips + 1
    /\ Leave(o)
    /\ UNCHANGED <<volumes, photosOn, late, filesCache, photosCache, answer, opens, made, ambiguous>>

\* A creation is given up on while it is under way.
CreationUnanswered(o) ==
    /\ opc[o] \in {"files create", "files replace"} /\ slips < MaxSlips
    /\ slips' = slips + 1 /\ ambiguous' = ambiguous + 1
    /\ late' = late + 1
    /\ Leave(o)
    /\ UNCHANGED <<volumes, photosOn, filesCache, photosCache, answer, opens, made>>

CreationArrives ==
    /\ late > 0 /\ late' = late - 1
    /\ volumes' = volumes \cup {[id |-> Cardinality(volumes) + 1, ours |-> TRUE, state |-> "active"]}
    /\ made' = made + 1
    /\ UNCHANGED <<photosOn, filesHeld, photosHeld, filesCache, photosCache, opc, answer, opens,
                   slips, ambiguous>>

\* Another client of the account creates the photos volume.
PhotosCreated ==
    /\ ~photosOn /\ photosOn' = TRUE
    /\ UNCHANGED <<volumes, late, filesHeld, photosHeld, filesCache, photosCache, opc, answer,
                   opens, slips, made, ambiguous>>

\* Another client of the account finds no active volume and creates one, under keys
\* we have or under newer ones.  A call of ours that has just found none as well
\* cannot know.
RivalCreates ==
    /\ \A v \in volumes : v.state # "active"
    /\ slips < MaxSlips /\ slips' = slips + 1
    /\ \E ours \in BOOLEAN :
          volumes' = volumes \cup {[id |-> Cardinality(volumes) + 1, ours |-> ours, state |-> "active"]}
    /\ ambiguous' = IF \E o \in Opener : opc[o] \in {"files create", "files replace"}
                    THEN ambiguous + 1 ELSE ambiguous
    /\ UNCHANGED <<photosOn, late, filesHeld, photosHeld, filesCache, photosCache, opc, answer,
                   opens, made>>

FilesStep(o) ==
    \/ LockFiles(o) \/ AskShare(o) \/ CreateVolume(o) \/ RereadShare(o)
    \/ ShareOpens(o) \/ ShareSealed(o) \/ StillSealed(o)

PhotosStep(o) == LockPhotos(o) \/ AskPhotos(o)

BootNext ==
    \/ \E o \in Opener : \/ OpenFiles(o) \/ OpenPhotos(o)
                         \/ FilesStep(o) \/ PhotosStep(o)
                         \/ OpenFails(o) \/ CreationUnanswered(o)
    \/ CreationArrives \/ PhotosCreated \/ RivalCreates

BootSpec == BootInit /\ [][BootNext]_bootVars

-----------------------------------------------------------------------------
(* Properties.                                                             *)

\* However many first calls race, fail and are dropped, no volume is created beside
\* an active one, not even one whose share does not open, unless a creation was
\* given up on whose outcome the client could not know, or another client created
\* one between the call's last look and its own creation.
NeverBesideActive ==
    [][made' > made /\ (\E v \in volumes : v.state = "active") => ambiguous > 0]_bootVars
=============================================================================
