-------------------------- MODULE NodeReadsProofs ---------------------------
(***************************************************************************)
(* Proofs about the calls that read: opening My Files (Bootstrap), folders *)
(* made by path (FolderPath), the account's default address (Account), a   *)
(* batch of thumbnails (Thumbnails), the keys of nodes (KeyWalk), the      *)
(* bytes of a revision (Revisions), and that NodeReads implements each of  *)
(* its nine parts.                                                         *)
(***************************************************************************)
EXTENDS NodeReads, OrderLemmas, FiniteSetTheorems, SequenceTheorems, TLAPS

-----------------------------------------------------------------------------
(* Opening My Files.                                                       *)

Creating == {"files create", "files replace"}
HoldingLabels == Creating \cup {"files ask", "files reread", "files open", "files last", "files final"}
BootLabels == HoldingLabels \cup {"idle", "files lock", "photos lock", "photos ask"}
ActiveVolume == \E v \in volumes : v.state = "active"

\* The mutex: a call past it holds it, so at most one is.  A call about to create has
\* found no active volume, and one that has come since was given up on or is a
\* rival's; one that may still arrive was given up on.
BootInv ==
    /\ opc \in [Opener -> BootLabels] /\ late \in Nat /\ ambiguous \in Nat
    /\ \A o \in Opener : opc[o] \in HoldingLabels => filesHeld = o
    /\ late > 0 => ambiguous > 0
    /\ \A o \in Opener : opc[o] \in Creating => ~ActiveVolume \/ ambiguous > 0

\* A step that takes the call o to a label, holding what it held.
LEMMA BootMoves ==
    ASSUME BootInv, NEW o \in Opener, NEW label \in BootLabels, To(o, label),
           late' = late, ambiguous' = ambiguous, volumes' = volumes,
           \A p \in Opener \ {o} : filesHeld = p => filesHeld' = p,
           label \in HoldingLabels => filesHeld' = o,
           label \in Creating => ~ActiveVolume \/ ambiguous > 0
    PROVE  BootInv'
<1>1. /\ opc' \in [Opener -> BootLabels] /\ opc'[o] = label
      /\ \A p \in Opener \ {o} : opc'[p] = opc[p]
  BY DEF BootInv, To
<1>2. ActiveVolume' <=> ActiveVolume
  BY DEF ActiveVolume
<1>3. \A p \in Opener : opc'[p] \in HoldingLabels => filesHeld' = p
  BY <1>1 DEF BootInv
<1>4. \A p \in Opener : opc'[p] \in Creating => ~ActiveVolume' \/ ambiguous' > 0
  BY <1>1, <1>2 DEF BootInv
<1> QED
  BY <1>1, <1>3, <1>4 DEF BootInv

\* The call o ends: its guards are dropped.
LEMMA BootLeaves ==
    ASSUME BootInv, NEW o \in Opener, Leave(o), late' \in Nat, ambiguous' \in Nat,
           late' > 0 => ambiguous' > 0, ambiguous' >= ambiguous, volumes' = volumes
    PROVE  BootInv'
<1>1. /\ opc' \in [Opener -> BootLabels] /\ opc'[o] = "idle"
      /\ \A p \in Opener \ {o} : opc'[p] = opc[p]
  BY DEF BootInv, Leave, To, BootLabels
<1>2. \A p \in Opener \ {o} : filesHeld = p => filesHeld' = p
  BY DEF Leave
<1>3. "idle" \notin HoldingLabels /\ "idle" \notin Creating
  BY DEF HoldingLabels, Creating
<1>4. \A p \in Opener : opc'[p] \in HoldingLabels => filesHeld' = p
  BY <1>1, <1>2, <1>3 DEF BootInv
<1>5. ActiveVolume' <=> ActiveVolume
  BY DEF ActiveVolume
<1>6. \A p \in Opener : opc'[p] \in Creating => ~ActiveVolume' \/ ambiguous' > 0
  BY <1>1, <1>3, <1>5 DEF BootInv
<1> QED
  BY <1>1, <1>4, <1>6 DEF BootInv

LEMMA FilesStepKept == ASSUME BootInv, NEW o \in Opener, FilesStep(o) PROVE BootInv'
<1>0. late \in Nat /\ ambiguous \in Nat /\ (late > 0 => ambiguous > 0) /\ ambiguous >= ambiguous
  BY DEF BootInv
<1>1. CASE LockFiles(o)
  <2>1. CASE filesCache # None
    BY <1>0, <1>1, <2>1, BootLeaves DEF LockFiles
  <2>2. CASE filesCache = None
    <3>1. To(o, "files ask") /\ filesHeld' = o /\ filesHeld = Nobody /\ "files ask" \notin Creating
          /\ UNCHANGED <<late, ambiguous, volumes>>
      BY <1>1, <2>2 DEF LockFiles, Creating
    <3>2. \A p \in Opener \ {o} : filesHeld # p
      BY <3>1, NobodyAssumption
    <3> QED
      BY <3>1, <3>2, BootMoves DEF BootLabels, HoldingLabels
  <2> QED
    BY <2>1, <2>2
<1>2. CASE AskShare(o)
  <2>1. opc[o] = "files ask" /\ filesHeld = o /\ filesHeld' = filesHeld
        /\ UNCHANGED <<late, ambiguous, volumes>>
    BY <1>2 DEF AskShare, BootInv, HoldingLabels
  <2>2. CASE volumes = {}
    <3>1. To(o, "files create") /\ ~ActiveVolume
      BY <1>2, <2>2 DEF AskShare, ActiveVolume
    <3> QED
      BY <2>1, <3>1, BootMoves DEF BootLabels, HoldingLabels, Creating
  <2>3. CASE volumes # {}
    <3>1. To(o, "files open") /\ "files open" \notin Creating
      BY <1>2, <2>3 DEF AskShare, Creating
    <3> QED
      BY <2>1, <3>1, BootMoves DEF BootLabels, HoldingLabels, Creating
  <2> QED
    BY <2>2, <2>3
<1>3. CASE CreateVolume(o)
  <2>1. filesHeld = o /\ filesHeld' = o /\ UNCHANGED <<late, ambiguous>>
    BY <1>3 DEF CreateVolume, BootInv, HoldingLabels, Creating
  <2>2. PICK label \in {"files reread", "files last"} : To(o, label)
    BY <1>3 DEF CreateVolume
  <2>3. /\ opc' \in [Opener -> BootLabels] /\ opc'[o] = label
        /\ \A p \in Opener \ {o} : opc'[p] = opc[p]
    BY <2>2 DEF BootInv, To, BootLabels, HoldingLabels
  <2>4. \A p \in Opener \ {o} : opc[p] \notin HoldingLabels
    BY <2>1 DEF BootInv
  <2>5. \A p \in Opener : opc'[p] \notin Creating
    BY <2>2, <2>3, <2>4 DEF HoldingLabels, Creating
  <2>6. \A p \in Opener : opc'[p] \in HoldingLabels => filesHeld' = p
    BY <2>1, <2>3, <2>4
  <2> QED
    BY <2>1, <2>3, <2>5, <2>6 DEF BootInv
<1>4. CASE RereadShare(o)
  <2>1. filesHeld = o /\ filesHeld' = filesHeld /\ UNCHANGED <<late, ambiguous, volumes>>
    BY <1>4 DEF RereadShare, BootInv, HoldingLabels
  <2>2. PICK label \in {"files open", "files final"} : To(o, label)
    BY <1>4 DEF RereadShare
  <2>3. label \notin Creating
    BY DEF Creating
  <2> QED
    BY <2>1, <2>2, <2>3, BootMoves DEF BootLabels, HoldingLabels
<1>5. CASE ShareOpens(o)
  BY <1>0, <1>5, BootLeaves DEF ShareOpens
<1>6. CASE ShareSealed(o)
  <2>1. CASE ActiveVolume
    BY <1>0, <1>6, <2>1, BootLeaves DEF ShareSealed, ActiveVolume
  <2>2. CASE ~ActiveVolume
    <3>1. To(o, "files replace") /\ opc[o] = "files open" /\ filesHeld' = filesHeld
          /\ UNCHANGED <<late, ambiguous, volumes>>
      BY <1>6, <2>2 DEF ShareSealed, ActiveVolume
    <3>2. filesHeld = o
      BY <3>1 DEF BootInv, HoldingLabels
    <3> QED
      BY <2>2, <3>1, <3>2, BootMoves DEF BootLabels, HoldingLabels, Creating
  <2> QED
    BY <2>1, <2>2
<1>7. CASE StillSealed(o)
  BY <1>0, <1>7, BootLeaves DEF StillSealed
<1> QED
  BY <1>1, <1>2, <1>3, <1>4, <1>5, <1>6, <1>7 DEF FilesStep

LEMMA BootStep == BootInv /\ [BootNext]_bootVars => BootInv'
<1> SUFFICES ASSUME BootInv, [BootNext]_bootVars PROVE BootInv'
  OBVIOUS
<1>0. late \in Nat /\ ambiguous \in Nat /\ (late > 0 => ambiguous > 0) /\ ambiguous >= ambiguous
  BY DEF BootInv
<1>1. CASE UNCHANGED bootVars
  BY <1>1 DEF bootVars, BootInv, ActiveVolume
<1>2. ASSUME NEW o \in Opener, NEW label \in {"files lock", "photos lock", "idle"}, To(o, label),
             UNCHANGED <<late, ambiguous, volumes, filesHeld>>
      PROVE  BootInv'
  <2>1. label \notin HoldingLabels /\ label \notin Creating
    BY DEF HoldingLabels, Creating
  <2> QED
    BY <1>2, <2>1, BootMoves DEF BootLabels
<1>3. ASSUME NEW o \in Opener, OpenFiles(o) \/ OpenPhotos(o) PROVE BootInv'
  BY <1>2, <1>3 DEF OpenFiles, OpenPhotos
<1>4. ASSUME NEW o \in Opener, PhotosStep(o) PROVE BootInv'
  <2>1. CASE Leave(o)
    BY <1>0, <1>4, <2>1, BootLeaves DEF PhotosStep, LockPhotos, AskPhotos
  <2>2. CASE To(o, "photos ask") /\ filesHeld' = filesHeld
    <3>1. "photos ask" \notin HoldingLabels /\ "photos ask" \notin Creating
      BY DEF HoldingLabels, Creating
    <3> QED
      BY <1>4, <2>2, <3>1, BootMoves DEF BootLabels, PhotosStep, LockPhotos, AskPhotos
  <2> QED
    BY <1>4, <2>1, <2>2 DEF PhotosStep, LockPhotos, AskPhotos
<1>5. ASSUME NEW o \in Opener, OpenFails(o) PROVE BootInv'
  BY <1>0, <1>5, BootLeaves DEF OpenFails
<1>6. ASSUME NEW o \in Opener, CreationUnanswered(o) PROVE BootInv'
  <2>1. /\ late' = late + 1 /\ ambiguous' = ambiguous + 1 /\ volumes' = volumes /\ Leave(o)
    BY <1>6 DEF CreationUnanswered
  <2>2. late' \in Nat /\ ambiguous' \in Nat /\ ambiguous' > 0 /\ ambiguous' >= ambiguous
    BY <1>0, <2>1
  <2> QED
    BY <2>1, <2>2, BootLeaves
<1>7. CASE CreationArrives
  <2>1. late > 0 /\ late' = late - 1 /\ UNCHANGED <<filesHeld, opc, ambiguous>>
    BY <1>7 DEF CreationArrives
  <2>2. late' \in Nat /\ ambiguous > 0
    BY <1>0, <2>1
  <2> QED
    BY <2>1, <2>2 DEF BootInv
<1>8. CASE PhotosCreated
  BY <1>8 DEF PhotosCreated, BootInv, ActiveVolume
<1>9. CASE RivalCreates
  <2>1. UNCHANGED <<late, filesHeld, opc>>
        /\ ambiguous' = IF \E o \in Opener : opc[o] \in Creating THEN ambiguous + 1 ELSE ambiguous
    BY <1>9 DEF RivalCreates, Creating
  <2>2. ambiguous' \in Nat /\ ambiguous' >= ambiguous
        /\ ((\E o \in Opener : opc[o] \in Creating) => ambiguous' > 0)
    BY <1>0, <2>1
  <2> QED
    BY <1>0, <2>1, <2>2 DEF BootInv
<1> QED
  BY <1>1, <1>3, <1>4, <1>5, <1>6, <1>7, <1>8, <1>9, FilesStepKept DEF BootNext

MadeTyped == made \in Nat

\* Who makes a volume.
LEMMA VolumesMade ==
    ASSUME BootNext
    PROVE  CreationArrives \/ (\E o \in Opener : CreateVolume(o)) \/ made' = made
BY DEF BootNext, OpenFiles, OpenPhotos, FilesStep, PhotosStep, LockFiles, AskShare, RereadShare,
       ShareOpens, ShareSealed, StillSealed, LockPhotos, AskPhotos, OpenFails,
       CreationUnanswered, PhotosCreated, RivalCreates

\* However many first calls race, fail and are dropped, no volume is created beside an
\* active one unless a creation was given up on, or a rival's came in between
\* (ensure_my_files, create_volume): the double check under the mutex is enough.
THEOREM VolumeNeverBesideActive == BootSpec => NeverBesideActive
<1>1. BootInit => BootInv
  <2> SUFFICES ASSUME BootInit PROVE BootInv
    OBVIOUS
  <2>1. late = 0 /\ ambiguous = 0 /\ opc = [o \in Opener |-> "idle"]
    BY DEF BootInit
  <2>2. "idle" \notin HoldingLabels /\ "idle" \notin Creating
    BY DEF HoldingLabels, Creating
  <2> QED
    BY <2>1, <2>2 DEF BootInv, BootLabels
<1>2. BootInv /\ MadeTyped /\ [BootNext]_bootVars =>
         [made' > made /\ (\E v \in volumes : v.state = "active") => ambiguous > 0]_bootVars
  <2> SUFFICES ASSUME BootInv, MadeTyped, BootNext, made' > made, ActiveVolume PROVE ambiguous > 0
    BY DEF ActiveVolume
  <2>1. CASE CreationArrives
    BY <2>1 DEF CreationArrives, BootInv
  <2>2. CASE \E o \in Opener : CreateVolume(o)
    BY <2>2 DEF CreateVolume, BootInv, Creating
  <2>3. CASE made' = made
    BY <2>3 DEF MadeTyped
  <2> QED
    BY <2>1, <2>2, <2>3, VolumesMade
<1>3. BootInit => MadeTyped
  BY DEF BootInit, MadeTyped
<1>4. MadeTyped /\ [BootNext]_bootVars => MadeTyped'
  <2> SUFFICES ASSUME MadeTyped, [BootNext]_bootVars PROVE MadeTyped'
    OBVIOUS
  <2>1. CASE BootNext
    <3>1. CASE CreationArrives
      BY <3>1 DEF CreationArrives, MadeTyped
    <3>2. CASE \E o \in Opener : CreateVolume(o)
      <4>1. made' = made + 1
        BY <3>2 DEF CreateVolume
      <4> QED
        BY <4>1 DEF MadeTyped
    <3>3. CASE made' = made
      BY <3>3 DEF MadeTyped
    <3> QED
      BY <2>1, <3>1, <3>2, <3>3, VolumesMade
  <2>2. CASE UNCHANGED bootVars
    BY <2>2 DEF bootVars, MadeTyped
  <2> QED
    BY <2>1, <2>2
<1> QED
  BY <1>1, <1>2, <1>3, <1>4, BootStep, PTL DEF BootSpec, NeverBesideActive

-----------------------------------------------------------------------------
(* Making folders by path.                                                 *)

PathLabels == {"start", "list", "list again", "read", "read again", "create", "ok", "failed", "none"}

\* The server numbers the entries as they come; unless others put an entry beside one
\* of the same name, the names of a folder are apart.
Numbered ==
    /\ IsFiniteSet(entries)
    /\ \A e \in entries : e.id \in Nat /\ e.id >= 1 /\ e.id <= Cardinality(entries)
    /\ \A e, f \in entries : e.id = f.id => e = f
Apart == \A e, f \in entries : e.parent = f.parent /\ e.name = f.name => e = f

\* s is the path as far as a call, or any of the calls, has come: the folder after d
\* names.
StepOfPath(s, d) ==
    \E e \in entries : e.id = s[d + 1] /\ e.parent = s[d] /\ e.name = <<Path[d + 1], 0>>
OnPath(s, w) ==
    /\ current[w] = s[depth[w]]
    /\ \A d \in Nat : d < depth[w] => StepOfPath(s, d)
OwnPath(s, w) == s[0] = Top /\ OnPath(s, w)
AllOnPath(s) == s[0] = Top /\ \A w \in Maker : OnPath(s, w)

\* A call that was refused finds what it was refused for, and one that has come to
\* the end has taken every name.
MakerSound(w) ==
    /\ wpc[w] = "ok" => depth[w] = Len(Path)
    /\ wpc[w] = "list again" => excuse[w] \/ Taken(current[w], Segment(w))
    /\ wpc[w] = "read again" => excuse[w] \/ Named(w) # {}
    /\ wpc[w] = "failed" => excuse[w]
    /\ wpc[w] \in {"read", "read again"} =>
          \A i \in listed[w] : \E e \in entries : e.id = i /\ e.parent = current[w]

PathTyped ==
    /\ wpc \in [Worker -> PathLabels]
    /\ depth \in [Worker -> Nat] /\ current \in [Worker -> Nat]
    /\ listed \in [Worker -> SUBSET Nat]
    /\ DOMAIN excuse = Worker

PathSound ==
    /\ PathTyped /\ Numbered
    /\ ~doubled => Apart /\ \E s \in [Nat -> Nat] : AllOnPath(s)
    /\ \A w \in Maker : \E s \in [Nat -> Nat] : OwnPath(s, w)
    /\ \A w \in Maker : MakerSound(w)

PathInv == ~tampered => PathSound

\* A call takes a step and the server's entries stay.
LEMMA EntriesStay ==
    ASSUME Numbered, entries' = entries
    PROVE  /\ Numbered' /\ (Apart => Apart')
           /\ \A s, d : StepOfPath(s, d)' <=> StepOfPath(s, d)
           /\ \A f, name : Taken(f, name)' <=> Taken(f, name)
BY DEF Numbered, Apart, StepOfPath, Taken, Children

\* An entry comes.
LEMMA EntryComes ==
    ASSUME Numbered, ~tampered, NEW x, x.id = NextId, entries' = entries \cup {x}
    PROVE  /\ Numbered' /\ NextId \in Nat
           /\ Apart /\ ~Taken(x.parent, x.name) => Apart'
           /\ \A s, d : StepOfPath(s, d) => StepOfPath(s, d)'
           /\ \A f, name : Taken(f, name) => Taken(f, name)'
<1>1. Cardinality(entries) \in Nat /\ NextId = Cardinality(entries) + 1
  BY FS_CardinalityType DEF Numbered, NextId
<1>2. x \notin entries
  BY <1>1 DEF Numbered
<1>3. IsFiniteSet(entries') /\ Cardinality(entries') = Cardinality(entries) + 1
  BY <1>2, FS_AddElement DEF Numbered
<1>4. \A e \in entries' : e.id \in Nat /\ e.id >= 1 /\ e.id <= Cardinality(entries')
  BY <1>1, <1>3 DEF Numbered
<1>5. \A e, f \in entries' : e.id = f.id => e = f
  BY <1>1 DEF Numbered
<1>6. Apart /\ ~Taken(x.parent, x.name) => Apart'
  BY DEF Apart, Taken, Children
<1>7. \A s, d : StepOfPath(s, d) => StepOfPath(s, d)'
  BY DEF StepOfPath
<1>8. \A f, name : Taken(f, name) => Taken(f, name)'
  BY DEF Taken, Children
<1> QED
  BY <1>1, <1>3, <1>4, <1>5, <1>6, <1>7, <1>8 DEF Numbered

\* When a call takes the next name, the others' path and its own stay one: no other
\* entry of the folder has that name.
LEMMA PathGrows ==
    ASSUME PathTyped, Numbered, NEW s \in [Nat -> Nat], AllOnPath(s),
           NEW w \in Maker, NEW x, x \in entries', x.id \in Nat,
           x.parent = current[w], x.name = Segment(w),
           Apart', entries \subseteq entries',
           \A t, d : StepOfPath(t, d) => StepOfPath(t, d)',
           depth' = [depth EXCEPT ![w] = @ + 1], current' = [current EXCEPT ![w] = x.id]
    PROVE  \E t \in [Nat -> Nat] : AllOnPath(t)'
<1>0. w \in Worker /\ Maker \subseteq Worker /\ depth[w] \in Nat /\ depth[w] + 1 \in Nat /\ 0 \in Nat
  BY DEF Worker, PathTyped
<1>1. /\ depth'[w] = depth[w] + 1 /\ current'[w] = x.id
      /\ \A v \in Worker \ {w} : depth'[v] = depth[v] /\ current'[v] = current[v]
  BY <1>0 DEF PathTyped
<1>2. current[w] = s[depth[w]] /\ \A d \in Nat : d < depth[w] => StepOfPath(s, d)
  BY DEF AllOnPath, OnPath
<1>3. CASE \E v \in Maker : depth[v] > depth[w]
  <2>1. StepOfPath(s, depth[w])
    BY <1>0, <1>3 DEF AllOnPath, OnPath
  <2>2. s[depth[w] + 1] = x.id
    BY <1>2, <2>1 DEF StepOfPath, Apart, Segment
  <2>3. \A v \in Maker : OnPath(s, v)'
    <3> SUFFICES ASSUME NEW v \in Maker PROVE OnPath(s, v)'
      OBVIOUS
    <3>1. CASE v = w
      <4>1. \A d \in Nat : d < depth'[w] => StepOfPath(s, d)
        BY <1>0, <1>1, <1>2, <2>1
      <4> QED
        BY <1>1, <2>2, <3>1, <4>1 DEF OnPath
    <3>2. CASE v # w
      BY <1>0, <1>1, <3>2 DEF OnPath, AllOnPath
    <3> QED
      BY <3>1, <3>2
  <2> QED
    BY <2>3 DEF AllOnPath
<1>4. CASE \A v \in Maker : ~(depth[v] > depth[w])
  <2>0. PICK n \in Nat : n = depth[w]
    BY <1>0
  <2>1. PICK t \in [Nat -> Nat] : t[n + 1] = x.id /\ \A d \in Nat : d <= n => t[d] = s[d]
    <3> DEFINE u == [s EXCEPT ![n + 1] = x.id]
    <3>1. u \in [Nat -> Nat] /\ u[n + 1] = x.id /\ \A d \in Nat : d <= n => u[d] = s[d]
      OBVIOUS
    <3> HIDE DEF u
    <3> QED
      BY <3>1
  <2>2. \A d \in Nat : d < depth[w] => (StepOfPath(s, d) => StepOfPath(t, d))
    BY <2>0, <2>1 DEF StepOfPath
  <2>3. StepOfPath(t, n)'
    <3>1. x \in entries' /\ x.id = t[n + 1] /\ x.parent = t[n] /\ x.name = <<Path[n + 1], 0>>
      BY <1>0, <1>2, <2>0, <2>1 DEF Segment
    <3> QED
      BY <3>1 DEF StepOfPath
  <2>4. \A v \in Maker : OnPath(t, v)'
    <3> SUFFICES ASSUME NEW v \in Maker PROVE OnPath(t, v)'
      OBVIOUS
    <3>1. CASE v = w
      <4>1. \A d \in Nat : d < depth[w] => StepOfPath(t, d)'
        BY <1>2, <2>2
      <4>2. \A d \in Nat : d < depth'[w] => d < depth[w] \/ d = depth[w]
        BY <1>0, <1>1
      <4> QED
        BY <1>1, <2>0, <2>1, <2>3, <3>1, <4>1, <4>2 DEF OnPath
    <3>2. CASE v # w
      <4>1. depth[v] \in Nat /\ depth[v] <= depth[w] /\ depth'[v] = depth[v] /\ current'[v] = current[v]
        BY <1>0, <1>1, <1>4, <3>2 DEF PathTyped
      <4>2. current[v] = s[depth[v]] /\ \A d \in Nat : d < depth[v] => StepOfPath(s, d)
        BY DEF AllOnPath, OnPath
      <4>3. t[depth[v]] = s[depth[v]]
        BY <2>0, <2>1, <4>1
      <4>4. \A d \in Nat : d < depth[v] => d < depth[w]
        BY <1>0, <4>1
      <4>5. \A d \in Nat : d < depth[v] => StepOfPath(t, d)'
        BY <2>2, <4>2, <4>4
      <4> QED
        BY <4>1, <4>2, <4>3, <4>5 DEF OnPath
    <3> QED
      BY <3>1, <3>2
  <2>5. t[0] = Top
    BY <2>0, <2>1 DEF AllOnPath
  <2> QED
    BY <2>1, <2>4, <2>5 DEF AllOnPath
<1> QED
  BY <1>3, <1>4

\* The path of the call itself goes on whatever the others do.
LEMMA OwnPathGrows ==
    ASSUME PathTyped, NEW w \in Maker, NEW s \in [Nat -> Nat], OwnPath(s, w),
           NEW x, x \in entries', x.id \in Nat, x.parent = current[w], x.name = Segment(w),
           \A t, d : StepOfPath(t, d) => StepOfPath(t, d)',
           depth' = [depth EXCEPT ![w] = @ + 1], current' = [current EXCEPT ![w] = x.id]
    PROVE  \E t \in [Nat -> Nat] : OwnPath(t, w)'
<1>0. w \in Worker /\ depth[w] \in Nat
  BY DEF Worker, PathTyped
<1>1. PICK n \in Nat : n = depth[w]
  BY <1>0
<1>2. depth'[w] = n + 1 /\ current'[w] = x.id
  BY <1>0, <1>1 DEF PathTyped
<1>3. PICK t \in [Nat -> Nat] : t[n + 1] = x.id /\ \A d \in Nat : d <= n => t[d] = s[d]
  <2> DEFINE u == [s EXCEPT ![n + 1] = x.id]
  <2>1. u \in [Nat -> Nat] /\ u[n + 1] = x.id /\ \A d \in Nat : d <= n => u[d] = s[d]
    OBVIOUS
  <2> HIDE DEF u
  <2> QED
    BY <2>1
<1>4. s[0] = Top /\ current[w] = s[n] /\ \A d \in Nat : d < n => StepOfPath(s, d)
  BY <1>1 DEF OwnPath, OnPath
<1>5. \A d \in Nat : d < n => StepOfPath(t, d)
  <2> SUFFICES ASSUME NEW d \in Nat, d < n PROVE StepOfPath(t, d)
    OBVIOUS
  <2>1. StepOfPath(s, d) /\ t[d] = s[d] /\ t[d + 1] = s[d + 1]
    BY <1>3, <1>4
  <2> QED
    BY <2>1 DEF StepOfPath
<1>6. StepOfPath(t, n)'
  <2>1. x \in entries' /\ x.id = t[n + 1] /\ x.parent = t[n] /\ x.name = <<Path[n + 1], 0>>
    BY <1>1, <1>3, <1>4 DEF Segment
  <2> QED
    BY <2>1 DEF StepOfPath
<1>7. \A d \in Nat : d < n + 1 => StepOfPath(t, d)'
  <2>1. \A d \in Nat : d < n + 1 => d < n \/ d = n
    OBVIOUS
  <2> QED
    BY <1>5, <1>6, <2>1
<1>8. t[0] = Top
  BY <1>3, <1>4
<1> QED
  BY <1>2, <1>3, <1>7, <1>8 DEF OwnPath, OnPath

\* What a step of the call w has to show: the others are where they were.
LEMMA CallMoves ==
    ASSUME PathSound, NEW w \in Worker, NEW label \in PathLabels, WTo(w, label),
           PathTyped', Numbered', Apart => Apart', doubled' = doubled, entries \subseteq entries',
           \A s, d : StepOfPath(s, d) => StepOfPath(s, d)',
           \A f, name : Taken(f, name) => Taken(f, name)',
           \A v \in Worker \ {w} : /\ current'[v] = current[v] /\ depth'[v] = depth[v]
                                   /\ listed'[v] = listed[v] /\ excuse'[v] = excuse[v],
           w \in Maker => MakerSound(w)',
           \/ w \in Maker => current'[w] = current[w] /\ depth'[w] = depth[w]
           \/ /\ w \in Maker /\ \E t \in [Nat -> Nat] : OwnPath(t, w)'
              /\ ~doubled => \E t \in [Nat -> Nat] : AllOnPath(t)'
    PROVE  PathSound'
<1>1. Maker \subseteq Worker /\ wpc'[w] = label /\ \A v \in Worker \ {w} : wpc'[v] = wpc[v]
  BY DEF Worker, WTo, PathSound, PathTyped
<1>2. ~doubled => \E t \in [Nat -> Nat] : AllOnPath(t)'
  <2> SUFFICES ASSUME w \in Maker => current'[w] = current[w] /\ depth'[w] = depth[w], ~doubled
               PROVE  \E t \in [Nat -> Nat] : AllOnPath(t)'
    OBVIOUS
  <2>1. PICK s \in [Nat -> Nat] : AllOnPath(s)
    BY DEF PathSound
  <2>2. \A v \in Maker : OnPath(s, v)'
    BY <1>1, <2>1 DEF AllOnPath, OnPath
  <2> QED
    BY <2>1, <2>2 DEF AllOnPath
<1>3. ASSUME NEW v \in Maker \ {w} PROVE MakerSound(v)'
  <2>1. /\ wpc'[v] = wpc[v] /\ current'[v] = current[v] /\ depth'[v] = depth[v]
        /\ listed'[v] = listed[v] /\ excuse'[v] = excuse[v] /\ MakerSound(v)
    BY <1>1, <1>3 DEF PathSound
  <2>2. Segment(v)' = Segment(v)
    BY <2>1 DEF Segment
  <2>3. Taken(current[v], Segment(v)) => Taken(current[v], Segment(v))'
    <3>1. PICK f, name : f = current[v] /\ name = Segment(v)
      OBVIOUS
    <3>2. Taken(f, name) => Taken(f, name)'
      OBVIOUS
    <3> QED
      BY <2>1, <2>2, <3>1, <3>2 DEF Taken, Children
  <2>4. Named(v) \subseteq Named(v)'
    BY <2>1, <2>2 DEF Named
  <2>5. wpc'[v] \in {"read", "read again"} =>
           \A i \in listed'[v] : \E e \in entries' : e.id = i /\ e.parent = current'[v]
    <3>1. wpc[v] \in {"read", "read again"} =>
             \A i \in listed[v] : \E e \in entries : e.id = i /\ e.parent = current[v]
      BY <2>1, Zenon DEF MakerSound
    <3> SUFFICES ASSUME wpc'[v] \in {"read", "read again"}, NEW i \in listed'[v]
                 PROVE  \E e \in entries' : e.id = i /\ e.parent = current'[v]
      OBVIOUS
    <3>2. PICK e \in entries : e.id = i /\ e.parent = current[v]
      BY <2>1, <3>1, Zenon
    <3>3. e \in entries' /\ e.id = i /\ e.parent = current'[v]
      BY <2>1, <3>2
    <3> QED
      BY <3>3
  <2>6. /\ wpc'[v] = "ok" => depth'[v] = Len(Path)
        /\ wpc'[v] = "list again" => excuse'[v] \/ Taken(current[v], Segment(v))'
        /\ wpc'[v] = "read again" => excuse'[v] \/ Named(v)' # {}
        /\ wpc'[v] = "failed" => excuse'[v]
    BY <2>1, <2>3, <2>4, Zenon DEF MakerSound
  <2> QED
    BY <2>5, <2>6 DEF MakerSound
<1>4. ASSUME NEW v \in Maker PROVE \E t \in [Nat -> Nat] : OwnPath(t, v)'
  <2> SUFFICES ASSUME current'[v] = current[v], depth'[v] = depth[v]
               PROVE  \E t \in [Nat -> Nat] : OwnPath(t, v)'
    BY <1>1
  <2>1. PICK s \in [Nat -> Nat] : OwnPath(s, v)
    BY DEF PathSound
  <2>2. OwnPath(s, v)'
    BY <2>1 DEF OwnPath, OnPath
  <2> QED
    BY <2>2
<1> QED
  BY <1>2, <1>3, <1>4 DEF PathSound

\* The server's side of it: an entry comes and the calls stay where they are.
LEMMA EntryAdded ==
    ASSUME PathSound, ~tampered, NEW x, x.id = NextId, entries' = entries \cup {x},
           ~doubled' => ~doubled /\ ~Taken(x.parent, x.name),
           UNCHANGED <<wpc, current, depth, listed, excuse>>
    PROVE  PathSound'
<1>1. /\ Numbered' /\ (~doubled' => Apart')
      /\ \A s, d : StepOfPath(s, d) => StepOfPath(s, d)'
      /\ \A f, name : Taken(f, name) => Taken(f, name)'
  BY EntryComes DEF PathSound
<1>2. PathTyped'
  BY DEF PathTyped, PathSound
<1>3. ASSUME ~doubled' PROVE \E t \in [Nat -> Nat] : AllOnPath(t)'
  <2>1. PICK s \in [Nat -> Nat] : AllOnPath(s)
    BY <1>3 DEF PathSound
  <2>2. \A v \in Maker : OnPath(s, v)'
    BY <1>1, <2>1 DEF AllOnPath, OnPath
  <2> QED
    BY <2>1, <2>2 DEF AllOnPath
<1>4. ASSUME NEW v \in Maker PROVE MakerSound(v)'
  <2>1. MakerSound(v)
    BY DEF PathSound
  <2>2. Taken(current[v], Segment(v)) => Taken(current[v], Segment(v))'
    BY DEF Taken, Children, Segment
  <2>3. Named(v) \subseteq Named(v)'
    BY DEF Named, Segment
  <2> QED
    BY <2>1, <2>2, <2>3 DEF MakerSound
<1>5. ASSUME NEW v \in Maker PROVE \E t \in [Nat -> Nat] : OwnPath(t, v)'
  <2>1. PICK s \in [Nat -> Nat] : OwnPath(s, v)
    BY DEF PathSound
  <2>2. OwnPath(s, v)'
    BY <1>1, <2>1 DEF OwnPath, OnPath
  <2> QED
    BY <2>2
<1> QED
  BY <1>1, <1>2, <1>3, <1>4, <1>5 DEF PathSound

\* A step of a call that leaves the server and the folder it has come to alone.
LEMMA CallStays ==
    ASSUME PathSound, NEW w \in Worker, NEW label \in PathLabels, WTo(w, label),
           entries' = entries, current' = current, doubled' = doubled,
           depth' \in [Worker -> Nat], listed' \in [Worker -> SUBSET Nat], DOMAIN excuse' = Worker,
           \A v \in Worker \ {w} : /\ depth'[v] = depth[v] /\ listed'[v] = listed[v]
                                   /\ excuse'[v] = excuse[v],
           w \in Maker => MakerSound(w)' /\ depth'[w] = depth[w]
    PROVE  PathSound'
<1>1. Numbered
  BY DEF PathSound
<1>2. PathTyped'
  BY DEF PathTyped, PathSound, WTo
<1> QED
  BY <1>1, <1>2, EntriesStay, CallMoves

\* The folder a maker has come to is there.
LEMMA FolderThere ==
    ASSUME PathSound, NEW w \in Maker
    PROVE  current[w] = Top \/ \E e \in entries : e.id = current[w]
<1>0. w \in Worker /\ depth[w] \in Nat
  BY DEF Worker, PathSound, PathTyped
<1>1. PICK s \in [Nat -> Nat] : OwnPath(s, w)
  BY DEF PathSound
<1>2. CASE depth[w] = 0
  BY <1>1, <1>2 DEF OwnPath, OnPath
<1>3. CASE depth[w] # 0
  <2>1. depth[w] - 1 \in Nat /\ depth[w] - 1 < depth[w] /\ depth[w] - 1 + 1 = depth[w]
    BY <1>0, <1>3
  <2>2. StepOfPath(s, depth[w] - 1)
    BY <1>1, <2>1 DEF OwnPath, OnPath
  <2>3. \E e \in entries : e.id = s[depth[w]]
    BY <2>1, <2>2 DEF StepOfPath
  <2> QED
    BY <1>1, <2>3 DEF OwnPath, OnPath
<1> QED
  BY <1>2, <1>3

\* A call goes one name on, into the entry x.
LEMMA CallDescends ==
    ASSUME PathSound, NEW w \in Worker, NEW label \in {"start", "ok"}, WTo(w, label),
           NEW x, x \in entries', x.id \in Nat,
           w \in Maker => /\ label = "start" /\ x.parent = current[w] /\ x.name = Segment(w),
           Numbered', Apart => Apart', doubled' = doubled, entries \subseteq entries',
           \A s, d : StepOfPath(s, d) => StepOfPath(s, d)',
           \A f, name : Taken(f, name) => Taken(f, name)',
           depth' = [depth EXCEPT ![w] = @ + 1], current' = [current EXCEPT ![w] = x.id],
           UNCHANGED <<listed, excuse>>
    PROVE  PathSound'
<1>0. label \in PathLabels /\ PathTyped /\ Numbered
  BY DEF PathLabels, PathSound
<1>1. PathTyped'
  BY <1>0 DEF PathTyped, WTo
<1>2. \A v \in Worker \ {w} : current'[v] = current[v] /\ depth'[v] = depth[v]
  BY <1>0 DEF PathTyped
<1>3. ASSUME w \in Maker PROVE MakerSound(w)'
  BY <1>0, <1>3 DEF WTo, PathTyped, MakerSound
<1>4. ASSUME w \in Maker, ~doubled PROVE \E t \in [Nat -> Nat] : AllOnPath(t)'
  BY <1>0, <1>4, PathGrows DEF PathSound
<1>5. ASSUME w \in Maker PROVE \E t \in [Nat -> Nat] : OwnPath(t, w)'
  BY <1>0, <1>5, OwnPathGrows DEF PathSound
<1> QED
  BY <1>0, <1>1, <1>2, <1>3, <1>4, <1>5, CallMoves

LEMMA WorkStepKept ==
    ASSUME PathSound, ~tampered, NEW w \in Worker, WorkStep(w) PROVE PathSound'
<1>0. /\ PathTyped /\ Numbered /\ wpc[w] \in PathLabels /\ depth[w] \in Nat /\ current[w] \in Nat
      /\ w \in Maker => MakerSound(w) /\ w \notin Seeker /\ w \notin Chooser
  BY RolesAssumption DEF PathSound, PathTyped
<1>1. CASE NextSegment(w)
  <2>1. PICK label \in {"ok", "list"} : WTo(w, label) /\ (label = "ok" => depth[w] = Len(Path))
    BY <1>1 DEF NextSegment
  <2>2. MakerSound(w)'
    BY <1>0, <1>1, <2>1 DEF NextSegment, MakerSound, WTo, PathTyped
  <2> QED
    BY <1>0, <1>1, <2>1, <2>2, CallStays DEF NextSegment, PathTyped, PathLabels
<1>2. CASE ListChildren(w)
  <2>1. PICK label \in {"read", "read again"} :
           /\ WTo(w, label)
           /\ label = "read again" => wpc[w] = "list again"
    BY <1>2 DEF ListChildren
  <2>2. PICK ids \in SUBSET Nat : ids = {e.id : e \in Children(current[w])}
    <3>1. {e.id : e \in Children(current[w])} \in SUBSET Nat
      BY <1>0 DEF Numbered, Children
    <3> QED
      BY <3>1
  <2>3. listed' = [listed EXCEPT ![w] = ids]
    BY <1>2, <2>2 DEF ListChildren
  <2>4. listed' \in [Worker -> SUBSET Nat] /\ listed'[w] = ids
        /\ \A v \in Worker \ {w} : listed'[v] = listed[v]
    BY <1>0, <2>3 DEF PathTyped
  <2>5. UNCHANGED <<entries, doubled, current, depth, excuse>> /\ wpc'[w] = label
    BY <1>0, <1>2, <2>1 DEF ListChildren, WTo, PathTyped
  <2>6. \A i \in listed'[w] : \E e \in entries' : e.id = i /\ e.parent = current'[w]
    BY <2>2, <2>4, <2>5 DEF Children
  <2>7. Taken(current[w], Segment(w)) => Named(w)' # {}
    BY <2>2, <2>4, <2>5 DEF Taken, Children, Named, Segment
  <2>8. w \in Maker => MakerSound(w)'
    BY <1>0, <2>1, <2>5, <2>6, <2>7 DEF MakerSound
  <2> QED
    BY <1>0, <2>1, <2>4, <2>5, <2>8, CallStays DEF PathTyped, PathLabels
<1>3. CASE FoundChild(w)
  <2>1. PICK e \in Named(w) :
          IF e.folder \/ w \in Seeker
          THEN /\ current' = [current EXCEPT ![w] = e.id]
               /\ depth' = [depth EXCEPT ![w] = @ + 1]
               /\ WTo(w, "start") /\ UNCHANGED excuse
          ELSE /\ WTo(w, "failed")
               /\ excuse' = [excuse EXCEPT ![w] = TRUE]
               /\ UNCHANGED <<current, depth>>
    BY <1>3 DEF FoundChild
  <2>2. /\ UNCHANGED <<entries, doubled, listed>> /\ wpc[w] \in {"read", "read again"}
        /\ e \in entries /\ e.id \in listed[w] /\ e.name = Segment(w) /\ e.id \in Nat
    BY <1>0, <1>3 DEF FoundChild, Named, Numbered
  <2>3. w \in Maker => e.parent = current[w]
    BY <1>0, <2>2 DEF MakerSound, Numbered
  <2>4. CASE e.folder \/ w \in Seeker
    <3>1. /\ current' = [current EXCEPT ![w] = e.id] /\ depth' = [depth EXCEPT ![w] = @ + 1]
          /\ WTo(w, "start") /\ excuse' = excuse
      BY <2>1, <2>4
    <3> QED
      BY <1>0, <2>2, <2>3, <3>1, EntriesStay, CallDescends
  <2>5. CASE ~(e.folder \/ w \in Seeker)
    <3>1. /\ WTo(w, "failed") /\ excuse' = [excuse EXCEPT ![w] = TRUE] /\ UNCHANGED <<current, depth>>
      BY <2>1, <2>5
    <3>2. DOMAIN excuse' = Worker /\ \A v \in Worker \ {w} : excuse'[v] = excuse[v]
      BY <1>0, <3>1, Zenon DEF PathTyped
    <3>3. excuse'[w]
      BY <1>0, <3>1, Zenon DEF PathTyped
    <3>4. wpc'[w] = "failed"
      BY <1>0, <3>1 DEF WTo, PathTyped
    <3>5. MakerSound(w)'
      BY <3>3, <3>4 DEF MakerSound
    <3> QED
      BY <1>0, <2>2, <3>1, <3>2, <3>5, CallStays DEF PathTyped, PathLabels
  <2> QED
    BY <2>4, <2>5
<1>4. CASE NoSuchChild(w)
  <2>1. PICK label \in {"none", "create", "failed"} :
           /\ WTo(w, label)
           /\ w \in Maker /\ label = "failed" => wpc[w] = "read again"
           /\ w \in Maker => label # "none"
    BY <1>0, <1>4 DEF NoSuchChild
  <2>2. UNCHANGED <<entries, doubled, current, depth, listed, excuse>> /\ wpc'[w] = label /\ Named(w) = {}
    BY <1>0, <1>4, <2>1 DEF NoSuchChild, WTo, PathTyped
  <2>3. w \in Maker => MakerSound(w)'
    BY <1>0, <2>1, <2>2 DEF MakerSound
  <2> QED
    BY <1>0, <2>1, <2>2, <2>3, CallStays DEF PathTyped, PathLabels
<1>5. CASE CreateFolder(w)
  <2>1. PICK x : x = NewFolder(NextId, current[w], NewName(w))
    OBVIOUS
  <2>2. /\ x.id = NextId /\ x.parent = current[w] /\ x.name = NewName(w)
        /\ w \in Maker => x.name = Segment(w)
    BY <2>1 DEF NewFolder, NewName
  <2>3. ~Taken(x.parent, x.name) /\ entries' = entries \cup {x} /\ doubled' = doubled
    BY <1>5, <2>1, <2>2 DEF CreateFolder, Accepts
  <2>4. PICK label \in {"start", "ok"} : WTo(w, label) /\ (w \in Maker => label = "start")
    BY <1>5 DEF CreateFolder
  <2>5. /\ Numbered' /\ NextId \in Nat /\ (Apart => Apart')
        /\ \A s, d : StepOfPath(s, d) => StepOfPath(s, d)'
        /\ \A f, name : Taken(f, name) => Taken(f, name)'
    BY <1>0, <2>2, <2>3, EntryComes
  <2>6. /\ depth' = [depth EXCEPT ![w] = @ + 1] /\ current' = [current EXCEPT ![w] = x.id]
        /\ UNCHANGED <<listed, excuse>> /\ x.id \in Nat /\ x \in entries' /\ entries \subseteq entries'
    BY <1>5, <2>2, <2>3, <2>5 DEF CreateFolder
  <2> QED
    BY <2>2, <2>3, <2>4, <2>5, <2>6, CallDescends
<1>6. CASE CreateRefused(w)
  <2>1. PICK label \in {"list again", "failed"} :
           WTo(w, label) /\ (w \in Maker => label = "list again")
    BY <1>6 DEF CreateRefused, CreateError
  <2>2. UNCHANGED <<entries, doubled, current, depth, listed, excuse>> /\ wpc'[w] = label
    BY <1>0, <1>6, <2>1 DEF CreateRefused, WTo, PathTyped
  <2>3. w \in Maker => Taken(current[w], Segment(w))
    BY <1>6, FolderThere DEF CreateRefused, Accepts, NewName
  <2>4. w \in Maker => Taken(current[w], Segment(w))'
    BY <2>2, <2>3 DEF Taken, Children, Segment
  <2>5. w \in Maker => MakerSound(w)'
    BY <2>1, <2>2, <2>4 DEF MakerSound
  <2> QED
    BY <1>0, <2>1, <2>2, <2>5, CallStays DEF PathTyped, PathLabels
<1>7. CASE AskAvailable(w)
  <2>1. PICK label \in PathLabels : WTo(w, label) 
    <3>1. CASE wpc' = wpc
      <4>1. wpc' = [wpc EXCEPT ![w] = wpc[w]]
        BY <1>0, <3>1 DEF PathTyped
      <4> QED
        BY <1>0, <4>1 DEF WTo
    <3>2. CASE WTo(w, "create")
      BY <3>2 DEF PathLabels
    <3> QED
      BY <1>7, <3>1, <3>2 DEF AskAvailable
  <2>2. depth' = depth \/ depth' = [depth EXCEPT ![w] = @ + 1]
    BY <1>7 DEF AskAvailable
  <2>3. depth' \in [Worker -> Nat] /\ \A v \in Worker \ {w} : depth'[v] = depth[v]
    BY <1>0, <2>2 DEF PathTyped
  <2>4. UNCHANGED <<entries, doubled, current, listed, excuse>> /\ w \notin Maker
    BY <1>0, <1>7 DEF AskAvailable
  <2> QED
    BY <1>0, <2>1, <2>3, <2>4, CallStays DEF PathTyped
<1> QED
  BY <1>1, <1>2, <1>3, <1>4, <1>5, <1>6, <1>7 DEF WorkStep

LEMMA CreateFailsKept ==
    ASSUME PathSound, NEW w \in Worker, CreateFails(w) PROVE PathSound'
<1>0. PathTyped
  BY DEF PathSound
<1>1. PICK label \in {"list again", "failed"} : WTo(w, label)
  BY DEF CreateFails, CreateError
<1>2. /\ UNCHANGED <<entries, doubled, current, depth, listed>> /\ wpc'[w] = label
      /\ excuse' = [excuse EXCEPT ![w] = TRUE]
  BY <1>0, <1>1 DEF CreateFails, WTo, PathTyped
<1>3. DOMAIN excuse' = Worker /\ \A v \in Worker \ {w} : excuse'[v] = excuse[v]
  BY <1>0, <1>2, Zenon DEF PathTyped
<1>4. excuse'[w]
  BY <1>0, <1>2, Zenon DEF PathTyped
<1>5. MakerSound(w)'
  BY <1>1, <1>2, <1>4 DEF MakerSound
<1> QED
  BY <1>0, <1>1, <1>2, <1>3, <1>5, CallStays DEF PathTyped, PathLabels

LEMMA PathStep == PathInv /\ [PathNext]_pathVars => PathInv'
<1> SUFFICES ASSUME PathInv, [PathNext]_pathVars, ~tampered' PROVE PathSound'
  BY DEF PathInv
<1>1. ~tampered /\ PathSound
  <2>1. tampered' = tampered \/ tampered' = TRUE
    BY DEF PathNext, WorkStep, NextSegment, ListChildren, FoundChild, NoSuchChild, CreateFolder,
           CreateRefused, AskAvailable, CreateFails, CreateArrives, AddEntry, RemoveEntry, pathVars
  <2> QED
    BY <2>1 DEF PathInv
<1>2. ASSUME NEW x, x.id = NextId, entries' = entries \cup {x},
             ~doubled' => ~doubled /\ ~Taken(x.parent, x.name),
             UNCHANGED <<wpc, current, depth, listed, excuse>>
      PROVE  PathSound'
  BY <1>1, <1>2, EntryAdded
<1>3. ASSUME UNCHANGED <<entries, doubled, wpc, current, depth, listed, excuse>> PROVE PathSound'
  <2>1. PathTyped' /\ Numbered' /\ (Apart => Apart')
    BY <1>1, <1>3 DEF PathSound, PathTyped, Numbered, Apart
  <2>2. \A s, w : (AllOnPath(s)' <=> AllOnPath(s)) /\ (OwnPath(s, w)' <=> OwnPath(s, w))
    BY <1>3 DEF AllOnPath, OwnPath, OnPath, StepOfPath
  <2>3. \A w : MakerSound(w)' <=> MakerSound(w)
    <3>1. \A w : Segment(w)' = Segment(w) /\ Named(w)' = Named(w)
      BY <1>3 DEF Segment, Named
    <3>2. \A f, name : Taken(f, name)' <=> Taken(f, name)
      BY <1>3 DEF Taken, Children
    <3> QED
      BY <1>3, <3>1, <3>2 DEF MakerSound
  <2> QED
    BY <1>1, <1>3, <2>1, <2>2, <2>3 DEF PathSound
<1>4. CASE UNCHANGED pathVars
  BY <1>3, <1>4 DEF pathVars
<1>5. ASSUME NEW w \in Worker, WorkStep(w) PROVE PathSound'
  BY <1>1, <1>5, WorkStepKept
<1>6. ASSUME NEW w \in Worker, CreateFails(w) PROVE PathSound'
  BY <1>1, <1>6, CreateFailsKept
<1>7. CASE CreateArrives
  <2>1. PICK make \in lateMakes :
           entries' = IF Accepts(make[1], make[2])
                      THEN entries \cup {NewFolder(NextId, make[1], make[2])} ELSE entries
    BY <1>7 DEF CreateArrives
  <2>2. UNCHANGED <<doubled, wpc, current, depth, listed, excuse>>
    BY <1>7 DEF CreateArrives
  <2>3. PICK x : x = NewFolder(NextId, make[1], make[2])
    OBVIOUS
  <2>4. x.id = NextId /\ x.parent = make[1] /\ x.name = make[2]
    BY <2>3 DEF NewFolder
  <2> QED
    BY <1>2, <1>3, <2>1, <2>2, <2>3, <2>4 DEF Accepts
<1>8. ASSUME NEW name, NEW folder, AddEntry(Top, name, folder) PROVE PathSound'
  <2>1. PICK x : x = [id |-> NextId, parent |-> Top, name |-> name, folder |-> folder]
    OBVIOUS
  <2>2. x.id = NextId /\ x.parent = Top /\ x.name = name
    BY <2>1
  <2> QED
    BY <1>2, <1>8, <2>1, <2>2 DEF AddEntry
<1>9. ASSUME NEW e, RemoveEntry(e) PROVE PathSound'
  BY <1>9 DEF RemoveEntry
<1> QED
  BY <1>4, <1>5, <1>6, <1>7, <1>8, <1>9 DEF PathNext

\* Calls for one path that end well end where the path leads, in one folder unless
\* others put an entry beside one of the same name, and none of them fails without an
\* excuse (create_folder_path): the lookup after a refused creation finds what it was
\* refused for.
THEOREM OneFolderPerPath == PathSpec => []OnePathOneFolder
<1>1. PathInit => PathInv
  <2> SUFFICES ASSUME PathInit PROVE PathSound
    BY DEF PathInv
  <2>1. PathTyped
    BY DEF PathInit, PathTyped, PathLabels, Top
  <2>2. Numbered /\ Apart
    BY FS_EmptySet DEF PathInit, Numbered, Apart
  <2>3. \E s \in [Nat -> Nat] : AllOnPath(s)
    <3> DEFINE s == [d \in Nat |-> Top]
    <3>1. s \in [Nat -> Nat] /\ s[0] = Top
      BY DEF Top
    <3>2. \A w \in Maker : OnPath(s, w)
      BY DEF PathInit, OnPath, Worker, Top
    <3> HIDE DEF s
    <3> QED
      BY <3>1, <3>2 DEF AllOnPath
  <2>4. \A w \in Maker : MakerSound(w)
    BY DEF PathInit, MakerSound, Worker
  <2>5. \A w \in Maker : \E s \in [Nat -> Nat] : OwnPath(s, w)
    BY <2>3 DEF AllOnPath, OwnPath
  <2> QED
    BY <2>1, <2>2, <2>3, <2>4, <2>5 DEF PathSound
<1>2. PathInv => OnePathOneFolder
  <2> SUFFICES ASSUME PathSound
               PROVE  /\ \A w \in Maker : wpc[w] = "ok" => LeadsTo(current[w])
                      /\ doubled \/ \A v, w \in Maker :
                                       wpc[v] = "ok" /\ wpc[w] = "ok" => current[v] = current[w]
                      /\ \A w \in Maker : wpc[w] = "failed" => excuse[w]
    BY DEF PathInv, OnePathOneFolder
  <2>1. \A w \in Maker : wpc[w] = "ok" => depth[w] = Len(Path)
    BY Zenon DEF PathSound, MakerSound
  <2>2. ASSUME ~doubled, NEW v \in Maker, NEW w \in Maker, wpc[v] = "ok", wpc[w] = "ok"
        PROVE  current[v] = current[w]
    <3>1. PICK s \in [Nat -> Nat] : AllOnPath(s)
      BY <2>2 DEF PathSound
    <3> QED
      BY <2>1, <2>2, <3>1 DEF AllOnPath, OnPath
  <2>3. \A w \in Maker : wpc[w] = "failed" => excuse[w]
    BY Zenon DEF PathSound, MakerSound
  <2>4. ASSUME NEW w \in Maker, wpc[w] = "ok" PROVE LeadsTo(current[w])
    <3>1. PICK s \in [Nat -> Nat] : OwnPath(s, w)
      BY DEF PathSound
    <3>2. PICK n \in Nat : n = Len(Path) /\ n = depth[w]
      BY <2>1, <2>4 DEF PathSound, PathTyped, Worker
    <3>3. s[0] = Top /\ s[n] = current[w] /\ \A d \in Nat : d < n => StepOfPath(s, d)
      BY <3>1, <3>2 DEF OwnPath, OnPath
    <3>4. ASSUME NEW i \in 1 .. n
          PROVE  \E e \in entries : e.id = s[i] /\ e.parent = s[i - 1] /\ e.name = <<Path[i], 0>>
      <4>1. i - 1 \in Nat /\ i - 1 < n /\ (i - 1) + 1 = i
        OBVIOUS
      <4>2. StepOfPath(s, i - 1)
        BY <3>3, <4>1
      <4> QED
        BY <4>1, <4>2 DEF StepOfPath
    <3> DEFINE t == [d \in 0 .. n |-> s[d]]
    <3>5. ASSUME NEW d \in 0 .. n PROVE s[d] \in {Top} \cup {e.id : e \in entries}
      <4>1. CASE d = 0
        BY <3>3, <4>1
      <4>2. CASE d # 0
        BY <3>4, <4>2
      <4> QED
        BY <4>1, <4>2
    <3>6. t \in [0 .. n -> {Top} \cup {e.id : e \in entries}]
      BY <3>5
    <3>7. t[0] = Top /\ t[n] = current[w]
      BY <3>3
    <3>8. \A i \in 1 .. n : t[i] = s[i] /\ t[i - 1] = s[i - 1]
      OBVIOUS
    <3> HIDE DEF t
    <3>9. ASSUME NEW i \in 1 .. n
          PROVE  \E e \in entries : e.id = t[i] /\ e.parent = t[i - 1] /\ e.name = <<Path[i], 0>>
      <4>1. PICK e \in entries : e.id = s[i] /\ e.parent = s[i - 1] /\ e.name = <<Path[i], 0>>
        BY <3>4
      <4>2. e.id = t[i] /\ e.parent = t[i - 1]
        BY <3>8, <4>1
      <4> QED
        BY <4>1, <4>2
    <3>10. \A i \in 1 .. Len(Path) :
              \E e \in entries : e.id = t[i] /\ e.parent = t[i - 1] /\ e.name = <<Path[i], 0>>
      BY <3>2, <3>9
    <3>11. /\ t \in [0 .. Len(Path) -> {Top} \cup {e.id : e \in entries}]
           /\ t[0] = Top /\ t[Len(Path)] = current[w]
      BY <3>2, <3>6, <3>7
    <3> QED
      BY <3>10, <3>11, Zenon DEF LeadsTo
  <2> QED
    BY <2>2, <2>3, <2>4
<1> QED
  BY <1>1, <1>2, PathStep, PTL DEF PathSpec

-----------------------------------------------------------------------------
(* The account's default address.                                          *)

AccountLabels == {"idle", "userkeys", "salts", "user", "storekeys", "addresses", "open", "answer"}
AccountOutcomes == {"none", "ok", "forbidden", "locked", "error", "failed", "no address", "unknown"}
AccountOps == {"none", "unlock", "default", "address", "keys"}

\* What is known of a call's own record; the keys it goes through do not matter here.
CallShape == {"at", "op", "of", "phrases", "seen", "broken", "left", "overtaken", "outcome", "got"}
CallTyped(r) ==
    /\ DOMAIN r = CallShape
    /\ r.at \in AccountLabels /\ r.op \in AccountOps /\ r.outcome \in AccountOutcomes
    /\ r.seen \in SUBSET Address /\ r.broken \in SUBSET Address

CallSound(r) ==
    /\ r.at # "idle" => r.outcome = "none"
    /\ r.at = "answer" => r.overtaken \/ (defaultFailed <=> DefaultBroken(r.seen, r.broken))
    /\ r.overtaken \/ GaveLowest(r)

\* The flag goes with the two lists it is stored with.
CacheSound ==
    addresses # NotLoaded =>
        /\ addresses \in SUBSET Address /\ failedAddresses \in SUBSET Address
        /\ defaultFailed <=> DefaultBroken(addresses, failedAddresses)

AccountInv ==
    /\ DOMAIN calling = Caller
    /\ \A c \in Caller : CallTyped(calling[c]) /\ CallSound(calling[c])
    /\ CacheSound

\* Of some addresses one is the lowest.
LEMMA LowestIs ==
    ASSUME NEW as \in SUBSET Address, as # {}
    PROVE  Lowest(as) \in as /\ \A b \in as : Lowest(as) <= b
<1>1. as \subseteq Nat
  BY AccountAssumption
<1>2. \E a \in as : \A b \in as : a <= b
  BY <1>1, LeastNumber
<1> QED
  BY <1>2 DEF Lowest

\* When the lowest of all that were listed opened, the lowest of those that opened is
\* below all that did not.
LEMMA LowestOpened ==
    ASSUME NEW seen \in SUBSET Address, NEW broken \in SUBSET Address,
           seen # {}, ~DefaultBroken(seen, broken)
    PROVE  \A a \in broken : Lowest(seen) < a
<1>1. PICK all \in SUBSET Address : all = seen \cup broken
  OBVIOUS
<1>2. PICK low \in all : low = Lowest(all) /\ \A b \in all : low <= b
  BY <1>1, LowestIs
<1>3. low \notin broken
  BY <1>1, <1>2 DEF DefaultBroken
<1>4. PICK got \in seen : got = Lowest(seen) /\ \A b \in seen : got <= b
  BY LowestIs
<1> SUFFICES ASSUME NEW a \in broken PROVE got < a
  BY <1>4
<1>5. low \in seen /\ got <= low /\ low <= a /\ low # a
  BY <1>1, <1>2, <1>3, <1>4
<1>6. low \in Nat /\ a \in Nat /\ got \in Nat
  BY AccountAssumption
<1> QED
  BY <1>5, <1>6

\* A step of one call, with r what it notes of itself, that stores no list.
LEMMA AccountCallMoves ==
    ASSUME AccountInv, NEW c \in Caller, NEW r, calling' = [calling EXCEPT ![c] = r],
           CallTyped(r), CallSound(r), UNCHANGED <<addresses, failedAddresses, defaultFailed>>
    PROVE  AccountInv'
<1>1. DOMAIN calling' = Caller /\ calling'[c] = r /\ \A d \in Caller \ {c} : calling'[d] = calling[d]
  BY DEF AccountInv
<1>2. \A q : CallSound(q) => CallSound(q)'
  BY DEF CallSound, GaveLowest
<1>3. CacheSound'
  BY DEF AccountInv, CacheSound
<1>4. ASSUME NEW d \in Caller PROVE (CallTyped(calling[d]) /\ CallSound(calling[d]))'
  <2>1. PICK q : q = calling'[d]
    OBVIOUS
  <2>2. CallTyped(q) /\ CallSound(q)
    BY <1>1, <2>1 DEF AccountInv
  <2>3. CallSound(q)'
    BY <1>2, <2>2
  <2> QED
    BY <2>1, <2>2, <2>3 DEF CallSound
<1> QED
  BY <1>1, <1>3, <1>4 DEF AccountInv

\* A call between its first look and its answer, or one that gives no default, has
\* nothing to show.
LEMMA AccountCallMidway ==
    ASSUME NEW r,
           \/ r.at \notin {"idle", "answer"} /\ r.outcome = "none"
           \/ r.at = "idle" /\ (r.op # "default" \/ r.outcome # "ok")
    PROVE  CallSound(r)
BY DEF CallSound, GaveLowest

LEMMA AccountCallEnds ==
    ASSUME AccountInv, NEW c \in Caller,
           NEW outcome \in AccountOutcomes, EndsWith(c, outcome),
           UNCHANGED <<addresses, failedAddresses, defaultFailed>>
    PROVE  AccountInv'
<1>1. PICK r : r = [Waiting EXCEPT !.outcome = outcome]
  OBVIOUS
<1>2. CallTyped(r) /\ r.at = "idle" /\ r.op = "none"
  BY <1>1 DEF Waiting, CallTyped, CallShape, AccountLabels, AccountOps
<1>3. calling' = [calling EXCEPT ![c] = r]
  BY <1>1 DEF EndsWith, Proceeds
<1> QED
  BY <1>2, <1>3, AccountCallMoves, AccountCallMidway

\* A call goes on to a label before its answer, whatever it notes on the way.
LEMMA AccountCallGoesOn ==
    ASSUME AccountInv, NEW c \in Caller, NEW r, calling' = [calling EXCEPT ![c] = r],
           calling[c].at # "idle", DOMAIN r = CallShape,
           r.at \in AccountLabels \ {"idle", "answer"}, r.op = calling[c].op,
           r.outcome = calling[c].outcome, r.seen \in SUBSET Address, r.broken \in SUBSET Address,
           UNCHANGED <<addresses, failedAddresses, defaultFailed>>
    PROVE  AccountInv'
<1>1. calling[c].outcome = "none" /\ calling[c].op \in AccountOps
  BY DEF AccountInv, CallTyped, CallSound
<1>2. CallTyped(r) /\ CallSound(r)
  BY <1>1, AccountCallMidway DEF CallTyped, AccountOutcomes
<1> QED
  BY <1>2, AccountCallMoves

LEMMA BeginAccountCallKept ==
    ASSUME AccountInv, NEW c \in Caller, NEW op \in AccountOps \ {"none"}, NEW a,
           BeginAccountCall(c, op, a)
    PROVE  AccountInv'
<1> DEFINE q == [Waiting EXCEPT !.op = op, !.of = a]
<1>1. PICK r :
         /\ calling' = [calling EXCEPT ![c] = r]
         /\ \/ op = "keys" /\ r = [q EXCEPT !.outcome = "ok", !.got = a]
            \/ r = [q EXCEPT !.at = "userkeys"]
            \/ addresses # NotLoaded
               /\ r = [q EXCEPT !.at = "answer", !.seen = addresses, !.broken = failedAddresses]
  <2>1. PICK r :
           /\ calling' = [calling EXCEPT ![c] = r]
           /\ r = IF op = "keys" /\ a \in addressKeys THEN [q EXCEPT !.outcome = "ok", !.got = a]
                  ELSE IF op = "unlock" \/ addresses = NotLoaded THEN [q EXCEPT !.at = "userkeys"]
                  ELSE [q EXCEPT !.at = "answer", !.seen = addresses, !.broken = failedAddresses]
    BY DEF BeginAccountCall
  <2> HIDE DEF q
  <2>2. CASE op = "keys" /\ a \in addressKeys
    <3>1. r = [q EXCEPT !.outcome = "ok", !.got = a]
      BY <2>1, <2>2
    <3> QED
      BY <2>1, <2>2, <3>1
  <2>3. CASE ~(op = "keys" /\ a \in addressKeys) /\ (op = "unlock" \/ addresses = NotLoaded)
    <3>1. r = [q EXCEPT !.at = "userkeys"]
      BY <2>1, <2>3
    <3> QED
      BY <2>1, <3>1
  <2>4. CASE ~(op = "keys" /\ a \in addressKeys) /\ ~(op = "unlock" \/ addresses = NotLoaded)
    <3>1. r = [q EXCEPT !.at = "answer", !.seen = addresses, !.broken = failedAddresses]
      BY <2>1, <2>4
    <3> QED
      BY <2>1, <2>4, <3>1
  <2> QED
    BY <2>2, <2>3, <2>4
<1>2. UNCHANGED <<addresses, failedAddresses, defaultFailed>>
  BY DEF BeginAccountCall, cacheVars
<1>3. CASE op = "keys" /\ r = [q EXCEPT !.outcome = "ok", !.got = a]
  <2>1. r.at = "idle" /\ r.op = "keys" /\ CallTyped(r)
    BY <1>3 DEF Waiting, CallTyped, CallShape, AccountLabels, AccountOps, AccountOutcomes
  <2> QED
    BY <1>1, <1>2, <2>1, AccountCallMoves, AccountCallMidway
<1>4. CASE r = [q EXCEPT !.at = "userkeys"]
  <2>1. r.at = "userkeys" /\ r.outcome = "none" /\ CallTyped(r)
    BY <1>4 DEF Waiting, CallTyped, CallShape, AccountLabels, AccountOps, AccountOutcomes
  <2> QED
    BY <1>1, <1>2, <2>1, AccountCallMoves, AccountCallMidway
<1>5. CASE addresses # NotLoaded
           /\ r = [q EXCEPT !.at = "answer", !.seen = addresses, !.broken = failedAddresses]
  <2>0. /\ addresses \in SUBSET Address /\ failedAddresses \in SUBSET Address
        /\ defaultFailed <=> DefaultBroken(addresses, failedAddresses)
    BY <1>5, Zenon DEF AccountInv, CacheSound
  <2>1. /\ r.at = "answer" /\ r.outcome = "none" /\ CallTyped(r)
        /\ r.seen = addresses /\ r.broken = failedAddresses
    BY <1>5, <2>0 DEF Waiting, CallTyped, CallShape, AccountLabels, AccountOps, AccountOutcomes
  <2>2. r.outcome # "ok"
    BY <2>1
  <2>3. CallSound(r)
    BY <2>0, <2>1, <2>2, Zenon DEF CallSound, GaveLowest
  <2> QED
    BY <1>1, <1>2, <2>1, <2>3, AccountCallMoves
<1> QED
  BY <1>1, <1>3, <1>4, <1>5

LEMMA UserKeysKept ==
    ASSUME AccountInv, NEW c \in Caller,
           \/ HaveUserKeys(c) \/ HavePassphrases(c) \/ AskSalts(c) \/ StoreSalts(c)
           \/ FetchUserKeys(c) \/ StoreUserKeys(c) \/ AccountRequestFails(c) \/ FetchAddresses(c)
    PROVE  AccountInv'
<1>0. PICK q : q = calling[c] /\ CallTyped(q)
  BY DEF AccountInv
<1>1. UNCHANGED <<addresses, failedAddresses, defaultFailed>> /\ q.at # "idle"
  BY <1>0 DEF HaveUserKeys, HavePassphrases, AskSalts, StoreSalts, FetchUserKeys, StoreUserKeys,
              AccountRequestFails, FetchAddresses, cacheVars
<1>2. ASSUME NEW outcome \in AccountOutcomes, EndsWith(c, outcome) PROVE AccountInv'
  BY <1>1, <1>2, AccountCallEnds
<1>3. ASSUME NEW label \in AccountLabels \ {"idle", "answer"}, NEW phrases,
             \/ calling' = [calling EXCEPT ![c] = [q EXCEPT !.at = label]]
             \/ calling' = [calling EXCEPT ![c] = [q EXCEPT !.at = label, !.phrases = phrases]]
      PROVE  AccountInv'
  <2>1. PICK r : calling' = [calling EXCEPT ![c] = r]
                 /\ (r = [q EXCEPT !.at = label] \/ r = [q EXCEPT !.at = label, !.phrases = phrases])
    BY <1>3
  <2>2. /\ DOMAIN r = CallShape /\ r.at = label /\ r.op = q.op /\ r.outcome = q.outcome
        /\ r.seen = q.seen /\ r.broken = q.broken
    BY <1>0, <2>1 DEF CallTyped, CallShape
  <2> QED
    BY <1>0, <1>1, <2>1, <2>2, AccountCallGoesOn DEF CallTyped
<1>4. CASE HaveUserKeys(c)
  BY <1>0, <1>2, <1>3, <1>4 DEF HaveUserKeys, Proceeds, AccountOutcomes, AccountLabels
<1>5. CASE HavePassphrases(c)
  BY <1>0, <1>3, <1>5 DEF HavePassphrases, Proceeds, AccountLabels
<1>6. CASE AskSalts(c)
  BY <1>0, <1>2, <1>3, <1>6 DEF AskSalts, Proceeds, AccountOutcomes, AccountLabels
<1>7. CASE StoreSalts(c)
  BY <1>0, <1>3, <1>7 DEF StoreSalts, Proceeds, AccountLabels
<1>8. CASE FetchUserKeys(c)
  BY <1>0, <1>2, <1>3, <1>8 DEF FetchUserKeys, Proceeds, AccountOutcomes, AccountLabels
<1>9. CASE StoreUserKeys(c)
  BY <1>0, <1>2, <1>3, <1>9 DEF StoreUserKeys, Proceeds, AccountOutcomes, AccountLabels
<1>10. CASE AccountRequestFails(c)
  BY <1>2, <1>10 DEF AccountRequestFails, AccountOutcomes
<1>11. CASE FetchAddresses(c)
  <2>1. PICK left \in SUBSET Address, broken \in SUBSET Address :
           calling' = [calling EXCEPT ![c] = [q EXCEPT !.at = "open", !.left = left, !.broken = broken]]
    <3> DEFINE all == {a \in Address : opensWith[a] # Absent}
               broken == {a \in all : opensWith[a] \notin userKeys}
    <3>1. all \in SUBSET Address /\ broken \in SUBSET Address
      OBVIOUS
    <3>2. calling' = [calling EXCEPT ![c] = [q EXCEPT !.at = "open", !.left = all, !.broken = broken]]
      BY <1>0, <1>11, Zenon DEF FetchAddresses, Proceeds
    <3> QED
      BY <3>1, <3>2
  <2>2. PICK r : r = [q EXCEPT !.at = "open", !.left = left, !.broken = broken]
    OBVIOUS
  <2>3. /\ DOMAIN r = CallShape /\ r.at = "open" /\ r.op = q.op /\ r.outcome = q.outcome
        /\ r.seen = q.seen /\ r.broken = broken
    BY <1>0, <2>2 DEF CallTyped, CallShape
  <2> QED
    BY <1>0, <1>1, <2>1, <2>2, <2>3, AccountCallGoesOn DEF CallTyped, AccountLabels
<1> QED
  BY <1>4, <1>5, <1>6, <1>7, <1>8, <1>9, <1>10, <1>11

LEMMA OpenAddressKept ==
    ASSUME AccountInv, NEW c \in Caller, NEW a \in Address, OpenAddress(c, a)
    PROVE  AccountInv'
<1>0. PICK q : q = calling[c] /\ CallTyped(q) /\ q.at = "open"
  BY DEF AccountInv, OpenAddress
<1>1. PICK more \in SUBSET Address :
         calling' = [calling EXCEPT ![c] = [q EXCEPT !.left = @ \ {a}, !.seen = @ \cup more]]
  <2>1. (IF a \notin q.broken THEN {a} ELSE {}) \in SUBSET Address
    OBVIOUS
  <2>2. calling' = [calling EXCEPT ![c] = [q EXCEPT !.left = @ \ {a},
                        !.seen = @ \cup (IF a \notin q.broken THEN {a} ELSE {})]]
    BY <1>0, Zenon DEF OpenAddress, Proceeds
  <2> QED
    BY <2>1, <2>2
<1>2. PICK r : r = [q EXCEPT !.left = @ \ {a}, !.seen = @ \cup more]
  OBVIOUS
<1>3. /\ DOMAIN r = CallShape /\ r.at = "open" /\ r.op = q.op /\ r.outcome = q.outcome
      /\ r.seen = q.seen \cup more /\ r.broken = q.broken
  BY <1>0, <1>2 DEF CallTyped, CallShape
<1>4. UNCHANGED <<addresses, failedAddresses, defaultFailed>>
  BY DEF OpenAddress
<1> QED
  BY <1>0, <1>1, <1>2, <1>3, <1>4, AccountCallGoesOn DEF CallTyped, AccountLabels

LEMMA StoreAddressesKept ==
    ASSUME AccountInv, NEW c \in Caller, StoreAddresses(c) PROVE AccountInv'
<1>0. PICK q : q = calling[c] /\ CallTyped(q) /\ CallSound(q) /\ q.at = "open"
  BY DEF AccountInv, StoreAddresses
<1>1. CASE q.seen = {} /\ q.broken # {}
  BY <1>0, <1>1, AccountCallEnds DEF StoreAddresses, AccountOutcomes
<1>2. CASE ~(q.seen = {} /\ q.broken # {})
  <2>1. /\ addresses' = q.seen /\ failedAddresses' = q.broken
        /\ defaultFailed' = DefaultBroken(q.seen, q.broken)
        /\ calling' = [d \in Caller |->
              IF d = c THEN [calling[c] EXCEPT !.at = "answer"]
              ELSE [calling[d] EXCEPT !.overtaken = @ \/ Overtakes(q.seen, q.broken, calling[d])]]
    BY <1>0, <1>2, Zenon DEF StoreAddresses
  <2>2. q.seen \in SUBSET Address /\ q.broken \in SUBSET Address
    BY <1>0 DEF CallTyped
  <2>3. CacheSound'
    <3>1. defaultFailed' <=> DefaultBroken(addresses', failedAddresses')
      BY <2>1
    <3> QED
      BY <2>1, <2>2, <3>1 DEF CacheSound
  <2>4. DOMAIN calling' = Caller
    BY <2>1
  <2>5. ASSUME NEW d \in Caller PROVE (CallTyped(calling[d]) /\ CallSound(calling[d]))'
    <3>1. CASE d = c
      <4>1. PICK r : r = [q EXCEPT !.at = "answer"] /\ r = calling'[d]
        BY <1>0, <2>1, <3>1
      <4>2. /\ DOMAIN r = CallShape /\ r.at = "answer" /\ r.op = q.op /\ r.outcome = q.outcome
            /\ r.seen = q.seen /\ r.broken = q.broken
        BY <1>0, <4>1 DEF CallTyped, CallShape
      <4>3. CallTyped(r) /\ r.outcome = "none"
        BY <1>0, <4>2 DEF CallTyped, CallSound, AccountLabels
      <4>4. DefaultBroken(q.seen, q.broken) = DefaultBroken(r.seen, r.broken)
        BY <4>2
      <4>5. (defaultFailed <=> DefaultBroken(r.seen, r.broken))'
        BY <2>1, <4>4 DEF DefaultBroken, Lowest
      <4>6. CallSound(r)'
        BY <4>2, <4>3, <4>5 DEF CallSound, GaveLowest
      <4> QED
        BY <4>1, <4>3, <4>6 DEF CallSound
    <3>2. CASE d # c
      <4>0. PICK o : o = calling[d] /\ CallTyped(o) /\ CallSound(o)
        BY DEF AccountInv
      <4>1. PICK r : r = [o EXCEPT !.overtaken = @ \/ Overtakes(q.seen, q.broken, o)]
                    /\ r = calling'[d]
        BY <2>1, <3>2, <4>0
      <4>2. /\ DOMAIN r = CallShape /\ r.at = o.at /\ r.op = o.op /\ r.outcome = o.outcome
            /\ r.seen = o.seen /\ r.broken = o.broken /\ r.got = o.got
        BY <4>0, <4>1 DEF CallTyped, CallShape
      <4>3. r.overtaken <=> o.overtaken \/ Overtakes(q.seen, q.broken, o)
        BY <4>0, <4>1, Zenon DEF CallTyped, CallShape
      <4>4. CallTyped(r)
        BY <4>0, <4>2 DEF CallTyped
      <4>5. GaveLowest(o) => GaveLowest(r)
        BY <4>2 DEF GaveLowest
      <4>6. ASSUME r.at = "answer", ~r.overtaken
            PROVE  (defaultFailed <=> DefaultBroken(r.seen, r.broken))'
        <5>1. r.seen = q.seen /\ r.broken = q.broken
          BY <4>2, <4>3, <4>6 DEF Overtakes
        <5>2. DefaultBroken(q.seen, q.broken) = DefaultBroken(r.seen, r.broken)
          BY <5>1
        <5> QED
          BY <2>1, <5>2 DEF DefaultBroken, Lowest
      <4>7. CallSound(r)'
        BY <4>0, <4>2, <4>3, <4>5, <4>6 DEF CallSound
      <4> QED
        BY <4>1, <4>4, <4>7 DEF CallSound
    <3> QED
      BY <3>1, <3>2
  <2> QED
    BY <2>3, <2>4, <2>5 DEF AccountInv
<1> QED
  BY <1>1, <1>2

LEMMA AnswerAccountCallKept ==
    ASSUME AccountInv, NEW c \in Caller, AnswerAccountCall(c) PROVE AccountInv'
<1>0. PICK q : q = calling[c] /\ CallTyped(q) /\ CallSound(q) /\ q.at = "answer"
  BY DEF AccountInv, AnswerAccountCall
<1>1. PICK outcome, got, r :
         /\ calling' = [calling EXCEPT ![c] = r]
         /\ r = [q EXCEPT !.at = "idle", !.seen = {}, !.outcome = outcome, !.got = got]
         /\ outcome = CASE q.op = "default" -> IF defaultFailed THEN "failed"
                                               ELSE IF q.seen = {} THEN "no address" ELSE "ok"
                        [] q.op = "address" -> IF q.of \in q.seen THEN "ok"
                                               ELSE IF q.of \in failedAddresses THEN "failed" ELSE "unknown"
                        [] OTHER -> IF q.of \in addressKeys THEN "ok"
                                    ELSE IF q.of \in failedAddresses THEN "failed" ELSE "unknown"
         /\ got = IF q.op = "default" /\ ~defaultFailed /\ q.seen # {} THEN Lowest(q.seen) ELSE q.of
  BY <1>0, Zenon DEF AnswerAccountCall
<1>2. outcome \in AccountOutcomes
  BY <1>1 DEF AccountOutcomes
<1>3. /\ DOMAIN r = CallShape /\ r.at = "idle" /\ r.op = q.op /\ r.outcome = outcome
      /\ r.seen = {} /\ r.broken = q.broken /\ r.got = got
  BY <1>0, <1>1 DEF CallTyped, CallShape
<1>4. r.overtaken <=> q.overtaken
  BY <1>0, <1>1, Zenon DEF CallTyped, CallShape
<1>5. CallTyped(r)
  BY <1>0, <1>2, <1>3 DEF CallTyped, AccountLabels
<1>6. ASSUME q.op = "default", outcome = "ok", ~q.overtaken PROVE GaveLowest(r)
  <2>1. ~defaultFailed /\ q.seen # {}
    BY <1>1, <1>6
  <2>2. got = Lowest(q.seen)
    BY <1>1, <1>6, <2>1
  <2>3. ~DefaultBroken(q.seen, q.broken)
    BY <1>0, <1>6, <2>1 DEF CallSound
  <2>4. \A a \in q.broken : Lowest(q.seen) < a
    BY <1>0, <2>1, <2>3, LowestOpened DEF CallTyped
  <2> QED
    BY <1>3, <2>2, <2>4 DEF GaveLowest
<1>7. CallSound(r)
  BY <1>3, <1>4, <1>6 DEF CallSound, GaveLowest
<1>8. UNCHANGED <<addresses, failedAddresses, defaultFailed>>
  BY DEF AnswerAccountCall, cacheVars
<1> QED
  BY <1>1, <1>5, <1>7, <1>8, AccountCallMoves

LEMMA AccountStep == AccountInv /\ [AccountNext]_accountVars => AccountInv'
<1> SUFFICES ASSUME AccountInv, [AccountNext]_accountVars PROVE AccountInv'
  OBVIOUS
<1>1. ASSUME UNCHANGED <<calling, cacheVars>> PROVE AccountInv'
  BY <1>1 DEF cacheVars, AccountInv, CallTyped, CallSound, GaveLowest, CacheSound
<1>2. CASE UNCHANGED accountVars
  BY <1>1, <1>2 DEF accountVars, cacheVars
<1>3. ASSUME NEW c \in Caller, NEW op \in {"unlock", "default"}, BeginAccountCall(c, op, Absent)
      PROVE  AccountInv'
  BY <1>3, BeginAccountCallKept DEF AccountOps
<1>4. ASSUME NEW c \in Caller, NEW op \in {"address", "keys"}, NEW a \in Address,
             BeginAccountCall(c, op, a)
      PROVE  AccountInv'
  BY <1>4, BeginAccountCallKept DEF AccountOps
<1>5. ASSUME NEW k \in UserKey, ReplaceUserKey(k) PROVE AccountInv'
  BY <1>1, <1>5 DEF ReplaceUserKey, Edited, cacheVars
<1>6. ASSUME NEW a \in Address, NEW k, EditAddress(a, k) PROVE AccountInv'
  BY <1>1, <1>6 DEF EditAddress, Edited, cacheVars
<1>7. CASE RefreshToken
  BY <1>1, <1>7 DEF RefreshToken, Edited, cacheVars
<1> QED
  BY <1>2, <1>3, <1>4, <1>5, <1>6, <1>7, UserKeysKept, OpenAddressKept, StoreAddressesKept,
     AnswerAccountCallKept DEF AccountNext

\* However many calls load the account at once, default_address gives no address while
\* a lower one was listed with it that did not open, unless another call stored a
\* different list between its own and its look at the flag: the flag and the two lists
\* are stored together.
THEOREM DefaultAlwaysLowest == AccountSpec => []DefaultIsLowest
<1>1. AccountInit => AccountInv
  <2> SUFFICES ASSUME AccountInit PROVE AccountInv
    OBVIOUS
  <2>1. calling = [c \in Caller |-> Waiting] /\ addresses = NotLoaded
    BY DEF AccountInit
  <2>2. CallTyped(Waiting) /\ Waiting.at = "idle" /\ Waiting.op = "none"
    BY DEF Waiting, CallTyped, CallShape, AccountLabels, AccountOps, AccountOutcomes
  <2>3. CallSound(Waiting)
    BY <2>2, AccountCallMidway
  <2> QED
    BY <2>1, <2>2, <2>3 DEF AccountInv, CacheSound
<1>2. AccountInv => DefaultIsLowest
  BY DEF AccountInv, CallSound, DefaultIsLowest
<1> QED
  BY <1>1, <1>2, AccountStep, PTL DEF AccountSpec

-----------------------------------------------------------------------------
(* A batch of thumbnails.                                                  *)

\* The ids one after the other are a list without repetition.
LEMMA TurnsOnce ==
    ASSUME NEW S, IsFiniteSet(S)
    PROVE  /\ Cardinality(S) \in Nat
           /\ InTurn(S) \in [1 .. Cardinality(S) -> S]
           /\ \A i, j \in 1 .. Cardinality(S) : InTurn(S)[i] = InTurn(S)[j] => i = j
           /\ \A x \in S : \E i \in 1 .. Cardinality(S) : InTurn(S)[i] = x
<1>1. PICK n \in Nat : n = Cardinality(S) /\ ExistsBijection(1 .. n, S)
  BY FS_CardinalityType
<1>2. Injection(1 .. n, S) # {}
  BY <1>1 DEF ExistsBijection, Bijection
<1>3. PICK g \in Injection(1 .. n, S) : g = InTurn(S)
  BY <1>1, <1>2 DEF InTurn
<1>4. g \in [1 .. n -> S] /\ \A a, b \in 1 .. n : g[a] = g[b] => a = b
  BY <1>3 DEF Injection, IsInjective
<1>5. IsFiniteSet(1 .. n) /\ Cardinality(1 .. n) = n
  BY FS_Interval
<1>6. g \in Surjection(1 .. n, S)
  BY <1>1, <1>3, <1>5, FS_Injection
<1> QED
  BY <1>1, <1>3, <1>4, <1>6 DEF Surjection

ThumbOutcome == [of : Nat, outcome : {"ok", "error"}]

\* The places in the caller's list that have an outcome.
Reported == {outcomes[i].of : i \in DOMAIN outcomes}

\* Each place is still to be looked up, or has an id without an outcome, or has an
\* outcome, and one of them only; of a place that has been looked up, the file has an id
\* or an outcome at this place or another.
Partitioned ==
    /\ pics \in Seq(Pic)
    /\ toLookUp \in SUBSET DOMAIN pics /\ unreported \in SUBSET DOMAIN pics
    /\ \A i \in DOMAIN pics \ toLookUp : \E j \in unreported \cup Reported : pics[j] = pics[i]
    /\ toLookUp \cap unreported = {} /\ Reported \cap (toLookUp \cup unreported) = {}
    /\ outcomes \in Seq(ThumbOutcome)
    /\ \A i, j \in DOMAIN outcomes : outcomes[i].of = outcomes[j].of => i = j

\* The ids without an outcome are in the chunk in hand or in one to come.
ThumbInv ==
    /\ Partitioned
    /\ thumbPhase \in {"lookup", "chunks", "blocks", "done"}
    /\ thumbPhase # "lookup" => toLookUp = {} /\ unreported \subseteq unsent \cup inChunk
    /\ thumbPhase # "blocks" => inChunk = {}
    /\ thumbPhase = "done" => unsent = {}
    /\ refused \subseteq inChunk
    /\ gotBlocks \in Seq(DOMAIN pics)

\* Outcomes are pushed for files that had none.
LEMMA PushedApart ==
    ASSUME Partitioned, NEW ids \in SUBSET (toLookUp \cup unreported), NEW more \in Seq(ThumbOutcome),
           {more[i].of : i \in DOMAIN more} = ids,
           \A i, j \in DOMAIN more : more[i].of = more[j].of => i = j,
           outcomes' = outcomes \o more,
           pics' = pics, toLookUp' = toLookUp \ ids, unreported' = unreported \ ids
    PROVE  Partitioned'
<1>0. outcomes \in Seq(ThumbOutcome)
  BY DEF Partitioned
<1>1. PICK n \in Nat, k \in Nat : n = Len(outcomes) /\ k = Len(more)
  BY <1>0
<1>2. /\ outcomes' \in Seq(ThumbOutcome) /\ Len(outcomes') = n + k
      /\ DOMAIN outcomes = 1 .. n /\ DOMAIN more = 1 .. k
      /\ \A i \in 1 .. n + k : outcomes'[i] = IF i <= n THEN outcomes[i] ELSE more[i - n]
  BY <1>0, <1>1, ConcatProperties
<1>3. DOMAIN outcomes' = 1 .. n + k
  BY <1>2
<1>4. Reported' = Reported \cup ids
  <2>1. ASSUME NEW i \in 1 .. n + k PROVE outcomes'[i].of \in Reported \cup ids
    <3>1. CASE i <= n
      <4>1. i \in DOMAIN outcomes /\ outcomes'[i] = outcomes[i]
        BY <1>2, <3>1
      <4> QED
        BY <4>1 DEF Reported
    <3>2. CASE ~(i <= n)
      <4>1. i - n \in 1 .. k /\ outcomes'[i] = more[i - n]
        BY <1>2, <3>2
      <4> QED
        BY <1>2, <4>1
    <3> QED
      BY <3>1, <3>2
  <2>2. ASSUME NEW i \in 1 .. n PROVE outcomes[i].of \in Reported'
    <3>1. i \in 1 .. n + k /\ outcomes'[i] = outcomes[i]
      BY <1>2
    <3> QED
      BY <1>3, <3>1 DEF Reported
  <2>3. ASSUME NEW i \in 1 .. k PROVE more[i].of \in Reported'
    <3>1. n + i \in 1 .. n + k /\ outcomes'[n + i] = more[i]
      BY <1>2
    <3> QED
      BY <1>3, <3>1 DEF Reported
  <2>4. Reported' \subseteq Reported \cup ids
    BY <1>3, <2>1 DEF Reported
  <2>5. Reported \subseteq Reported'
    BY <1>2, <2>2 DEF Reported
  <2>6. ids \subseteq Reported'
    BY <1>2, <2>3
  <2> QED
    BY <2>4, <2>5, <2>6
<1>5. \A i, j \in DOMAIN outcomes' : outcomes'[i].of = outcomes'[j].of => i = j
  <2> SUFFICES ASSUME NEW i \in 1 .. n + k, NEW j \in 1 .. n + k, outcomes'[i].of = outcomes'[j].of
               PROVE  i = j
    BY <1>3
  <2>1. \A l \in 1 .. n : outcomes[l].of \in Reported
    BY <1>2 DEF Reported
  <2>2. \A l \in 1 .. k : more[l].of \in ids
    BY <1>2
  <2>3. Reported \cap ids = {}
    BY DEF Partitioned
  <2>4. CASE i <= n /\ j <= n
    <3>1. i \in 1 .. n /\ j \in 1 .. n /\ outcomes[i].of = outcomes[j].of
      BY <1>2, <2>4
    <3> QED
      BY <1>2, <3>1 DEF Partitioned
  <2>5. CASE i <= n /\ ~(j <= n)
    <3>1. i \in 1 .. n /\ j - n \in 1 .. k /\ outcomes[i].of = more[j - n].of
      BY <1>2, <2>5
    <3> QED
      BY <2>1, <2>2, <2>3, <3>1
  <2>6. CASE ~(i <= n) /\ j <= n
    <3>1. j \in 1 .. n /\ i - n \in 1 .. k /\ outcomes[j].of = more[i - n].of
      BY <1>2, <2>6
    <3> QED
      BY <2>1, <2>2, <2>3, <3>1
  <2>7. CASE ~(i <= n) /\ ~(j <= n)
    <3>1. j - n \in 1 .. k /\ i - n \in 1 .. k /\ more[j - n].of = more[i - n].of
      BY <1>2, <2>7
    <3>2. j - n = i - n
      BY <1>2, <3>1
    <3> QED
      BY <3>2
  <2> QED
    BY <2>4, <2>5, <2>6, <2>7
<1>6. toLookUp' \cap unreported' = {} /\ Reported' \cap (toLookUp' \cup unreported') = {}
  BY <1>4 DEF Partitioned
<1>7. ASSUME NEW i \in DOMAIN pics \ toLookUp'
      PROVE  \E j \in unreported' \cup Reported' : pics[j] = pics[i]
  <2>1. CASE i \in ids
    BY <1>4, <2>1
  <2>2. CASE i \notin ids
    <3>1. i \in DOMAIN pics \ toLookUp
      BY <1>7, <2>2
    <3>2. PICK j \in unreported \cup Reported : pics[j] = pics[i]
      BY <3>1 DEF Partitioned
    <3> QED
      BY <1>4, <3>2
  <2> QED
    BY <2>1, <2>2
<1> QED
  BY <1>2, <1>5, <1>6, <1>7 DEF Partitioned

LEMMA ErrorsPushed ==
    ASSUME Partitioned, NEW ids \in SUBSET unreported, PushErrors(ids),
           pics' = pics, toLookUp' = toLookUp, unreported' = unreported \ ids
    PROVE  Partitioned'
<1>0. IsFiniteSet(ids) /\ ids \in SUBSET Nat
  <2>1. PICK m \in Nat : DOMAIN pics = 1 .. m
    BY DEF Partitioned
  <2>2. IsFiniteSet(1 .. m) /\ ids \subseteq 1 .. m
    BY <2>1, FS_Interval DEF Partitioned
  <2>3. IsFiniteSet(ids)
    BY <2>2, FS_Subset, Zenon
  <2> QED
    BY <2>2, <2>3
<1>1. PICK n \in Nat : n = Cardinality(ids)
  BY <1>0, TurnsOnce
<1>2. PICK turn \in [1 .. n -> ids] :
         /\ turn = InTurn(ids)
         /\ \A i, j \in 1 .. n : turn[i] = turn[j] => i = j
         /\ \A x \in ids : \E i \in 1 .. n : turn[i] = x
  BY <1>0, <1>1, TurnsOnce
<1>3. PICK more : more = [i \in 1 .. n |-> [of |-> turn[i], outcome |-> "error"]]
  OBVIOUS
<1>4. more \in [1 .. n -> ThumbOutcome] /\ \A i \in 1 .. n : more[i].of = turn[i]
  BY <1>0, <1>3 DEF ThumbOutcome
<1>5. more \in Seq(ThumbOutcome) /\ DOMAIN more = 1 .. n
  BY <1>4
<1>6. {more[i].of : i \in DOMAIN more} = ids
  BY <1>2, <1>4, <1>5
<1>7. \A i, j \in DOMAIN more : more[i].of = more[j].of => i = j
  BY <1>2, <1>4, <1>5
<1>8. outcomes' = outcomes \o more
  BY <1>1, <1>2, <1>3 DEF PushErrors
<1>9. toLookUp' = toLookUp \ ids
  BY DEF Partitioned
<1> QED
  BY <1>5, <1>6, <1>7, <1>8, <1>9, PushedApart

LEMMA OnePushed ==
    ASSUME Partitioned, NEW p \in toLookUp \cup unreported, NEW outcome \in {"ok", "error"},
           PushThumb(p, outcome), pics' = pics,
           toLookUp' = toLookUp \ {p}, unreported' = unreported \ {p}
    PROVE  Partitioned'
<1>1. PICK x \in ThumbOutcome : x = [of |-> p, outcome |-> outcome]
  <2>1. p \in DOMAIN pics /\ pics \in Seq(Pic)
    BY DEF Partitioned
  <2>2. p \in Nat
    BY <2>1
  <2> QED
    BY <2>2 DEF ThumbOutcome
<1>2. x.of = p /\ outcomes' = Append(outcomes, x)
  BY <1>1 DEF PushThumb
<1>3. PICK more \in Seq(ThumbOutcome) : more = <<x>>
  <2>1. <<x>> \in Seq(ThumbOutcome)
    OBVIOUS
  <2> QED
    BY <2>1
<1>4. outcomes' = outcomes \o more
  BY <1>2, <1>3, AppendIsConcat DEF Partitioned
<1>5. DOMAIN more = {1} /\ more[1] = x
  BY <1>3
<1>6. {more[i].of : i \in DOMAIN more} = {p}
  BY <1>2, <1>5
<1>7. \A i, j \in DOMAIN more : more[i].of = more[j].of => i = j
  BY <1>5
<1> QED
  BY <1>4, <1>6, <1>7, PushedApart

LEMMA ThumbStep == ThumbInv /\ [ThumbNext]_thumbVars => ThumbInv'
<1> SUFFICES ASSUME ThumbInv, [ThumbNext]_thumbVars PROVE ThumbInv'
  OBVIOUS
<1>0. Partitioned
  BY DEF ThumbInv
<1>1. ASSUME UNCHANGED <<pics, toLookUp, unreported, outcomes>> PROVE Partitioned'
  BY <1>0, <1>1 DEF Partitioned, Reported
<1>2. CASE UNCHANGED thumbVars
  BY <1>1, <1>2 DEF thumbVars, ThumbInv
<1>3. ASSUME NEW p \in toLookUp, FindTarget(p) PROVE ThumbInv'
  <2>1. /\ p \in DOMAIN pics /\ p \notin unreported /\ toLookUp' = toLookUp \ {p} /\ pics' = pics
        /\ p \notin Reported
    BY <1>0, <1>3 DEF FindTarget, Partitioned
  <2>2. Partitioned'
    <3>1. CASE /\ unreported' = {j \in unreported : pics[j] # pics[p]} \cup {p}
               /\ UNCHANGED outcomes
      <4>1. Reported' = Reported
        BY <3>1 DEF Reported
      <4>2. ASSUME NEW i \in DOMAIN pics \ toLookUp'
            PROVE  \E j \in unreported' \cup Reported' : pics[j] = pics[i]
        <5>1. CASE i = p \/ pics[i] = pics[p]
          BY <3>1, <5>1
        <5>2. CASE i # p /\ pics[i] # pics[p]
          <6>1. PICK j \in unreported \cup Reported : pics[j] = pics[i]
            BY <1>0, <2>1, <4>2, <5>2 DEF Partitioned
          <6> QED
            BY <3>1, <4>1, <5>2, <6>1
        <5> QED
          BY <5>1, <5>2
      <4>3. /\ unreported' \in SUBSET DOMAIN pics /\ toLookUp' \cap unreported' = {}
            /\ Reported' \cap (toLookUp' \cup unreported') = {}
        BY <1>0, <2>1, <3>1, <4>1 DEF Partitioned
      <4> QED
        BY <1>0, <2>1, <3>1, <4>2, <4>3 DEF Partitioned
    <3>2. CASE PushThumb(p, "error") /\ UNCHANGED unreported
      <4>1. unreported' = unreported \ {p}
        BY <2>1, <3>2
      <4> QED
        BY <1>0, <2>1, <3>2, <4>1, OnePushed
    <3> QED
      BY <1>3, <3>1, <3>2 DEF FindTarget
  <2> QED
    BY <1>3, <2>2 DEF FindTarget, ThumbInv
<1>4. CASE TargetsFound
  BY <1>1, <1>4 DEF TargetsFound, ThumbInv
<1>5. ASSUME NEW c \in SUBSET unsent, ResolveChunk(c) PROVE ThumbInv'
  <2>1. gotBlocks' \in Seq(DOMAIN pics')
    BY <1>5 DEF ResolveChunk
  <2>2. Partitioned'
    BY <1>1, <1>5 DEF ResolveChunk
  <2> QED
    BY <1>5, <2>1, <2>2 DEF ResolveChunk, ThumbInv
<1>6. ASSUME NEW c \in SUBSET unsent, ChunkFails(c) PROVE ThumbInv'
  <2>1. /\ PushErrors(c \cap unreported) /\ unreported' = unreported \ (c \cap unreported)
        /\ UNCHANGED <<pics, toLookUp>>
    BY <1>6 DEF ChunkFails
  <2>2. Partitioned'
    BY <1>0, <2>1, ErrorsPushed
  <2> QED
    BY <1>6, <2>2 DEF ChunkFails, ThumbInv
<1>7. CASE DownloadBlock
  <2>1. Partitioned'
    <3>1. CASE Unreported(Head(gotBlocks))
      <4>1. PICK p \in unreported, outcome \in {"ok", "error"} :
               unreported' = unreported \ {p} /\ PushThumb(p, outcome)
        BY <1>7, <3>1 DEF DownloadBlock, Unreported
      <4>2. toLookUp' = toLookUp \ {p} /\ pics' = pics
        BY <1>0, <1>7 DEF DownloadBlock, Partitioned
      <4> QED
        BY <1>0, <4>1, <4>2, OnePushed
    <3>2. CASE ~Unreported(Head(gotBlocks))
      BY <1>1, <1>7, <3>2 DEF DownloadBlock
    <3> QED
      BY <3>1, <3>2
  <2>2. gotBlocks' \in Seq(DOMAIN pics')
    BY <1>7, HeadTailProperties DEF DownloadBlock, ThumbInv
  <2>3. unreported' \subseteq unreported
    BY <1>7 DEF DownloadBlock
  <2> QED
    BY <1>7, <2>1, <2>2, <2>3 DEF DownloadBlock, ThumbInv
<1>8. CASE CloseChunk
  <2>1. Sweep(refused \cap unreported) = inChunk \cap unreported
    BY DEF Sweep, ThumbInv
  <2>2. Partitioned'
    BY <1>0, <1>8, <2>1, ErrorsPushed DEF CloseChunk
  <2>3. thumbPhase = "blocks" /\ unreported' \subseteq unsent
    BY <1>8, <2>1 DEF CloseChunk, ThumbInv
  <2> QED
    BY <1>8, <2>2, <2>3 DEF CloseChunk, ThumbInv
<1>9. CASE ThumbsDone
  BY <1>1, <1>9 DEF ThumbsDone, ThumbInv
<1> QED
  BY <1>2, <1>3, <1>4, <1>5, <1>6, <1>7, <1>8, <1>9 DEF ThumbNext

\* Whatever the server leaves out, repeats or names in the wrong chunk, every file asked
\* about gets an outcome, and at most one for each time it was named
\* (enumerate_thumbnails_ctx): an id leaves the targets when its outcome is pushed, and a
\* chunk is not left before its ids have theirs.
THEOREM EveryThumbnailOnce == ThumbSpec => []OneOutcomeEach
<1>1. ThumbInit => ThumbInv
  <2> SUFFICES ASSUME ThumbInit PROVE ThumbInv
    OBVIOUS
  <2>1. /\ outcomes \in Seq(ThumbOutcome) /\ DOMAIN outcomes = {} /\ Reported = {}
        /\ gotBlocks \in Seq(DOMAIN pics) /\ pics \in Seq(Pic)
    BY ThumbnailsAssumption DEF ThumbInit, Reported
  <2> QED
    BY <2>1 DEF ThumbInit, ThumbInv, Partitioned
<1>2. ThumbInv => OneOutcomeEach
  <2> SUFFICES ASSUME ThumbInv, thumbPhase = "done"
               PROVE  /\ \A i \in DOMAIN pics : \E k \in DOMAIN outcomes : pics[outcomes[k].of] = pics[i]
                      /\ \A k, l \in DOMAIN outcomes : outcomes[k].of = outcomes[l].of => k = l
    BY DEF OneOutcomeEach
  <2>1. unreported = {} /\ toLookUp = {}
    BY DEF ThumbInv, Partitioned
  <2>2. ASSUME NEW i \in DOMAIN pics PROVE \E k \in DOMAIN outcomes : pics[outcomes[k].of] = pics[i]
    <3>1. PICK j \in Reported : pics[j] = pics[i]
      BY <2>1 DEF ThumbInv, Partitioned
    <3> QED
      BY <3>1 DEF Reported
  <2> QED
    BY <2>2 DEF ThumbInv, Partitioned
<1> QED
  BY <1>1, <1>2, ThumbStep, PTL DEF ThumbSpec

-----------------------------------------------------------------------------
(* Keys.                                                                  *)


WalkLabels == {"idle", "look", "fetch", "resolve", "climb", "ended"}
WalkOps == {"get", "chain", "list", "key"}
WalkResults == {"none", "running", "ok", "failed"}

\* A link as the server gives it: only a root has no parent.
LinkRecord == [id : Node, parent : Node \cup {NoNode}]
GoodLink(l) == l \in LinkRecord /\ (l.parent = NoNode <=> l.id \in Root)

\* The tree has the roots it had and no loops.
TreeSound ==
    /\ parent \in [Node -> Node \cup {NoNode}]
    /\ \A n \in Node : parent[n] = NoNode <=> n \in Root
    /\ \A s \in (SUBSET Node) \ {{}} : \E n \in s : parent[n] \notin s
    /\ membership \in [SharedRoot -> Nat]

CachesSound ==
    /\ DOMAIN keys = Node /\ FolderKeysRight
    /\ known \in [Node -> SUBSET (Node \cup {NoNode})]
    /\ index \in [SharedRoot -> Nat]
    /\ changes \in Nat

WalkTyped ==
    /\ at \in WalkLabels
    /\ call \in [op : WalkOps, want : SUBSET Node, result : WalkResults]
    /\ visited \in SUBSET Node
    /\ \A l \in batch : GoodLink(l)
    /\ pending \subseteq batch
    /\ GoodLink(target)
    /\ ancestry \in Seq(LinkRecord) /\ \A i \in 1 .. Len(ancestry) : GoodLink(ancestry[i])

\* Each ancestor fetched is the parent of the one before it, the first one of the
\* link whose key is wanted.
Linked ==
    \A i \in 1 .. Len(ancestry) :
        ancestry[i].id = IF i = 1 THEN target.parent ELSE ancestry[i - 1].parent

\* The chain has come to one node by way of its descendants.
OnChain ==
    \E n \in visited :
        /\ call.want = {n}
        /\ \A v \in visited \ {n} : parent[v] \in visited
        /\ at \in {"resolve", "climb"} => \A l \in batch : l.id = n /\ l.parent = parent[n]

\* What holds of a call that has met no cause to fail: the keys found are the ones
\* looked for, each link done has one, and its walk has followed the tree.
Blameless ==
    /\ \A q \in found : q[1] = q[2]
    /\ at \in {"resolve", "climb"} =>
          \A l \in batch \ pending : <<ParentKeyId(l), EncryptedTo(l)>> \in found
    /\ at = "climb" => Linked
    /\ call.op = "chain" /\ at \notin {"idle", "ended"} => OnChain

WalkInv ==
    /\ TreeSound /\ CachesSound /\ WalkTyped
    /\ call.result = "failed" => causes # {}
    /\ causes = {} => Blameless

\* The run is a list of nodes that starts with the one wanted.
LEMMA RunIsList ==
    ASSUME CachesSound, NEW first \in Node
    PROVE  \E k \in Nat \ {0} : AncestorRun(first) \in [1 .. k -> Node] /\ AncestorRun(first)[1] = first
<1> DEFINE runs == AncestorRuns(first)
<1>0. MaxBatch \in Nat \ {0}
  BY BatchAssumption
<1>1. \A run \in runs : \E k \in 1 .. MaxBatch : run \in [1 .. k -> Node] /\ run[1] = first /\ Len(run) = k
  <2> SUFFICES ASSUME NEW run \in runs
               PROVE  \E k \in 1 .. MaxBatch : run \in [1 .. k -> Node] /\ run[1] = first /\ Len(run) = k
    OBVIOUS
  <2>1. PICK k \in 1 .. MaxBatch :
           run \in [1 .. k -> {first} \cup {p \in Node : keys[p] = {} /\ \E n \in Node : p \in known[n]}]
    BY DEF AncestorRuns
  <2>2. run \in [1 .. k -> Node] /\ run[1] = first
    BY <2>1 DEF AncestorRuns
  <2>3. run \in Seq(Node) /\ Len(run) = k
    BY <1>0, <2>2
  <2> QED
    BY <2>2, <2>3
<1>2. <<first>> \in runs
  <2>1. PICK one : one = <<first>>
    OBVIOUS
  <2>2. Len(one) = 1 /\ one[1] = first /\ one \in [1 .. 1 -> {first}]
    BY <2>1
  <2> DEFINE T == {first} \cup {p \in Node : keys[p] = {} /\ \E n \in Node : p \in known[n]}
  <2>3. one \in [1 .. 1 -> T] /\ 1 \in 1 .. MaxBatch
    BY <1>0, <2>2
  <2>4. one \in UNION {[1 .. k -> T] : k \in 1 .. MaxBatch}
    BY <2>3
  <2>5. \A i \in 1 .. Len(one) - 1 : FALSE
    BY <2>2
  <2> QED
    BY <2>1, <2>2, <2>4, <2>5 DEF AncestorRuns
<1> HIDE DEF runs
<1>3. \A run \in runs : Len(run) \in 1 .. MaxBatch /\ MaxBatch - Len(run) \in Nat
  BY <1>0, <1>1
<1> DEFINE short == {MaxBatch - Len(run) : run \in runs}
<1>4. short \in SUBSET Nat /\ short # {}
  BY <1>2, <1>3
<1>5. PICK d \in short : \A e \in short : d <= e
  BY <1>4, LeastNumber
<1>6. PICK run \in runs : d = MaxBatch - Len(run)
  BY <1>5
<1>7. \A other \in runs : Len(other) <= Len(run)
  <2> SUFFICES ASSUME NEW other \in runs PROVE Len(other) <= Len(run)
    OBVIOUS
  <2>1. MaxBatch - Len(other) \in short
    OBVIOUS
  <2>2. MaxBatch - Len(run) <= MaxBatch - Len(other)
    BY <1>5, <1>6, <2>1
  <2> QED
    BY <1>0, <1>3, <2>2
<1>8. AncestorRun(first) \in runs
  BY <1>6, <1>7 DEF AncestorRun, runs
<1> QED
  BY <1>0, <1>1, <1>8

\* A move of a folder to where it is not itself makes no loop.
LEMMA MoveMakesNoLoop ==
    ASSUME TreeSound, NEW n \in Node \ Root, NEW p \in Node, ~Inside(p, n),
           parent' = [parent EXCEPT ![n] = p], membership' = membership
    PROVE  TreeSound'
<1>1. /\ parent' \in [Node -> Node \cup {NoNode}] /\ parent'[n] = p
      /\ \A m \in Node \ {n} : parent'[m] = parent[m]
  BY DEF TreeSound
<1>2. \A m \in Node : parent'[m] = NoNode <=> m \in Root
  BY <1>1, RootsAssumption DEF TreeSound
<1>3. PICK c \in SUBSET Node : n \in c /\ p \notin c /\ \A k \in Node : parent[k] \in c => k \in c
  BY DEF Inside
<1>4. ASSUME NEW s \in SUBSET Node, s # {} PROVE \E m \in s : parent'[m] \notin s
  <2>1. CASE s \subseteq c
    <3>1. PICK m \in s : parent[m] \notin s
      BY <1>4 DEF TreeSound
    <3> QED
      BY <1>1, <1>3, <2>1, <3>1
  <2>2. CASE ~(s \subseteq c)
    <3>1. PICK m \in s \ c : parent[m] \notin s \ c
      <4>1. s \ c \in (SUBSET Node) \ {{}}
        BY <2>2
      <4> QED
        BY <4>1 DEF TreeSound
    <3>2. m # n /\ parent'[m] = parent[m] /\ parent[m] \notin c
      BY <1>1, <1>3, <3>1
    <3> QED
      BY <3>1, <3>2
  <2> QED
    BY <2>1, <2>2
<1> QED
  BY <1>1, <1>2, <1>4 DEF TreeSound

\* What others do leaves the call and the parents alone.
LEMMA Untouched ==
    ASSUME WalkInv, TreeSound', CachesSound', UNCHANGED <<parent, callVars>>
    PROVE  WalkInv'
<1>1. /\ at' = at /\ call' = call /\ batch' = batch /\ pending' = pending /\ found' = found
      /\ target' = target /\ ancestry' = ancestry /\ visited' = visited /\ causes' = causes /\ parent' = parent
  BY DEF callVars, walk
<1>2. WalkTyped'
  BY <1>1 DEF WalkInv, WalkTyped, GoodLink
<1>3. Blameless => Blameless'
  BY <1>1 DEF Blameless, OnChain, Linked, ParentKeyId, EncryptedTo, NodeKey, ShareKey
<1> QED
  BY <1>1, <1>2, <1>3 DEF WalkInv

\* The server's tree and the client's caches, when a step leaves them alone.
LEMMA SameTree ==
    ASSUME WalkInv, UNCHANGED tree
    PROVE  TreeSound' /\ parent' = parent
BY DEF WalkInv, TreeSound, tree

LEMMA SameCaches ==
    ASSUME WalkInv, UNCHANGED <<caches, changes>>
    PROVE  CachesSound'
BY DEF WalkInv, CachesSound, FolderKeysRight, caches

LEMMA OthersSteps ==
    ASSUME WalkInv, NEW n \in Node,
           DeleteNode(n) \/ InvalidateNode(n) \/ ListSharedWithMe \/ (\E r \in SharedRoot : Grant(r))
    PROVE  WalkInv'
<1>0. changes \in Nat /\ changes' = changes + 1
  BY DEF WalkInv, CachesSound, DeleteNode, InvalidateNode, ListSharedWithMe, Grant, Disturb
<1>1. CASE DeleteNode(n)
  <2>1. UNCHANGED <<parent, membership, keys, known, index, callVars>>
    BY <1>1 DEF DeleteNode, caches
  <2>2. TreeSound'
    BY <2>1 DEF WalkInv, TreeSound
  <2>3. CachesSound'
    BY <1>0, <2>1 DEF WalkInv, CachesSound, FolderKeysRight
  <2> QED
    BY <2>1, <2>2, <2>3, Untouched
<1>2. CASE InvalidateNode(n)
  <2>1. TreeSound' /\ UNCHANGED <<parent, callVars>>
    BY <1>2, SameTree DEF InvalidateNode
  <2>2. keys' = [keys EXCEPT ![n] = {}] /\ known' = [known EXCEPT ![n] = {}] /\ index' = index
    BY <1>2 DEF InvalidateNode
  <2>3. CachesSound'
    BY <1>0, <2>2 DEF WalkInv, CachesSound, FolderKeysRight
  <2> QED
    BY <2>1, <2>3, Untouched
<1>3. CASE ListSharedWithMe
  <2>1. TreeSound' /\ UNCHANGED <<parent, callVars>>
    BY <1>3, SameTree DEF ListSharedWithMe
  <2>2. keys' = keys /\ known' = known /\ index' = membership
    BY <1>3 DEF ListSharedWithMe
  <2>3. CachesSound'
    BY <1>0, <2>2 DEF WalkInv, CachesSound, FolderKeysRight, TreeSound
  <2> QED
    BY <2>1, <2>3, Untouched
<1>4. ASSUME NEW r \in SharedRoot, Grant(r) PROVE WalkInv'
  <2>1. /\ UNCHANGED <<parent, keys, known, index, callVars>>
        /\ membership' = [membership EXCEPT ![r] = IF @ = 0 THEN changes + 2 ELSE 0]
    BY <1>4 DEF Grant, caches
  <2>2. membership' \in [SharedRoot -> Nat]
    BY <1>0, <2>1 DEF WalkInv, TreeSound
  <2>3. TreeSound'
    BY <2>1, <2>2 DEF WalkInv, TreeSound
  <2>4. CachesSound'
    BY <1>0, <2>1 DEF WalkInv, CachesSound, FolderKeysRight
  <2> QED
    BY <2>1, <2>3, <2>4, Untouched
<1> QED
  BY <1>1, <1>2, <1>3, <1>4

LEMMA MoveStep ==
    ASSUME WalkInv, NEW n \in Node, NEW p \in Node, Move(n, p)
    PROVE  WalkInv'
<1>1. /\ n \in Node \ Root /\ ~Inside(p, n) /\ changes' = changes + 1
      /\ parent' = [parent EXCEPT ![n] = p] /\ membership' = membership
      /\ causes' = IF call.op = "chain" THEN causes \cup {"moved"} ELSE causes
      /\ UNCHANGED <<keys, known, index, at, call, batch, pending, found, target, ancestry, visited>>
  BY DEF Move, Disturb, caches, walk
<1>2. TreeSound'
  BY <1>1, MoveMakesNoLoop DEF WalkInv
<1>3. CachesSound'
  BY <1>1 DEF WalkInv, CachesSound, FolderKeysRight
<1>4. WalkTyped'
  BY <1>1 DEF WalkInv, WalkTyped, GoodLink
<1>5. call'.result = "failed" => causes' # {}
  BY <1>1 DEF WalkInv
<1>6. ASSUME causes' = {} PROVE Blameless'
  <2>1. causes = {} /\ call.op # "chain"
    BY <1>1, <1>6
  <2> QED
    BY <1>1, <2>1 DEF WalkInv, Blameless, Linked, ParentKeyId, EncryptedTo, NodeKey, ShareKey
<1> QED
  BY <1>2, <1>3, <1>4, <1>5, <1>6 DEF WalkInv

LEMMA BeginStep ==
    ASSUME WalkInv, NEW op \in WalkOps, NEW nodes \in SUBSET Node, NEW label \in {"look", "fetch"},
           op = "chain" => \E n \in Node : nodes = {n},
           Begin(op, nodes, label)
    PROVE  WalkInv'
<1>1. TreeSound' /\ CachesSound'
  BY SameTree, SameCaches DEF Begin
<1>2. /\ call' = [op |-> op, want |-> nodes, result |-> "running"]
      /\ at' = label /\ visited' = nodes /\ batch' = {} /\ pending' = {} /\ found' = {}
      /\ UNCHANGED <<target, ancestry>>
  BY DEF Begin, walk
<1>3. call' \in [op : WalkOps, want : SUBSET Node, result : WalkResults]
      /\ call'.op = op /\ call'.want = nodes /\ call'.result = "running"
  BY <1>2 DEF WalkResults
<1>4. WalkTyped'
  BY <1>2, <1>3 DEF WalkInv, WalkTyped, GoodLink, WalkLabels
<1>5. op = "chain" => OnChain'
  BY <1>2, <1>3 DEF OnChain
<1>6. Blameless'
  BY <1>2, <1>3, <1>5 DEF Blameless
<1> QED
  BY <1>1, <1>3, <1>4, <1>6 DEF WalkInv

LEMMA AdvanceTyped ==
    ASSUME WalkTyped, NEW p \in Node \cup {NoNode}, Advance(p),
           UNCHANGED <<batch, pending, target, ancestry>>
    PROVE  WalkTyped' /\ at' \in {"ended", "look"}
<1>1. /\ at' \in {"ended", "look"}
      /\ call' \in [op : WalkOps, want : SUBSET Node, result : WalkResults]
      /\ visited' \in SUBSET Node
  <2>1. CASE at' = "ended" /\ \E r \in {"ok", "failed"} : call' = [call EXCEPT !.result = r] /\ visited' = visited
    BY <2>1 DEF WalkTyped, WalkResults
  <2>2. CASE at' = "look" /\ p # NoNode /\ call' = [call EXCEPT !.want = {p}] /\ visited' = visited \cup {p}
    BY <2>2 DEF WalkTyped
  <2> QED
    BY <2>1, <2>2 DEF Advance, Return
<1> QED
  BY <1>1 DEF WalkTyped, GoodLink, WalkLabels

\* A chain that follows the tree comes to no node twice.
LEMMA AdvanceUp ==
    ASSUME TreeSound, WalkTyped, call.result # "failed",
           NEW n \in Node, Advance(parent[n]), parent' = parent,
           call.op = "chain" => /\ n \in visited /\ call.want = {n}
                                /\ \A v \in visited \ {n} : parent[v] \in visited
    PROVE  /\ call'.result # "failed" /\ call'.op = call.op
           /\ at' = "look" => OnChain'
<1>1. CASE call.op = "chain" /\ parent[n] \in visited
  <2>1. \A v \in visited : parent[v] \in visited
    BY <1>1
  <2>2. visited \in (SUBSET Node) \ {{}}
    BY <1>1 DEF WalkTyped
  <2> QED
    BY <2>1, <2>2 DEF TreeSound
<1>2. CASE ~(call.op = "chain" /\ parent[n] \in visited)
  <2>1. CASE at' = "ended" /\ call' = [call EXCEPT !.result = "ok"]
    BY <2>1 DEF WalkTyped
  <2>2. CASE /\ call.op = "chain" /\ parent[n] # NoNode
             /\ call' = [call EXCEPT !.want = {parent[n]}]
             /\ visited' = visited \cup {parent[n]} /\ at' = "look"
    <3>1. call'.result # "failed" /\ call'.op = call.op /\ call'.want = {parent[n]}
      BY <2>2 DEF WalkTyped
    <3>2. \A v \in visited' \ {parent[n]} : parent'[v] \in visited'
      BY <2>2
    <3> QED
      BY <2>2, <3>1, <3>2 DEF OnChain
  <2> QED
    BY <1>2, <2>1, <2>2 DEF Advance, Return
<1> QED
  BY <1>1, <1>2

LEMMA EntityHitStep ==
    ASSUME WalkInv, EntityHit
    PROVE  WalkInv'
<1>1. TreeSound' /\ CachesSound' /\ parent' = parent
  BY SameTree, SameCaches DEF EntityHit
<1>2. PICK n \in call.want : \E p \in known[n] :
         Advance(p) /\ causes' = IF p = parent[n] THEN causes ELSE causes \cup {"stale"}
  BY DEF EntityHit
<1>3. PICK p \in known[n] : Advance(p) /\ causes' = IF p = parent[n] THEN causes ELSE causes \cup {"stale"}
  BY <1>2
<1>4. n \in Node /\ p \in Node \cup {NoNode}
  BY <1>3 DEF WalkInv, WalkTyped, CachesSound
<1>5. at = "look" /\ UNCHANGED <<batch, pending, found, target, ancestry>>
  BY DEF EntityHit, walk
<1>6. WalkTyped' /\ at' \in {"ended", "look"}
  BY <1>3, <1>4, <1>5, AdvanceTyped DEF WalkInv
<1>7. ASSUME causes' = {} PROVE call'.result # "failed" /\ Blameless'
  <2>1. causes = {} /\ p = parent[n]
    BY <1>3, <1>7
  <2>2. call.op = "chain" => OnChain
    BY <1>5, <2>1 DEF WalkInv, Blameless
  <2>3. call.op = "chain" => n \in visited /\ call.want = {n} /\ \A v \in visited \ {n} : parent[v] \in visited
    BY <1>2, <2>2 DEF OnChain
  <2>4. call'.result # "failed" /\ call'.op = call.op /\ (at' = "look" => OnChain')
    BY <1>1, <1>3, <1>4, <2>1, <2>3, AdvanceUp DEF WalkInv
  <2> QED
    BY <1>5, <1>6, <2>1, <2>4 DEF WalkInv, Blameless
<1> QED
  BY <1>1, <1>6, <1>7 DEF WalkInv

LEMMA EntityMissStep ==
    ASSUME WalkInv, EntityMiss
    PROVE  WalkInv'
<1>1. TreeSound' /\ CachesSound' /\ parent' = parent
  BY SameTree, SameCaches DEF EntityMiss
<1>2. /\ at = "look" /\ at' = "fetch"
      /\ UNCHANGED <<call, batch, pending, found, target, ancestry, visited, causes>>
  BY DEF EntityMiss, walk
<1>3. WalkTyped'
  BY <1>2 DEF WalkInv, WalkTyped, WalkLabels, GoodLink
<1>4. Blameless => Blameless'
  BY <1>1, <1>2 DEF Blameless, OnChain
<1> QED
  BY <1>1, <1>2, <1>3, <1>4 DEF WalkInv

LEMMA FetchStep ==
    ASSUME WalkInv, FetchDetails
    PROVE  WalkInv'
<1> DEFINE links == {Link(n) : n \in {m \in call.want : Present(m)}}
<1>1. TreeSound' /\ CachesSound' /\ parent' = parent
  BY SameTree, SameCaches DEF FetchDetails
<1>2. /\ at = "fetch" /\ batch' = links /\ pending' = links /\ found' = {}
      /\ UNCHANGED <<target, ancestry, visited>>
  BY DEF FetchDetails, walk
<1>3. \A l \in links : GoodLink(l) /\ l.id \in call.want /\ l.parent = parent[l.id]
  <2> SUFFICES ASSUME NEW n \in call.want
               PROVE  GoodLink(Link(n)) /\ Link(n).id \in call.want /\ Link(n).parent = parent[Link(n).id]
    OBVIOUS
  <2>1. n \in Node
    BY DEF WalkInv, WalkTyped
  <2> QED
    BY <2>1 DEF WalkInv, TreeSound, GoodLink, LinkRecord, Link
<1>4. \/ links # {} /\ at' = "resolve" /\ UNCHANGED <<call, causes>>
      \/ Return("failed") /\ causes' # {}
      \/ Return("none") /\ UNCHANGED causes
  BY DEF FetchDetails, Blame
<1> HIDE DEF links
<1>5. /\ at' \in {"resolve", "ended"}
      /\ call' \in [op : WalkOps, want : SUBSET Node, result : WalkResults]
      /\ call'.op = call.op /\ call'.want = call.want
      /\ call'.result = "failed" => causes' # {}
      /\ causes' = {} => causes = {}
  BY <1>4 DEF WalkInv, WalkTyped, WalkResults, Return
<1>6. WalkTyped'
  BY <1>2, <1>3, <1>5 DEF WalkInv, WalkTyped, WalkLabels, GoodLink
<1>7. ASSUME causes' = {} PROVE Blameless'
  <2>1. call.op = "chain" => OnChain
    BY <1>2, <1>5, <1>7 DEF WalkInv, Blameless
  <2>2. call'.op = "chain" => OnChain'
    BY <1>1, <1>2, <1>3, <1>5, <2>1 DEF OnChain
  <2> QED
    BY <1>2, <1>5, <2>2 DEF Blameless
<1> QED
  BY <1>1, <1>5, <1>6, <1>7 DEF WalkInv

\* A key at hand is the key its name says, and so the one the link is encrypted to.
LEMMA TakeStep ==
    ASSUME WalkInv, NEW link \in pending, TakeKey(link)
    PROVE  WalkInv'
<1>1. TreeSound' /\ CachesSound' /\ parent' = parent
  BY SameTree, SameCaches DEF TakeKey
<1>2. /\ at = "resolve" /\ pending' = pending \ {link}
      /\ UNCHANGED <<at, call, batch, target, ancestry, visited, causes>>
  BY DEF TakeKey, walk
<1>3. PICK key \in KeyAtHand(link) : found' = found \cup {<<ParentKeyId(link), key>>}
  BY DEF TakeKey
<1>4. GoodLink(link)
  BY DEF WalkInv, WalkTyped
<1>5. WalkTyped'
  BY <1>2 DEF WalkInv, WalkTyped, GoodLink
<1>6. ASSUME causes' = {} PROVE Blameless'
  <2>1. Blameless
    BY <1>2, <1>6 DEF WalkInv
  <2>2. key = EncryptedTo(link) /\ ParentKeyId(link) = EncryptedTo(link)
    <3>1. ParentKeyId(link) = EncryptedTo(link)
      BY DEF ParentKeyId, EncryptedTo
    <3>2. CASE \E q \in found : q[1] = ParentKeyId(link) /\ key = q[2]
      BY <2>1, <3>1, <3>2 DEF Blameless
    <3>3. CASE link.parent # NoNode /\ key \in keys[link.parent]
      <4>1. link.parent \in Node
        BY <1>4, <3>3 DEF GoodLink, LinkRecord
      <4>2. key = NodeKey(link.parent)
        BY <3>3, <4>1 DEF WalkInv, CachesSound, FolderKeysRight
      <4> QED
        BY <3>1, <3>3, <4>2 DEF EncryptedTo
    <3> QED
      BY <1>3, <3>2, <3>3 DEF KeyAtHand
  <2>3. \A q \in found' : q[1] = q[2]
    BY <1>3, <2>1, <2>2 DEF Blameless
  <2>4. \A l \in batch' \ pending' : <<ParentKeyId(l), EncryptedTo(l)>> \in found'
    BY <1>2, <1>3, <2>1, <2>2 DEF Blameless
  <2>5. OnChain => OnChain'
    BY <1>1, <1>2 DEF OnChain
  <2> QED
    BY <1>2, <2>1, <2>3, <2>4, <2>5 DEF Blameless, ParentKeyId, EncryptedTo, NodeKey, ShareKey
<1> QED
  BY <1>1, <1>2, <1>5, <1>6 DEF WalkInv

LEMMA StartStep ==
    ASSUME WalkInv, NEW link \in pending, StartWalk(link)
    PROVE  WalkInv'
<1>1. TreeSound' /\ CachesSound' /\ parent' = parent
  BY SameTree, SameCaches DEF StartWalk
<1>2. /\ at = "resolve" /\ at' = "climb" /\ target' = link /\ ancestry' = <<>>
      /\ UNCHANGED <<call, batch, pending, found, visited, causes>>
  BY DEF StartWalk
<1>3. WalkTyped'
  BY <1>2 DEF WalkInv, WalkTyped, GoodLink, WalkLabels
<1>4. Linked'
  BY <1>2 DEF Linked
<1>5. OnChain => OnChain'
  BY <1>1, <1>2 DEF OnChain
<1>6. Blameless => Blameless'
  BY <1>2, <1>4, <1>5 DEF Blameless, ParentKeyId, EncryptedTo, NodeKey, ShareKey
<1> QED
  BY <1>1, <1>2, <1>3, <1>6 DEF WalkInv

\* A walk that ends with an error, for a cause.
LEMMA FailedWalk ==
    ASSUME WalkInv, WalkFailed, causes' # {}, TreeSound', CachesSound',
           UNCHANGED <<batch, target, ancestry, visited>>
    PROVE  WalkInv'
<1>1. /\ at' \in {"resolve", "ended"} /\ pending' \subseteq pending
      /\ call' = [call EXCEPT !.result = "failed"]
  BY DEF WalkFailed, Return
<1>2. call' \in [op : WalkOps, want : SUBSET Node, result : WalkResults]
  BY <1>1 DEF WalkInv, WalkTyped, WalkResults
<1>3. WalkTyped'
  BY <1>1, <1>2 DEF WalkInv, WalkTyped, GoodLink, WalkLabels
<1> QED
  BY <1>3 DEF WalkInv

LEMMA RequestFailsStep ==
    ASSUME WalkInv, WalkRequestFails
    PROVE  WalkInv'
<1>1. TreeSound'
  BY SameTree DEF WalkRequestFails
<1>2. changes' = changes + 1 /\ UNCHANGED <<keys, known, index>>
  BY DEF WalkRequestFails, caches
<1>3. CachesSound'
  BY <1>2 DEF WalkInv, CachesSound, FolderKeysRight
<1>4. WalkFailed /\ causes' # {} /\ UNCHANGED <<batch, target, ancestry, visited>>
  BY DEF WalkRequestFails, Blame, walk
<1> QED
  BY <1>1, <1>3, <1>4, FailedWalk

LEMMA ClimbStep ==
    ASSUME WalkInv, Climb
    PROVE  WalkInv'
<1> DEFINE run == AncestorRun(Above)
           misled == \E i \in 1 .. Len(run) - 1 : parent[run[i]] # run[i + 1]
           repeated == \E i, j \in 1 .. Len(run) : i # j /\ run[i] = run[j]
           lost == \E i \in 1 .. Len(run) : ~Present(run[i])
<1>1. TreeSound' /\ CachesSound' /\ parent' = parent
  BY SameTree, SameCaches DEF Climb
<1>2. at = "climb" /\ Above # NoNode /\ UNCHANGED <<batch, found, target, visited>>
  BY DEF Climb
<1>3. Above \in Node
  BY <1>2 DEF WalkInv, WalkTyped, Above, GoodLink, LinkRecord
<1>4. PICK k \in Nat \ {0} : run \in [1 .. k -> Node] /\ run[1] = Above
  BY <1>3, RunIsList DEF WalkInv
<1>5. Len(run) = k
  BY <1>4
<1>6. causes' = causes \cup (IF misled \/ repeated THEN {"stale"} ELSE {})
                       \cup {"gone" : i \in {j \in 1 .. Len(run) : ~Present(run[j])}}
  BY DEF Climb
<1>7. IF repeated \/ lost THEN WalkFailed /\ UNCHANGED ancestry
      ELSE /\ ancestry' = ancestry \o [i \in 1 .. Len(run) |-> Link(run[i])]
           /\ UNCHANGED <<at, call, pending>>
  BY DEF Climb
<1>8. (misled \/ repeated \/ lost => causes' # {}) /\ causes \subseteq causes'
  <2>1. lost => "gone" \in causes'
    BY <1>6
  <2> QED
    BY <1>6, <2>1
<1>9. CASE repeated \/ lost
  BY <1>1, <1>2, <1>7, <1>8, <1>9, FailedWalk
<1>10. CASE ~(repeated \/ lost)
  <2>1. PICK new : new = [i \in 1 .. k |-> Link(run[i])]
    OBVIOUS
  <2>2. ancestry' = ancestry \o new /\ UNCHANGED <<at, call, pending>>
    BY <1>5, <1>7, <1>10, <2>1
  <2>3. \A i \in 1 .. k : GoodLink(new[i]) /\ new[i].id = run[i] /\ new[i].parent = parent[run[i]]
    BY <1>4, <2>1 DEF WalkInv, TreeSound, GoodLink, LinkRecord, Link
  <2>4. new \in Seq(LinkRecord) /\ Len(new) = k
    BY <1>4, <2>1, <2>3 DEF GoodLink
  <2>5. PICK old : old = ancestry /\ old \in Seq(LinkRecord) /\ \A i \in 1 .. Len(old) : GoodLink(old[i])
    BY DEF WalkInv, WalkTyped
  <2>6. /\ ancestry' \in Seq(LinkRecord) /\ Len(ancestry') = Len(old) + k
        /\ \A i \in 1 .. Len(old) : ancestry'[i] = old[i]
        /\ \A i \in Len(old) + 1 .. Len(old) + k : ancestry'[i] = new[i - Len(old)]
    <3>1. ancestry' = old \o new
      BY <2>2, <2>5
    <3>2. PICK n \in Nat : n = Len(old)
      BY <2>5
    <3>3. /\ old \o new \in Seq(LinkRecord) /\ Len(old \o new) = n + k
          /\ \A i \in 1 .. n + k : (old \o new)[i] = IF i <= n THEN old[i] ELSE new[i - n]
      BY <2>4, <2>5, <3>2, ConcatProperties
    <3>4. /\ \A i \in 1 .. n : (old \o new)[i] = old[i]
          /\ \A i \in n + 1 .. n + k : (old \o new)[i] = new[i - n]
      BY <3>2, <3>3
    <3> QED
      BY <3>1, <3>2, <3>3, <3>4
  <2>7. \A i \in 1 .. Len(ancestry') : GoodLink(ancestry'[i])
    <3>1. PICK n \in Nat : n = Len(old)
      BY <2>5
    <3> SUFFICES ASSUME NEW i \in 1 .. n + k PROVE GoodLink(ancestry'[i])
      BY <2>6, <3>1
    <3>2. CASE i \in 1 .. n
      BY <2>5, <2>6, <3>1, <3>2
    <3>3. CASE i \in n + 1 .. n + k
      <4>1. i - n \in 1 .. k
        BY <1>4, <3>1, <3>3
      <4> QED
        BY <2>3, <2>6, <3>1, <3>3, <4>1
    <3> QED
      BY <1>4, <3>1, <3>2, <3>3
  <2>8. WalkTyped'
    BY <1>2, <2>2, <2>6, <2>7 DEF WalkInv, WalkTyped, GoodLink
  <2>9. ASSUME causes' = {} PROVE Blameless'
    <3>1. Blameless /\ ~misled
      BY <1>8, <2>9 DEF WalkInv
    <3>2. \A i \in 1 .. k - 1 : parent[run[i]] = run[i + 1]
      BY <1>5, <3>1
    <3>3. ASSUME NEW i \in 1 .. Len(ancestry')
          PROVE  ancestry'[i].id = IF i = 1 THEN target'.parent ELSE ancestry'[i - 1].parent
      <4>1. CASE i <= Len(old)
        <5>1. \A j \in 1 .. Len(old) : old[j].id = IF j = 1 THEN target.parent ELSE old[j - 1].parent
          BY <1>2, <2>5, <3>1 DEF Blameless, Linked
        <5>2. ancestry'[i] = old[i] /\ (i # 1 => ancestry'[i - 1] = old[i - 1])
          BY <2>5, <2>6, <4>1
        <5>3. i \in 1 .. Len(old)
          BY <2>5, <2>6, <4>1
        <5>4. old[i].id = IF i = 1 THEN target.parent ELSE old[i - 1].parent
          BY <5>1, <5>3
        <5> QED
          BY <1>2, <5>2, <5>4
      <4>2. CASE i = Len(old) + 1
        <5>1. ancestry'[i].id = Above
          BY <1>4, <2>3, <2>5, <2>6, <4>2
        <5>2. CASE Len(old) = 0
          BY <1>2, <2>5, <4>2, <5>1, <5>2 DEF Above
        <5>3. CASE Len(old) > 0
          <6>1. Above = old[Len(old)].parent
            BY <2>5, <5>3 DEF Above
          <6> QED
            BY <2>5, <2>6, <4>2, <5>1, <5>3, <6>1
        <5> QED
          BY <2>5, <5>2, <5>3
      <4>3. CASE i > Len(old) + 1
        <5>1. PICK j \in 1 .. k - 1 : i = Len(old) + j + 1
          <6>1. i - Len(old) - 1 \in 1 .. k - 1 /\ i = Len(old) + (i - Len(old) - 1) + 1
            BY <2>5, <2>6, <4>3
          <6> QED
            BY <6>1
        <5>2. ancestry'[i] = new[j + 1] /\ ancestry'[i - 1] = new[j]
          BY <2>5, <2>6, <5>1, SMTT(30)
        <5>3. new[j + 1].id = run[j + 1] /\ new[j].parent = parent[run[j]]
          BY <2>3, <5>1
        <5> QED
          BY <2>5, <3>2, <4>3, <5>1, <5>2, <5>3
      <4> QED
        BY <2>5, <2>6, <4>1, <4>2, <4>3
    <3>4. Linked'
      BY <3>3 DEF Linked
    <3>5. OnChain => OnChain'
      BY <1>1, <1>2, <2>2 DEF OnChain
    <3> QED
      BY <1>2, <2>2, <3>1, <3>4, <3>5 DEF Blameless, ParentKeyId, EncryptedTo, NodeKey, ShareKey
  <2>10. call'.result = "failed" => causes' # {}
    BY <1>8, <2>2 DEF WalkInv
  <2> QED
    BY <1>1, <2>8, <2>9, <2>10 DEF WalkInv
<1> QED
  BY <1>9, <1>10

\* The link at the top of the walk.
Topmost == IF ancestry = <<>> THEN target ELSE ancestry[Len(ancestry)]

LEMMA TopmostIs ==
    ASSUME WalkTyped
    PROVE  GoodLink(Topmost) /\ Above = Topmost.parent /\ TopRoot = Topmost.id
BY DEF WalkTyped, Topmost, Above, TopRoot, GoodLink

\* Descending puts under each uid that node's key, whatever the walk came by.
LEMMA DescendSafe ==
    ASSUME WalkInv, NEW base, Descend(base), index' \in [SharedRoot -> Nat],
           UNCHANGED <<known, changes, batch, target, ancestry, visited>>
    PROVE  CachesSound' /\ WalkTyped'
<1>2. DOMAIN keys' = Node /\ \A n \in Node : keys'[n] = {NodeKey(n)} \/ keys'[n] = keys[n]
  BY DEF Descend
<1>3. CachesSound'
  BY <1>2 DEF WalkInv, CachesSound, FolderKeysRight, NodeKey
<1>4. /\ at' \in {"resolve", "ended"} /\ pending' \subseteq pending
      /\ call' = call \/ call' = [call EXCEPT !.result = "failed"]
  BY DEF Descend, WalkFailed, Return
<1>5. call' \in [op : WalkOps, want : SUBSET Node, result : WalkResults]
  BY <1>4 DEF WalkInv, WalkTyped, WalkResults
<1>6. WalkTyped'
  BY <1>4, <1>5 DEF WalkInv, WalkTyped, GoodLink, WalkLabels
<1> QED
  BY <1>3, <1>6

\* From the right key at the top, a walk that has followed the tree opens every
\* ancestor and ends with the key wanted.
LEMMA DescendOpens ==
    ASSUME WalkTyped, Linked, NEW base, base = EncryptedTo(Topmost), Descend(base)
    PROVE  /\ found' = found \cup {<<ParentKeyId(target), EncryptedTo(target)>>}
           /\ pending' = pending \ {target} /\ at' = "resolve" /\ call' = call
<1> DEFINE KeyOf(i) == IF i > Len(ancestry) THEN base ELSE NodeKey(ancestry[i].id)
           open == {i \in 1 .. Len(ancestry) :
                       \A j \in i .. Len(ancestry) : KeyOf(j + 1) = EncryptedTo(ancestry[j])}
<1>1. Len(ancestry) \in Nat /\ (ancestry = <<>> <=> Len(ancestry) = 0)
  BY DEF WalkTyped
<1>2. ASSUME NEW j \in 1 .. Len(ancestry) PROVE KeyOf(j + 1) = EncryptedTo(ancestry[j])
  <2>1. CASE j = Len(ancestry)
    BY <1>1, <2>1 DEF Topmost
  <2>2. CASE j < Len(ancestry)
    <3>1. j + 1 \in 1 .. Len(ancestry) /\ j + 1 # 1 /\ (j + 1) - 1 = j /\ ~(j + 1 > Len(ancestry))
      BY <1>1, <2>2
    <3>2. ancestry[j + 1].id = ancestry[j].parent /\ ancestry[j + 1].id \in Node
      BY <3>1 DEF Linked, WalkTyped, GoodLink, LinkRecord
    <3>3. ancestry[j].parent # NoNode
      BY <3>2, RootsAssumption
    <3> QED
      BY <3>1, <3>2, <3>3 DEF EncryptedTo
  <2> QED
    BY <1>1, <2>1, <2>2
<1>3. KeyOf(1) = EncryptedTo(target)
  <2>1. CASE Len(ancestry) = 0
    BY <1>1, <2>1 DEF Topmost
  <2>2. CASE Len(ancestry) > 0
    <3>1. ancestry[1].id = target.parent /\ ancestry[1].id \in Node
      BY <1>1, <2>2 DEF Linked, WalkTyped, GoodLink, LinkRecord
    <3>2. target.parent # NoNode
      BY <3>1, RootsAssumption
    <3> QED
      BY <1>1, <2>2, <3>1, <3>2 DEF EncryptedTo
  <2> QED
    BY <1>1, <2>1, <2>2
<1>4. open = 1 .. Len(ancestry)
  BY <1>1, <1>2
<1>5. IF open = 1 .. Len(ancestry)
      THEN /\ found' = found \cup {<<ParentKeyId(target), KeyOf(1)>>}
           /\ pending' = pending \ {target}
           /\ at' = "resolve" /\ UNCHANGED call
      ELSE WalkFailed /\ UNCHANGED found
  BY DEF Descend
<1> HIDE DEF open, KeyOf
<1> QED
  BY <1>3, <1>4, <1>5

\* A walk that is started down with the key of the topmost link, or for a cause.
LEMMA DescendStep ==
    ASSUME WalkInv, at = "climb", NEW base, Descend(base), index' \in [SharedRoot -> Nat],
           UNCHANGED tree, UNCHANGED <<known, changes, batch, walk, visited>>,
           causes \subseteq causes',
           causes' = {} => base = EncryptedTo(Topmost)
    PROVE  WalkInv'
<1>1. TreeSound' /\ parent' = parent
  BY SameTree
<1>2. UNCHANGED <<known, changes, batch, target, ancestry, visited>>
  BY DEF walk
<1>3. CachesSound' /\ WalkTyped'
  BY <1>2, DescendSafe
<1>4. ASSUME causes' = {} PROVE call'.result # "failed" /\ Blameless'
  <2>1. causes = {} /\ Blameless /\ Linked /\ call.result # "failed"
    BY <1>4 DEF WalkInv, Blameless
  <2>2. /\ found' = found \cup {<<ParentKeyId(target), EncryptedTo(target)>>}
        /\ pending' = pending \ {target} /\ at' = "resolve" /\ call' = call
    BY <1>4, <2>1, DescendOpens DEF WalkInv
  <2>3. ParentKeyId(target) = EncryptedTo(target)
    BY DEF ParentKeyId, EncryptedTo
  <2>4. \A q \in found' : q[1] = q[2]
    BY <2>1, <2>2, <2>3 DEF Blameless
  <2>5. \A l \in batch' \ pending' : <<ParentKeyId(l), EncryptedTo(l)>> \in found'
    BY <1>2, <2>1, <2>2 DEF Blameless
  <2>6. OnChain => OnChain'
    BY <1>1, <1>2, <2>2 DEF OnChain
  <2> QED
    BY <2>1, <2>2, <2>4, <2>5, <2>6 DEF Blameless, ParentKeyId, EncryptedTo, NodeKey, ShareKey
<1> QED
  BY <1>1, <1>3, <1>4 DEF WalkInv

LEMMA FromStep ==
    ASSUME WalkInv, FromCachedKey \/ FromHomeShare \/ FromDeviceShare \/ FromSharedWithMe
    PROVE  WalkInv'
<1>0. GoodLink(Topmost) /\ Above = Topmost.parent /\ TopRoot = Topmost.id
  BY TopmostIs DEF WalkInv
<1>1. index \in [SharedRoot -> Nat] /\ membership \in [SharedRoot -> Nat]
  BY DEF WalkInv, CachesSound, TreeSound
<1>2. CASE FromCachedKey
  <2>1. PICK key \in keys[Above] : Descend(key)
    BY <1>2 DEF FromCachedKey
  <2>2. Above \in Node /\ Above # NoNode
    BY <1>0, <1>2 DEF FromCachedKey, GoodLink, LinkRecord
  <2>3. key = EncryptedTo(Topmost)
    BY <1>0, <2>1, <2>2 DEF WalkInv, CachesSound, FolderKeysRight, EncryptedTo
  <2> QED
    BY <1>1, <1>2, <2>1, <2>3, DescendStep DEF FromCachedKey
<1>3. CASE FromHomeShare
  <2>1. ShareKey(HomeRoot) = EncryptedTo(Topmost)
    BY <1>0, <1>3 DEF FromHomeShare, EncryptedTo
  <2> QED
    BY <1>1, <1>3, <2>1, DescendStep DEF FromHomeShare
<1>4. CASE FromDeviceShare
  <2>1. ShareKey(TopRoot) = EncryptedTo(Topmost)
    BY <1>0, <1>4 DEF FromDeviceShare, EncryptedTo
  <2> QED
    BY <1>1, <1>4, <2>1, DescendStep DEF FromDeviceShare
<1>5. CASE FromSharedWithMe
  <2>0. /\ at = "climb" /\ Above = NoNode /\ TopRoot # HomeRoot /\ index' = ShareIndex
        /\ UNCHANGED tree /\ UNCHANGED <<known, changes, batch, walk, visited>>
    BY <1>5 DEF FromSharedWithMe
  <2>1. index' \in [SharedRoot -> Nat] /\ (TopRoot \in SharedRoot /\ index'[TopRoot] = 0 => membership[TopRoot] = 0)
    BY <1>1, <2>0 DEF ShareIndex
  <2>2. TopRoot \in DeviceRoot \/ TopRoot \in SharedRoot
    BY <1>0, <2>0 DEF GoodLink, Root
  <2>3. ShareKey(TopRoot) = EncryptedTo(Topmost)
    BY <1>0, <2>0 DEF EncryptedTo
  <2>4. CASE Descend(ShareKey(TopRoot)) /\ UNCHANGED causes
    BY <2>0, <2>1, <2>3, <2>4, DescendStep
  <2>5. CASE WalkFailed /\ Blame("share replaced") /\ UNCHANGED <<keys, found>>
    <3>1. TreeSound'
      BY <2>0, SameTree
    <3>2. CachesSound'
      BY <2>0, <2>1, <2>5 DEF WalkInv, CachesSound, FolderKeysRight
    <3> QED
      BY <2>0, <2>5, <3>1, <3>2, FailedWalk DEF Blame, walk
  <2>6. CASE /\ ~(TopRoot \in SharedRoot /\ index'[TopRoot] # 0)
             /\ Descend(ShareKey(HomeRoot))
             /\ IF TopRoot \in DeviceRoot THEN Blame("devices request failed")
                ELSE IF membership[TopRoot] = 0 THEN Blame("gone") ELSE UNCHANGED causes
    <3>1. causes \subseteq causes' /\ causes' # {}
      BY <2>1, <2>2, <2>6 DEF Blame
    <3> QED
      BY <2>0, <2>1, <2>6, <3>1, DescendStep
  <2> QED
    BY <1>5, <2>4, <2>5, <2>6 DEF FromSharedWithMe
<1> QED
  BY <1>2, <1>3, <1>4, <1>5

LEMMA BuildStep ==
    ASSUME WalkInv, BuildNodes
    PROVE  WalkInv'
<1> DEFINE built == {l \in batch : <<ParentKeyId(l), EncryptedTo(l)>> \in found}
<1>1. TreeSound' /\ parent' = parent
  BY SameTree DEF BuildNodes
<1>2. /\ at = "resolve" /\ pending = {} /\ UNCHANGED <<index, changes, batch, pending, found, causes>>
      /\ UNCHANGED <<target, ancestry>>
  BY DEF BuildNodes, walk
<1>3. DOMAIN keys' = Node /\ \A n \in Node : keys'[n] = {NodeKey(n)} \/ keys'[n] = keys[n]
  BY DEF BuildNodes
<1>4. known' \in [Node -> SUBSET (Node \cup {NoNode})]
  <2>1. \A l \in built : l.parent \in Node \cup {NoNode}
    BY DEF WalkInv, WalkTyped, GoodLink, LinkRecord
  <2>2. \A n \in Node : {l.parent : l \in {m \in built : m.id = n}} \in SUBSET (Node \cup {NoNode})
    BY <2>1
  <2>3. known' = [n \in Node |-> IF call.op # "key" /\ \E l \in built : l.id = n
                                 THEN {l.parent : l \in {m \in built : m.id = n}} ELSE known[n]]
    BY DEF BuildNodes
  <2>4. \A n \in Node : known[n] \in SUBSET (Node \cup {NoNode})
    BY DEF WalkInv, CachesSound
  <2> HIDE DEF built
  <2> QED
    BY <2>2, <2>3, <2>4
<1>5. CachesSound'
  BY <1>2, <1>3, <1>4 DEF WalkInv, CachesSound, FolderKeysRight, NodeKey
<1>6. causes = {} => built = batch
  BY <1>2 DEF WalkInv, Blameless
<1>7. \/ \E r \in {"ok", "failed"} : Return(r) /\ UNCHANGED visited /\ (r = "failed" => built # batch)
      \/ call.op # "list" /\ built = batch /\ \E l \in batch : Advance(l.parent)
  BY DEF BuildNodes
<1> HIDE DEF built
<1>8. CASE \E r \in {"ok", "failed"} : Return(r) /\ UNCHANGED visited /\ (r = "failed" => built # batch)
  <2>1. PICK r \in {"ok", "failed"} : Return(r) /\ UNCHANGED visited /\ (r = "failed" => built # batch)
    BY <1>8
  <2>2. /\ at' = "ended" /\ call' \in [op : WalkOps, want : SUBSET Node, result : WalkResults]
        /\ call'.result = r
    BY <2>1 DEF WalkInv, WalkTyped, WalkResults, Return
  <2>3. WalkTyped'
    BY <1>2, <2>1, <2>2 DEF WalkInv, WalkTyped, WalkLabels, GoodLink
  <2>4. Blameless => Blameless'
    BY <1>2, <2>2 DEF Blameless
  <2> QED
    BY <1>1, <1>2, <1>5, <1>6, <2>1, <2>2, <2>3, <2>4 DEF WalkInv
<1>9. ASSUME NEW l \in batch, Advance(l.parent) PROVE WalkInv'
  <2>1. GoodLink(l) /\ l.id \in Node /\ l.parent \in Node \cup {NoNode}
    BY DEF WalkInv, WalkTyped, GoodLink, LinkRecord
  <2>2. WalkTyped' /\ at' \in {"ended", "look"}
    BY <1>2, <1>9, <2>1, AdvanceTyped DEF WalkInv
  <2>3. ASSUME causes' = {} PROVE call'.result # "failed" /\ Blameless'
    <3>1. causes = {} /\ Blameless /\ call.result # "failed"
      BY <1>2, <2>3 DEF WalkInv
    <3>2. CASE call.op = "chain"
      <4>1. OnChain
        BY <1>2, <3>1, <3>2 DEF Blameless
      <4>2. /\ l.id \in visited /\ call.want = {l.id} /\ l.parent = parent[l.id]
            /\ \A v \in visited \ {l.id} : parent[v] \in visited
        BY <1>2, <4>1 DEF OnChain
      <4>3. call'.result # "failed" /\ call'.op = call.op /\ (at' = "look" => OnChain')
        BY <1>1, <1>9, <2>1, <3>1, <4>2, AdvanceUp DEF WalkInv
      <4> QED
        BY <1>2, <2>2, <3>1, <4>3 DEF Blameless
    <3>3. CASE call.op # "chain"
      <4>1. at' = "ended" /\ call' = [call EXCEPT !.result = "ok"]
        BY <1>9, <3>3 DEF Advance, Return
      <4>2. call'.result = "ok"
        BY <4>1 DEF WalkInv, WalkTyped
      <4> QED
        BY <1>2, <3>1, <4>1, <4>2 DEF Blameless
    <3> QED
      BY <3>2, <3>3
  <2> QED
    BY <1>1, <1>5, <2>2, <2>3 DEF WalkInv
<1> QED
  BY <1>7, <1>8, <1>9

LEMMA WalkStep ==
    ASSUME WalkInv, [WalkNext]_walkVars
    PROVE  WalkInv'
<1>1. ASSUME NEW n \in Node, BeginGetNode(n) \/ BeginHierarchy(n) \/ BeginFolderKey(n)
      PROVE  WalkInv'
  <2>1. {n} \in SUBSET Node /\ \E m \in Node : {n} = {m}
    OBVIOUS
  <2>2. CASE BeginGetNode(n)
    BY <2>1, <2>2, BeginStep DEF BeginGetNode, WalkOps
  <2>3. CASE BeginHierarchy(n)
    BY <2>1, <2>3, BeginStep DEF BeginHierarchy, WalkOps
  <2>4. CASE BeginFolderKey(n)
    BY <2>1, <2>4, BeginStep DEF BeginFolderKey, WalkOps
  <2> QED
    BY <1>1, <2>2, <2>3, <2>4
<1>2. ASSUME NEW nodes \in Listings, BeginEnumerate(nodes) PROVE WalkInv'
  <2>1. nodes \in SUBSET Node
    BY TreesAssumption
  <2> QED
    BY <1>2, <2>1, BeginStep DEF BeginEnumerate, WalkOps
<1>3. CASE CallStep
  BY <1>3, EntityHitStep, EntityMissStep, FetchStep, TakeStep, StartStep, ClimbStep, FromStep, BuildStep
     DEF CallStep
<1>4. CASE WalkRequestFails
  BY <1>4, RequestFailsStep
<1>5. ASSUME NEW n \in Node, NEW p \in Node, Move(n, p) PROVE WalkInv'
  BY <1>5, MoveStep
<1>6. ASSUME NEW n \in Node, DeleteNode(n) \/ InvalidateNode(n) PROVE WalkInv'
  BY <1>6, OthersSteps
<1>7. CASE ListSharedWithMe \/ \E r \in SharedRoot : Grant(r)
  <2>1. HomeRoot \in Node
    BY RootsAssumption DEF Root
  <2> QED
    BY <1>7, <2>1, OthersSteps
<1>8. CASE UNCHANGED walkVars
  <2>1. UNCHANGED tree /\ UNCHANGED <<caches, changes, callVars>>
    BY <1>8 DEF walkVars
  <2>2. TreeSound' /\ CachesSound' /\ parent' = parent
    BY <2>1, SameTree, SameCaches
  <2> QED
    BY <2>1, <2>2, Untouched
<1> QED
  BY <1>1, <1>2, <1>3, <1>4, <1>5, <1>6, <1>7, <1>8 DEF WalkNext

LEMMA WalkStart ==
    ASSUME WalkInit
    PROVE  WalkInv
<1>1. TreeSound
  <2>1. parent \in Trees /\ membership \in [SharedRoot -> {0, 1}]
    BY DEF WalkInit
  <2>2. membership \in [SharedRoot -> Nat]
    BY <2>1
  <2> QED
    BY <2>1, <2>2, TreesAssumption DEF TreeSound
<1>2. CachesSound
  <2>1. PICK cached \in SUBSET (Node \ Root) : \E named \in SUBSET (Node \ Root) :
          /\ keys = [n \in Node |-> IF n \in cached THEN {NodeKey(n)} ELSE {}]
          /\ known = [n \in Node |-> IF n \in named THEN {parent[n]} ELSE {}]
    BY DEF WalkInit
  <2>2. DOMAIN keys = Node /\ FolderKeysRight
    BY <2>1 DEF FolderKeysRight
  <2>3. known \in [Node -> SUBSET (Node \cup {NoNode})]
    BY <1>1, <2>1 DEF TreeSound
  <2>4. index \in [SharedRoot -> Nat] /\ changes \in Nat
    BY DEF WalkInit
  <2> QED
    BY <2>2, <2>3, <2>4 DEF CachesSound
<1>3. GoodLink(target)
  <2>1. HomeRoot \in Node /\ HomeRoot \in Root
    BY RootsAssumption DEF Root
  <2> QED
    BY <1>1, <2>1 DEF WalkInit, Link, GoodLink, LinkRecord, TreeSound
<1>4. call \in [op : WalkOps, want : SUBSET Node, result : WalkResults] /\ call.result = "none"
  BY DEF WalkInit, WalkOps, WalkResults
<1>5. WalkTyped
  BY <1>3, <1>4 DEF WalkInit, WalkTyped, WalkLabels
<1>6. Blameless
  BY DEF WalkInit, Blameless
<1> QED
  BY <1>1, <1>2, <1>4, <1>5, <1>6 DEF WalkInv

\* Whatever others move, delete, grant and drop from the caches around a call, and
\* whatever ancestors a batch or a hierarchy shares, a readable node is read with
\* its own key and no uid is given another node's key (resolve_parent_key_ctx,
\* get_node_hierarchy, enumerate_nodes_detail).
THEOREM KeysAlwaysResolved == WalkSpec => []KeysResolved
<1>1. WalkInit => WalkInv
  BY WalkStart
<1>2. WalkInv /\ [WalkNext]_walkVars => WalkInv'
  BY WalkStep
<1>3. WalkInv => KeysResolved
  BY DEF WalkInv, KeysResolved, FailureHasCause, CachesSound
<1> QED
  BY <1>1, <1>2, <1>3, PTL DEF WalkSpec

-----------------------------------------------------------------------------
(* Reading a revision.                                                     *)

\* Where the blocks end.
EndsOf(e, s) ==
    /\ e \in [0 .. Len(s) -> Nat] /\ e[0] = 0
    /\ \A b \in 1 .. Len(s) : e[b] = e[b - 1] + s[b]

LEMMA EndsIs ==
    ASSUME NEW s \in Seq(Nat)
    PROVE  EndsOf(Ends(s), s)
<1> DEFINE n == Len(s)
           step == [p \in Nat \X Nat |-> IF p[1] \in 1 .. n THEN p[2] + s[p[1]] ELSE 0]
<1>1. n \in Nat /\ \A b \in 1 .. n : s[b] \in Nat
  OBVIOUS
<1>2. step \in [Nat \X Nat -> Nat]
  BY <1>1
<1>3. \A b \in 1 .. n, x \in Nat : step[<<b, x>>] = x + s[b]
  BY <1>1
<1> HIDE DEF step
<1>4. PICK f : Iterate(f, n, Nat, 0, step)
  BY <1>1, <1>2, Iterates
<1>5. f \in [0 .. n -> Nat] /\ f[0] = 0
  BY <1>4 DEF Iterate
<1>6. ASSUME NEW b \in 1 .. n PROVE f[b] = f[b - 1] + s[b]
  <2>1. b - 1 \in 0 .. n
    BY <1>1
  <2>2. f[b - 1] \in Nat
    BY <2>1, <1>5
  <2>3. f[b] = step[<<b, f[b - 1]>>]
    BY <1>4 DEF Iterate
  <2> QED
    BY <2>2, <2>3, <1>3
<1>7. f = [b \in 0 .. Len(s) |-> IF b = 0 THEN 0 ELSE f[b - 1] + s[b]]
  <2>1. ASSUME NEW b \in 0 .. n PROVE f[b] = IF b = 0 THEN 0 ELSE f[b - 1] + s[b]
    BY <1>1, <1>5, <1>6
  <2> QED
    BY <2>1, <1>5
<1>8. Ends(s) = [b \in 0 .. Len(s) |-> IF b = 0 THEN 0 ELSE Ends(s)[b - 1] + s[b]]
  BY <1>7 DEF Ends
<1>9. PICK e : e = Ends(s)
  OBVIOUS
<1>10. e = [b \in 0 .. n |-> IF b = 0 THEN 0 ELSE e[b - 1] + s[b]]
  BY <1>8, <1>9
<1>11. e[0] = 0 /\ \A b \in 1 .. n : e[b] = e[b - 1] + s[b]
  BY <1>1, <1>10
<1>12. StepsBy(e, n, Nat, 0, step)
  BY <1>3, <1>11 DEF StepsBy
<1>13. \A b \in 0 .. n : e[b] \in Nat
  BY <1>1, <1>4, <1>12, IteratesOnce
<1>14. e \in [0 .. n -> Nat]
  BY <1>10, <1>13
<1> QED
  BY <1>9, <1>11, <1>14 DEF EndsOf

\* No block ends before an earlier one.
LEMMA EndsGrow ==
    ASSUME NEW s \in Seq(Nat), NEW e, EndsOf(e, s), NEW a \in 0 .. Len(s), NEW b \in 0 .. Len(s), a <= b
    PROVE  e[a] <= e[b]
<1>1. PICK n \in Nat : n = Len(s)
  OBVIOUS
<1>2. e \in [0 .. n -> Nat] /\ \A k \in 1 .. n : e[k] = e[k - 1] + s[k] /\ s[k] \in Nat
  BY <1>1 DEF EndsOf
<1>3. a \in 0 .. n /\ b \in 0 .. n
  BY <1>1
<1> DEFINE Bad == {k \in 0 .. n : a <= k /\ e[k] < e[a]}
<1>4. ASSUME Bad # {} PROVE FALSE
  <2>1. Bad \in SUBSET Nat
    OBVIOUS
  <2>2. PICK k \in Bad : \A j \in Bad : k <= j
    BY <1>4, <2>1, LeastNumber
  <2>3. k \in 0 .. n /\ a <= k /\ e[k] < e[a] /\ e[a] \in Nat
    BY <2>2, <1>2, <1>3
  <2>4. k # a
    BY <2>3
  <2>5. k \in 1 .. n /\ k - 1 \in 0 .. n /\ a <= k - 1
    BY <2>3, <2>4, <1>3
  <2>6. ~(e[k - 1] < e[a])
    BY <2>2, <2>5
  <2>7. e[k] = e[k - 1] + s[k] /\ s[k] \in Nat /\ e[k - 1] \in Nat
    BY <2>5, <1>2
  <2> QED
    BY <2>3, <2>6, <2>7
<1>5. ~(e[b] < e[a])
  BY <1>4, <1>3
<1> QED
  BY <1>5, <1>2, <1>3

\* A piece of a text.
LEMMA SliceIs ==
    ASSUME NEW S, NEW text \in Seq(S), NEW a \in Nat, NEW b \in Nat, b <= Len(text)
    PROVE  /\ SubSeq(text, a + 1, b) \in Seq(S)
           /\ Len(SubSeq(text, a + 1, b)) = IF a < b THEN b - a ELSE 0
           /\ \A i \in 1 .. b - a : SubSeq(text, a + 1, b)[i] = text[a + i]
           /\ b <= a => SubSeq(text, a + 1, b) = <<>>
<1>1. \A i \in a + 1 .. b : text[i] \in S
  OBVIOUS
<1>2. /\ SubSeq(text, a + 1, b) \in Seq(S)
      /\ Len(SubSeq(text, a + 1, b)) = IF a + 1 <= b THEN b - (a + 1) + 1 ELSE 0
      /\ \A i \in 1 .. b - (a + 1) + 1 : SubSeq(text, a + 1, b)[i] = text[a + 1 + i - 1]
  BY <1>1, SubSeqProperties
<1>3. b <= a => SubSeq(text, a + 1, b) = <<>>
  BY SubSeqEmpty
<1> QED
  BY <1>2, <1>3

\* A piece of a piece.
LEMMA SliceOfSlice ==
    ASSUME NEW S, NEW text \in Seq(S), NEW a \in Nat, NEW b \in Nat, a <= b, b <= Len(text),
           NEW c \in Nat, NEW d \in Nat, d <= b - a
    PROVE  SubSeq(SubSeq(text, a + 1, b), c + 1, d) = SubSeq(text, a + c + 1, a + d)
<1>1. PICK piece : piece = SubSeq(text, a + 1, b)
  OBVIOUS
<1>2. piece \in Seq(S) /\ Len(piece) = b - a /\ \A i \in 1 .. b - a : piece[i] = text[a + i]
  BY <1>1, SliceIs, SMTT(30)
<1>3. PICK left : left = SubSeq(piece, c + 1, d)
  OBVIOUS
<1>4. /\ left \in Seq(S) /\ Len(left) = IF c < d THEN d - c ELSE 0
      /\ \A i \in 1 .. d - c : left[i] = piece[c + i]
  <2>1. piece \in Seq(S) /\ d <= Len(piece)
    BY <1>2
  <2> QED
    BY <2>1, <1>3, SliceIs
<1>5. PICK right : right = SubSeq(text, a + c + 1, a + d)
  OBVIOUS
<1>6. a + c \in Nat /\ a + d \in Nat /\ a + d <= Len(text)
  BY LenProperties
<1>7. /\ right \in Seq(S) /\ Len(right) = IF a + c < a + d THEN (a + d) - (a + c) ELSE 0
      /\ \A i \in 1 .. (a + d) - (a + c) : right[i] = text[a + c + i]
  BY <1>5, <1>6, SliceIs
<1>8. Len(left) = Len(right)
  BY <1>4, <1>7
<1>9. ASSUME NEW i \in 1 .. Len(left) PROVE left[i] = right[i]
  <2>1. i \in 1 .. d - c /\ c + i \in 1 .. b - a /\ i \in 1 .. (a + d) - (a + c) /\ a + (c + i) = a + c + i
    BY <1>4
  <2> QED
    BY <2>1, <1>2, <1>4, <1>7
<1> QED
  BY <1>1, <1>3, <1>4, <1>5, <1>7, <1>8, <1>9, SeqEqual

\* A block is added to the part of the range that came before it.
Least(m, n) == IF m < n THEN m ELSE n

IsPiece(s, text, a, b) == s = SubSeq(text, a + 1, b)

LEMMA BlockSpliced ==
    ASSUME NEW S, NEW text \in Seq(S), NEW a \in Nat, NEW b \in Nat, a <= b, b <= Len(text),
           NEW offset \in Nat, NEW end \in Nat, a < end,
           NEW head, IsPiece(head, text, offset, a), NEW piece, IsPiece(piece, text, a, b)
    PROVE  IsPiece(SpliceBlock(head, piece, a, offset, end), text, offset, Least(end, b))
<1> USE DEF IsPiece
<1>1. Len(SubSeq(text, a + 1, b)) = b - a
  BY SliceIs
<1>2. (IF offset > a THEN offset - a ELSE 0) \in Nat
  OBVIOUS
<1>3. (IF end - a < b - a THEN end - a ELSE b - a) \in Nat
  OBVIOUS
<1> DEFINE from == IF offset > a THEN offset - a ELSE 0
           to == IF end - a < b - a THEN end - a ELSE b - a
<1>4. SpliceBlock(head, piece, a, offset, end)
        = SubSeq(text, offset + 1, a) \o SubSeq(SubSeq(text, a + 1, b), from + 1, to)
  BY <1>1 DEF SpliceBlock
<1>5. SubSeq(SubSeq(text, a + 1, b), from + 1, to) = SubSeq(text, a + from + 1, a + to)
  <2>1. to <= b - a
    OBVIOUS
  <2> HIDE DEF from, to
  <2> QED
    BY <2>1, <1>2, <1>3, SliceOfSlice DEF from, to
<1>6. a + to = Least(end, b) /\ Least(end, b) \in Nat /\ Least(end, b) <= Len(text)
  BY LenProperties DEF Least
<1>7. SubSeq(text, offset + 1, Least(end, b)) \in Seq(S)
  BY <1>6, SliceIs
<1>8. CASE offset > a
  <2>1. SubSeq(text, offset + 1, a) = <<>>
    BY <1>8, SliceIs, LenProperties
  <2>2. a + from + 1 = offset + 1
    BY <1>8, <1>2
  <2> QED
    BY <2>1, <2>2, <1>4, <1>5, <1>6, <1>7, ConcatEmptySeq
<1>9. CASE offset <= a
  <2>1. a + from + 1 = a + 1
    BY <1>9, <1>2
  <2>2. /\ offset + 1 \in 1 .. Len(text) + 1 /\ a \in offset + 1 - 1 .. Len(text)
        /\ Least(end, b) \in a .. Len(text)
    BY <1>9, <1>6, LenProperties DEF Least
  <2>3. SubSeq(text, offset + 1, a) \o SubSeq(text, a + 1, Least(end, b))
          = SubSeq(text, offset + 1, Least(end, b))
    <3>1. PICK c : c = Least(end, b)
      OBVIOUS
    <3>2. PICK m : m = offset + 1
      OBVIOUS
    <3>3. m \in 1 .. Len(text) + 1 /\ a \in m - 1 .. Len(text) /\ c \in a .. Len(text)
      BY <2>2, <3>1, <3>2
    <3>4. SubSeq(text, m, a) \o SubSeq(text, a + 1, c) = SubSeq(text, m, c)
      BY <3>3, ConcatAdjacentSubSeq, Zenon
    <3> QED
      BY <3>1, <3>2, <3>4
  <2> QED
    BY <2>1, <2>3, <1>4, <1>5, <1>6
<1> QED
  BY <1>8, <1>9

\* What is spliced stays a sequence.
LEMMA SpliceType ==
    ASSUME NEW S, NEW out \in Seq(S), NEW plain \in Seq(S), NEW start \in Nat, NEW offset \in Nat,
           NEW end \in Nat, start < end
    PROVE  SpliceBlock(out, plain, start, offset, end) \in Seq(S)
<1> DEFINE from == IF offset > start THEN offset - start ELSE 0
           to == IF end - start < Len(plain) THEN end - start ELSE Len(plain)
<1>1. from \in Nat /\ to \in Nat /\ to <= Len(plain)
  BY LenProperties
<1>2. SpliceBlock(out, plain, start, offset, end) = out \o SubSeq(plain, from + 1, to)
  BY DEF SpliceBlock
<1> HIDE DEF from, to
<1>3. SubSeq(plain, from + 1, to) \in Seq(S)
  BY <1>1, SliceIs
<1> QED
  BY <1>2, <1>3, ConcatProperties

\* The bytes spliced, block by block.
SpliceStep(x, b, blocks, ends, offset, end) ==
    IF ends[b - 1] < end /\ ends[b] > offset
    THEN SpliceBlock(x, blocks[b], ends[b - 1], offset, end) ELSE x

SplicedBy(out, S, blocks, sizes, offset, end) ==
    /\ out \in [0 .. Len(sizes) -> Seq(S)] /\ out[0] = <<>>
    /\ \A b \in 1 .. Len(sizes) :
          out[b] = SpliceStep(out[b - 1], b, blocks, Ends(sizes), offset, end)
    /\ Spliced(blocks, sizes, offset, end) = out[Len(sizes)]

LEMMA SplicedIs ==
    ASSUME NEW S, NEW sizes \in Seq(Nat), NEW blocks \in Seq(Seq(S)), Len(blocks) = Len(sizes),
           NEW offset \in Nat, NEW end \in Nat
    PROVE  \E out : SplicedBy(out, S, blocks, sizes, offset, end)
<1>1. PICK n \in Nat : n = Len(sizes)
  OBVIOUS
<1>2. PICK ends : ends = Ends(sizes)
  OBVIOUS
<1>3. ends \in [0 .. n -> Nat]
  BY <1>1, <1>2, EndsIs DEF EndsOf
<1> DEFINE step == [p \in Nat \X Seq(S) |->
                      IF p[1] \in 1 .. n THEN SpliceStep(p[2], p[1], blocks, ends, offset, end) ELSE <<>>]
<1>4. ASSUME NEW b \in 1 .. n, NEW x \in Seq(S)
      PROVE  SpliceStep(x, b, blocks, ends, offset, end) \in Seq(S)
  <2>1. b - 1 \in 0 .. n /\ b \in 1 .. Len(blocks)
    BY <1>1
  <2>2. ends[b - 1] \in Nat /\ blocks[b] \in Seq(S)
    BY <2>1, <1>3, ElementOfSeq
  <2> QED
    BY <2>2, SpliceType DEF SpliceStep
<1>5. step \in [Nat \X Seq(S) -> Seq(S)]
  <2>1. ASSUME NEW p \in Nat \X Seq(S) PROVE step[p] \in Seq(S)
    BY <1>4
  <2> QED
    BY <2>1
<1>6. ASSUME NEW b \in 1 .. n, NEW x \in Seq(S)
      PROVE  step[<<b, x>>] = SpliceStep(x, b, blocks, ends, offset, end)
  OBVIOUS
<1> HIDE DEF step
<1>7. PICK f : Iterate(f, n, Seq(S), <<>>, step)
  <2>1. <<>> \in Seq(S)
    OBVIOUS
  <2> QED
    BY <2>1, <1>5, Iterates
<1>8. f \in [0 .. n -> Seq(S)] /\ f[0] = <<>>
  BY <1>7 DEF Iterate
<1>9. ASSUME NEW b \in 1 .. n PROVE f[b] = SpliceStep(f[b - 1], b, blocks, ends, offset, end)
  <2>1. f[b - 1] \in Seq(S)
    BY <1>8
  <2>2. f[b] = step[<<b, f[b - 1]>>]
    BY <1>7 DEF Iterate
  <2> QED
    BY <2>1, <2>2, <1>6
<1> DEFINE Next1(g) == [b \in 0 .. n |-> IF b = 0 THEN <<>>
                                       ELSE SpliceStep(g[b - 1], b, blocks, ends, offset, end)]
<1>10. f = Next1(f)
  BY <1>8, <1>9
<1>11. PICK e : e = Next1(e) /\ Spliced(blocks, sizes, offset, end) = e[n]
  <2>1. PICK e : e = CHOOSE g : g = Next1(g)
    OBVIOUS
  <2>2. e = Next1(e)
    BY <2>1, <1>10
  <2>3. Spliced(blocks, sizes, offset, end) = e[n]
    BY <2>1, <1>1, <1>2 DEF Spliced, SpliceStep
  <2> QED
    BY <2>2, <2>3
<1>12. e[0] = <<>> /\ \A b \in 1 .. n : e[b] = SpliceStep(e[b - 1], b, blocks, ends, offset, end)
  BY <1>11
<1>13. StepsBy(e, n, Seq(S), <<>>, step)
  BY <1>6, <1>12 DEF StepsBy
<1>14. \A b \in 0 .. n : e[b] = f[b]
  <2>1. PICK T, none, stp : T = Seq(S) /\ none = <<>> /\ stp = step
    OBVIOUS
  <2>2. Iterate(f, n, T, none, stp) /\ StepsBy(e, n, T, none, stp)
    BY <2>1, <1>7, <1>13
  <2>3. \A b \in 0 .. n : e[b] = f[b] /\ e[b] \in T
    BY <2>2, <1>1, IteratesOnce
  <2> QED
    BY <2>3
<1>15. Spliced(blocks, sizes, offset, end) = f[n]
  BY <1>11, <1>14
<1> QED
  BY <1>1, <1>2, <1>8, <1>9, <1>15 DEF SplicedBy

\* The blocks of a text.
LEMMA PiecesAre ==
    ASSUME NEW S, NEW layout \in Seq(Nat), NEW text \in Seq(S), Len(text) = Total(layout)
    PROVE  /\ Pieces(text, layout) \in Seq(Seq(S)) /\ Len(Pieces(text, layout)) = Len(layout)
           /\ \A b \in 1 .. Len(layout) :
                 /\ Pieces(text, layout)[b] = SubSeq(text, Ends(layout)[b - 1] + 1, Ends(layout)[b])
                 /\ Ends(layout)[b - 1] \in Nat /\ Ends(layout)[b] \in Nat
                 /\ Ends(layout)[b - 1] <= Ends(layout)[b] /\ Ends(layout)[b] <= Len(text)
<1>1. PICK n \in Nat : n = Len(layout)
  OBVIOUS
<1>2. PICK e : e = Ends(layout)
  OBVIOUS
<1>3. EndsOf(e, layout)
  BY <1>2, EndsIs
<1>4. e \in [0 .. n -> Nat] /\ Len(text) = e[n]
  BY <1>1, <1>2, <1>3 DEF EndsOf, Total
<1>5. ASSUME NEW b \in 1 .. n
      PROVE  /\ e[b - 1] \in Nat /\ e[b] \in Nat /\ e[b - 1] <= e[b] /\ e[b] <= Len(text)
             /\ SubSeq(text, e[b - 1] + 1, e[b]) \in Seq(S)
  <2>1. b - 1 \in 0 .. n /\ b \in 0 .. n /\ n \in 0 .. n /\ b - 1 <= b /\ b <= n
    BY <1>1
  <2>2. e[b - 1] <= e[b] /\ e[b] <= e[n]
    BY <2>1, <1>1, <1>3, EndsGrow
  <2>3. e[b - 1] \in Nat /\ e[b] \in Nat
    BY <2>1, <1>4
  <2> QED
    BY <2>2, <2>3, <1>4, SliceIs
<1>6. PICK p : p = Pieces(text, layout)
  OBVIOUS
<1>7. p = [b \in 1 .. n |-> SubSeq(text, e[b - 1] + 1, e[b])]
  BY <1>1, <1>2, <1>6 DEF Pieces
<1>8. p \in Seq(Seq(S)) /\ Len(p) = n
  BY <1>1, <1>5, <1>7
<1> QED
  BY <1>1, <1>2, <1>5, <1>6, <1>7, <1>8

\* Sizes that place the blocks where they are: the true ones, or for a single block
\* any that are not too small.
Places(sizes, layout) ==
    \/ sizes = layout
    \/ Len(layout) = 1 /\ Len(sizes) = 1 /\ layout[1] <= sizes[1]

LEMMA RangeSpliced ==
    ASSUME NEW S, NEW layout \in Seq(Nat), NEW text \in Seq(S), Len(text) = Total(layout),
           NEW sizes \in Seq(Nat), Places(sizes, layout), NEW offset \in Nat, NEW end \in Nat
    PROVE  IsPiece(Spliced(Pieces(text, layout), sizes, offset, end), text, offset,
                   Least(end, Total(layout)))
<1> SUFFICES Spliced(Pieces(text, layout), sizes, offset, end)
                = SubSeq(text, offset + 1, Least(end, Total(layout)))
  BY DEF IsPiece
<1>1. PICK n \in Nat : n = Len(layout) /\ n = Len(sizes)
  BY DEF Places
<1>2. PICK blocks : blocks = Pieces(text, layout)
  OBVIOUS
<1>3. PICK e : e = Ends(layout)
  OBVIOUS
<1>4. /\ blocks \in Seq(Seq(S)) /\ Len(blocks) = n
      /\ \A b \in 1 .. n : /\ blocks[b] = SubSeq(text, e[b - 1] + 1, e[b])
                           /\ e[b - 1] \in Nat /\ e[b] \in Nat /\ e[b - 1] <= e[b] /\ e[b] <= Len(text)
  BY <1>1, <1>2, <1>3, PiecesAre
<1>5. EndsOf(e, layout) /\ Len(text) = e[n] /\ Total(layout) = e[n]
  BY <1>1, <1>3, EndsIs DEF Total
<1>6. e \in [0 .. n -> Nat] /\ e[0] = 0 /\ \A b \in 1 .. n : e[b] = e[b - 1] + layout[b]
  BY <1>1, <1>5 DEF EndsOf
<1>7. PICK d : d = Ends(sizes)
  OBVIOUS
<1>8. d \in [0 .. n -> Nat] /\ d[0] = 0 /\ \A b \in 1 .. n : d[b] = d[b - 1] + sizes[b]
  BY <1>1, <1>7, EndsIs DEF EndsOf
<1>9. PICK out \in [0 .. n -> Seq(S)] :
         /\ out[0] = <<>>
         /\ \A b \in 1 .. n : out[b] = SpliceStep(out[b - 1], b, blocks, d, offset, end)
         /\ Spliced(blocks, sizes, offset, end) = out[n]
  <2>1. Len(blocks) = Len(sizes)
    BY <1>1, <1>4
  <2>2. blocks \in Seq(Seq(S))
    BY <1>4
  <2>3. PICK out : SplicedBy(out, S, blocks, sizes, offset, end)
    BY <2>1, <2>2, SplicedIs
  <2>4. /\ out \in [0 .. n -> Seq(S)] /\ out[0] = <<>>
        /\ \A b \in 1 .. n : out[b] = SpliceStep(out[b - 1], b, blocks, d, offset, end)
        /\ Spliced(blocks, sizes, offset, end) = out[n]
    BY <2>3, <1>1, <1>7 DEF SplicedBy
  <2> QED
    BY <2>4
\* The step for a block that starts where the reader thinks.
<1>10. ASSUME NEW b \in 1 .. n, d[b - 1] = e[b - 1], e[b] <= d[b],
              out[b - 1] = SubSeq(text, offset + 1, Least(end, e[b - 1]))
       PROVE  out[b] = SubSeq(text, offset + 1, Least(end, e[b]))
  <2>1. PICK x \in Nat, y \in Nat : x = e[b - 1] /\ y = e[b] /\ x <= y /\ y <= Len(text)
    BY <1>4
  <2>2. out[b] = SpliceStep(out[b - 1], b, blocks, d, offset, end) /\ blocks[b] = SubSeq(text, x + 1, y)
    BY <2>1, <1>4, <1>9
  <2>3. d[b] \in Nat
    BY <1>8
  <2>4. CASE x < end /\ d[b] > offset
    <3>1. Least(end, x) = x
      BY <2>1, <2>4 DEF Least
    <3>2. out[b] = SpliceBlock(SubSeq(text, offset + 1, x), SubSeq(text, x + 1, y), x, offset, end)
      BY <2>1, <2>2, <2>4, <3>1, <1>10 DEF SpliceStep
    <3>3. SpliceBlock(SubSeq(text, offset + 1, x), SubSeq(text, x + 1, y), x, offset, end)
            = SubSeq(text, offset + 1, Least(end, y))
      <4>1. x <= y /\ y <= Len(text) /\ x < end
        BY <2>1, <2>4
      <4>2. PICK head, piece : head = SubSeq(text, offset + 1, x) /\ piece = SubSeq(text, x + 1, y)
        OBVIOUS
      <4>3. IsPiece(head, text, offset, x) /\ IsPiece(piece, text, x, y)
        BY <4>2 DEF IsPiece
      <4>4. IsPiece(SpliceBlock(head, piece, x, offset, end), text, offset, Least(end, y))
        BY <4>1, <4>3, BlockSpliced
      <4> QED
        BY <4>2, <4>4 DEF IsPiece
    <3> QED
      BY <2>1, <3>2, <3>3
  <2>5. CASE ~(x < end)
    <3>1. out[b] = out[b - 1]
      BY <2>1, <2>2, <2>5, <1>10 DEF SpliceStep
    <3>2. Least(end, x) = Least(end, y)
      BY <2>1, <2>5, SMTT(30) DEF Least
    <3> QED
      BY <2>1, <3>1, <3>2, <1>10
  <2>6. CASE ~(d[b] > offset)
    <3>1. out[b] = out[b - 1]
      BY <2>1, <2>2, <2>6, <1>10 DEF SpliceStep
    <3>2. x <= offset /\ y <= offset
      <4>1. PICK z \in Nat : z = d[b]
        BY <2>3
      <4>2. y <= z /\ ~(z > offset)
        BY <4>1, <2>1, <2>6, <1>10
      <4>3. x <= y
        BY <2>1
      <4> QED
        BY <4>2, <4>3
    <3>3. /\ Least(end, x) \in Nat /\ Least(end, x) <= Len(text) /\ Least(end, x) <= offset
          /\ Least(end, y) \in Nat /\ Least(end, y) <= Len(text) /\ Least(end, y) <= offset
      <4>1. x <= Len(text) /\ y <= Len(text) /\ Len(text) \in Nat
        BY <2>1, LenProperties
      <4>2. ASSUME NEW z \in Nat, z <= Len(text), z <= offset
            PROVE  Least(end, z) \in Nat /\ Least(end, z) <= Len(text) /\ Least(end, z) <= offset
        BY <4>1, <4>2 DEF Least
      <4> QED
        BY <4>1, <4>2, <3>2
    <3>4. SubSeq(text, offset + 1, Least(end, x)) = <<>> /\ SubSeq(text, offset + 1, Least(end, y)) = <<>>
      BY <3>3, SliceIs
    <3> QED
      BY <2>1, <3>1, <3>4, <1>10
  <2> QED
    BY <2>4, <2>5, <2>6
<1>11. out[0] = SubSeq(text, offset + 1, Least(end, e[0]))
  <2>1. Least(end, 0) = 0 /\ 0 <= Len(text)
    BY LenProperties DEF Least
  <2>2. SubSeq(text, offset + 1, 0) = <<>>
    BY <2>1, SliceIs
  <2> QED
    BY <2>1, <2>2, <1>6, <1>9
<1>12. CASE sizes = layout
  <2>1. d = e
    BY <1>12, <1>3, <1>7
  <2> DEFINE Bad == {k \in 0 .. n : out[k] # SubSeq(text, offset + 1, Least(end, e[k]))}
  <2>2. ASSUME Bad # {} PROVE FALSE
    <3>1. Bad \in SUBSET Nat
      OBVIOUS
    <3>2. PICK k \in Bad : \A j \in Bad : k <= j
      BY <2>2, <3>1, LeastNumber
    <3>3. k # 0
      BY <3>2, <1>11
    <3>4. k \in 1 .. n /\ k - 1 \in 0 .. n /\ ~(k <= k - 1)
      BY <3>2, <3>3
    <3>5. out[k - 1] = SubSeq(text, offset + 1, Least(end, e[k - 1]))
      BY <3>2, <3>4
    <3>6. e[k] <= d[k] /\ d[k - 1] = e[k - 1]
      BY <2>1, <3>4, <1>6
    <3>7. out[k] = SubSeq(text, offset + 1, Least(end, e[k]))
      BY <3>4, <3>5, <3>6, <1>10
    <3> QED
      BY <3>2, <3>7
  <2>3. n \in 0 .. n
    BY <1>1
  <2>4. out[n] = SubSeq(text, offset + 1, Least(end, e[n]))
    BY <2>2, <2>3
  <2> QED
    BY <2>4, <1>2, <1>5, <1>9
<1>13. CASE n = 1 /\ layout[1] <= sizes[1]
  <2>1. 1 \in 1 .. n /\ d[1 - 1] = e[1 - 1] /\ layout[1] \in Nat /\ sizes[1] \in Nat
    <3>1. 1 \in 1 .. Len(layout) /\ 1 \in 1 .. Len(sizes) /\ 1 - 1 = 0
      BY <1>1, <1>13
    <3> QED
      BY <3>1, <1>1, <1>6, <1>8, ElementOfSeq
  <2>2. e[1] <= d[1]
    BY <2>1, <1>6, <1>8, <1>13
  <2>3. out[1] = SubSeq(text, offset + 1, Least(end, e[1]))
    BY <2>1, <2>2, <1>10, <1>11
  <2> QED
    BY <2>3, <1>2, <1>5, <1>9, <1>13
<1> QED
  BY <1>1, <1>12, <1>13 DEF Places

\* A size is a number.
LEMMA TotalType ==
    ASSUME NEW sizes \in Seq(Nat)
    PROVE  Total(sizes) \in Nat
<1>1. PICK n \in Nat : n = Len(sizes)
  OBVIOUS
<1>2. Ends(sizes) \in [0 .. n -> Nat] /\ n \in 0 .. n
  BY <1>1, EndsIs DEF EndsOf
<1> QED
  BY <1>1, <1>2 DEF Total

\* What is read is a sequence of bytes, whatever the sizes say.
LEMMA BytesType ==
    ASSUME NEW S, NEW sizes \in Seq(Nat), NEW blocks \in Seq(Seq(S)), Len(blocks) = Len(sizes),
           NEW offset \in Nat, NEW length \in Nat
    PROVE  BytesAt(blocks, sizes, offset, length) \in Seq(S)
<1>1. PICK size \in Nat : size = Total(sizes)
  BY TotalType
<1>2. PICK end \in Nat : end = Least(offset + length, size)
  BY <1>1 DEF Least
<1>3. PICK out : SplicedBy(out, S, blocks, sizes, offset, end)
  BY <1>2, SplicedIs
<1>4. Spliced(blocks, sizes, offset, end) \in Seq(S)
  <2>1. PICK n \in Nat : n = Len(sizes)
    OBVIOUS
  <2>2. out \in [0 .. n -> Seq(S)] /\ Spliced(blocks, sizes, offset, end) = out[n] /\ n \in 0 .. n
    BY <2>1, <1>3 DEF SplicedBy
  <2> QED
    BY <2>2
<1>5. <<>> \in Seq(S)
  OBVIOUS
<1> QED
  BY <1>1, <1>2, <1>4, <1>5 DEF BytesAt, Least

\* Sizes that place the blocks do not sum up to less than the blocks.
LEMMA PlacesSum ==
    ASSUME NEW layout \in Seq(Nat), NEW sizes \in Seq(Nat), Places(sizes, layout)
    PROVE  Total(layout) <= Total(sizes)
<1>1. CASE sizes = layout
  BY <1>1, TotalType
<1>2. CASE Len(layout) = 1 /\ Len(sizes) = 1 /\ layout[1] <= sizes[1]
  <2>1. EndsOf(Ends(layout), layout) /\ EndsOf(Ends(sizes), sizes)
    BY EndsIs
  <2>2. 1 \in 1 .. Len(layout) /\ 1 \in 1 .. Len(sizes) /\ 1 - 1 = 0
    BY <1>2
  <2>3. Ends(layout)[1] = layout[1] /\ Ends(sizes)[1] = sizes[1]
    <3>1. layout[1] \in Nat /\ sizes[1] \in Nat
      BY <2>2, ElementOfSeq
    <3>2. Ends(layout)[1] = 0 + layout[1] /\ Ends(sizes)[1] = 0 + sizes[1]
      BY <2>1, <2>2 DEF EndsOf
    <3> QED
      BY <3>1, <3>2
  <2> QED
    BY <2>3, <1>2 DEF Total
<1> QED
  BY <1>1, <1>2 DEF Places

\* A read hands out its range of the text.
LEMMA BytesAre ==
    ASSUME NEW S, NEW layout \in Seq(Nat), NEW text \in Seq(S), Len(text) = Total(layout),
           NEW sizes \in Seq(Nat), Places(sizes, layout), NEW offset \in Nat, NEW length \in Nat
    PROVE  IsPiece(BytesAt(Pieces(text, layout), sizes, offset, length), text, offset,
                   Least(offset + length, Total(layout)))
<1>1. PICK size \in Nat : size = Total(sizes)
  BY TotalType
<1>2. PICK total \in Nat : total = Total(layout)
  BY TotalType
<1>3. total <= size
  BY <1>1, <1>2, PlacesSum
<1>4. PICK end \in Nat : end = Least(offset + length, size)
  BY <1>1 DEF Least
<1>5. PICK stop \in Nat : stop = Least(offset + length, total)
  BY <1>2 DEF Least
<1>6. Least(end, total) = stop
  BY <1>3, <1>4, <1>5 DEF Least
<1>7. PICK blocks : blocks = Pieces(text, layout)
  OBVIOUS
<1>8. CASE length = 0 \/ offset >= size
  <2>1. BytesAt(blocks, sizes, offset, length) = <<>>
    BY <1>1, <1>8 DEF BytesAt
  <2>2. stop <= offset /\ stop <= Len(text)
    BY <1>2, <1>3, <1>5, <1>8 DEF Least
  <2>3. SubSeq(text, offset + 1, stop) = <<>>
    BY <2>2, SliceIs
  <2> QED
    BY <2>1, <2>3, <1>2, <1>5, <1>7 DEF IsPiece
<1>9. CASE ~(length = 0 \/ offset >= size)
  <2>1. BytesAt(blocks, sizes, offset, length) = Spliced(blocks, sizes, offset, end)
    BY <1>1, <1>4, <1>9 DEF BytesAt, Least
  <2>2. IsPiece(Spliced(blocks, sizes, offset, end), text, offset, Least(end, total))
    BY <1>2, <1>7, RangeSpliced
  <2> QED
    BY <2>1, <2>2, <1>2, <1>5, <1>6, <1>7
<1> QED
  BY <1>8, <1>9

\* The rounds of a download.
DownloadedBy(out, S, blocks, sizes) ==
    /\ out \in [0 .. Total(sizes) -> Seq(S)] /\ out[0] = <<>>
    /\ \A k \in 1 .. Total(sizes) :
          out[k] = out[k - 1] \o BytesAt(blocks, sizes, Len(out[k - 1]), BlockSize)
    /\ Downloaded(blocks, sizes) = out[Total(sizes)]

LEMMA DownloadedIs ==
    ASSUME NEW S, NEW sizes \in Seq(Nat), NEW blocks \in Seq(Seq(S)), Len(blocks) = Len(sizes)
    PROVE  \E out : DownloadedBy(out, S, blocks, sizes)
<1>1. PICK n \in Nat : n = Total(sizes)
  BY TotalType
<1> DEFINE Round(x) == x \o BytesAt(blocks, sizes, Len(x), BlockSize)
           step == [p \in Nat \X Seq(S) |-> Round(p[2])]
<1>2. ASSUME NEW x \in Seq(S) PROVE Round(x) \in Seq(S)
  <2>1. BytesAt(blocks, sizes, Len(x), BlockSize) \in Seq(S)
    BY BytesType, RevisionsAssumption, LenProperties
  <2> QED
    BY <2>1, ConcatProperties
<1> HIDE DEF Round
<1>3. step \in [Nat \X Seq(S) -> Seq(S)]
  BY <1>2
<1>4. ASSUME NEW b \in 1 .. n, NEW x \in Seq(S) PROVE step[<<b, x>>] = Round(x)
  OBVIOUS
<1> HIDE DEF step
<1>5. PICK f : Iterate(f, n, Seq(S), <<>>, step)
  <2>1. <<>> \in Seq(S)
    OBVIOUS
  <2> QED
    BY <2>1, <1>3, Iterates
<1>6. f \in [0 .. n -> Seq(S)] /\ f[0] = <<>>
  BY <1>5 DEF Iterate
<1>7. ASSUME NEW b \in 1 .. n PROVE f[b] = Round(f[b - 1])
  <2>1. f[b - 1] \in Seq(S)
    BY <1>6
  <2>2. f[b] = step[<<b, f[b - 1]>>]
    BY <1>5 DEF Iterate
  <2> QED
    BY <2>1, <2>2, <1>4
<1> DEFINE Rounds(g) == [b \in 0 .. n |-> IF b = 0 THEN <<>> ELSE Round(g[b - 1])]
<1>8. f = Rounds(f)
  BY <1>6, <1>7
<1>9. PICK e : e = Rounds(e) /\ Downloaded(blocks, sizes) = e[n]
  <2>1. PICK e : e = CHOOSE g : g = Rounds(g)
    OBVIOUS
  <2>2. e = Rounds(e)
    BY <2>1, <1>8
  <2>3. Downloaded(blocks, sizes) = e[n]
    BY <2>1, <1>1 DEF Downloaded, Round
  <2> QED
    BY <2>2, <2>3
<1>10. e[0] = <<>> /\ \A b \in 1 .. n : e[b] = Round(e[b - 1])
  BY <1>9
<1>11. StepsBy(e, n, Seq(S), <<>>, step)
  BY <1>4, <1>10 DEF StepsBy
<1>12. \A b \in 0 .. n : e[b] = f[b]
  <2>1. PICK T, none, stp : T = Seq(S) /\ none = <<>> /\ stp = step
    OBVIOUS
  <2>2. Iterate(f, n, T, none, stp) /\ StepsBy(e, n, T, none, stp)
    BY <2>1, <1>5, <1>11
  <2>3. \A b \in 0 .. n : e[b] = f[b] /\ e[b] \in T
    BY <2>2, <1>1, IteratesOnce
  <2> QED
    BY <2>3
<1>13. Downloaded(blocks, sizes) = f[n]
  BY <1>9, <1>12
<1> QED
  BY <1>1, <1>6, <1>7, <1>13 DEF DownloadedBy, Round

\* A download hands out the text.
LEMMA DownloadedAll ==
    ASSUME NEW S, NEW layout \in Seq(Nat), NEW text \in Seq(S), Len(text) = Total(layout),
           NEW sizes \in Seq(Nat), Places(sizes, layout)
    PROVE  IsPiece(Downloaded(Pieces(text, layout), sizes), text, 0, Least(Total(sizes), Total(layout)))
<1>1. PICK size \in Nat : size = Total(sizes)
  BY TotalType
<1>2. PICK total \in Nat : total = Total(layout)
  BY TotalType
<1>3. total <= size
  BY <1>1, <1>2, PlacesSum
<1>4. PICK blocks : blocks = Pieces(text, layout)
  OBVIOUS
<1>5. blocks \in Seq(Seq(S)) /\ Len(blocks) = Len(sizes)
  <2>1. Len(layout) = Len(sizes)
    BY DEF Places
  <2> QED
    BY <2>1, <1>4, PiecesAre
<1>6. PICK out : DownloadedBy(out, S, blocks, sizes)
  BY <1>5, DownloadedIs
<1>7. /\ out \in [0 .. size -> Seq(S)] /\ out[0] = <<>>
      /\ \A k \in 1 .. size : out[k] = out[k - 1] \o BytesAt(blocks, sizes, Len(out[k - 1]), BlockSize)
      /\ Downloaded(blocks, sizes) = out[size]
  BY <1>1, <1>6 DEF DownloadedBy
<1> DEFINE Come(k) == \E m \in 0 .. total : IsPiece(out[k], text, 0, m) /\ (k <= m \/ m = total)
           Bad == {k \in 0 .. size : ~Come(k)}
<1>8. Come(0)
  <2>1. 0 <= Len(text)
    BY LenProperties
  <2>2. SubSeq(text, 0 + 1, 0) = <<>>
    BY <2>1, SliceIs
  <2>3. IsPiece(out[0], text, 0, 0)
    BY <2>2, <1>7 DEF IsPiece
  <2>4. 0 \in 0 .. total /\ 0 <= 0
    BY <1>2
  <2> QED
    BY <2>3, <2>4
<1>9. ASSUME NEW k \in 1 .. size, Come(k - 1) PROVE Come(k)
  <2>1. PICK m \in 0 .. total : IsPiece(out[k - 1], text, 0, m) /\ (k - 1 <= m \/ m = total)
    BY <1>9
  <2>2. m \in Nat /\ m <= Len(text)
    BY <2>1, <1>2
  <2>3. out[k - 1] = SubSeq(text, 0 + 1, m) /\ Len(out[k - 1]) = m
    <3>1. out[k - 1] = SubSeq(text, 0 + 1, m)
      BY <2>1 DEF IsPiece
    <3>2. Len(SubSeq(text, 0 + 1, m)) = IF 0 < m THEN m - 0 ELSE 0
      BY <2>2, SliceIs
    <3> QED
      BY <3>1, <3>2, <2>2
  <2>4. PICK next \in Nat : next = Least(m + BlockSize, total)
    BY <2>2, <1>2, RevisionsAssumption DEF Least
  <2>5. PICK chunk : chunk = BytesAt(blocks, sizes, m, BlockSize)
    OBVIOUS
  <2>6. IsPiece(chunk, text, m, next)
    BY <2>2, <2>4, <2>5, <1>2, <1>4, BytesAre, RevisionsAssumption
  <2>7. chunk = SubSeq(text, m + 1, next)
    BY <2>6 DEF IsPiece
  <2>8. next \in m .. Len(text) /\ next \in 0 .. total /\ (k <= next \/ next = total)
    BY <2>1, <2>2, <2>4, <1>2, RevisionsAssumption DEF Least
  <2>9. SubSeq(text, 1, m) \o SubSeq(text, m + 1, next) = SubSeq(text, 1, next)
    <3>1. 1 \in 1 .. Len(text) + 1 /\ m \in 1 - 1 .. Len(text)
      BY <2>2, LenProperties
    <3> QED
      BY <3>1, <2>8, ConcatAdjacentSubSeq, Zenon
  <2>10. out[k] = SubSeq(text, 0 + 1, m) \o chunk
    <3>1. out[k] = out[k - 1] \o BytesAt(blocks, sizes, Len(out[k - 1]), BlockSize)
      BY <1>7
    <3> QED
      BY <3>1, <2>3, <2>5, Zenon
  <2>11. out[k] = SubSeq(text, 0 + 1, next)
    <3>1. 0 + 1 = 1
      OBVIOUS
    <3>2. out[k] = SubSeq(text, 1, m) \o SubSeq(text, m + 1, next)
      BY <3>1, <2>7, <2>10, Zenon
    <3> QED
      BY <3>1, <3>2, <2>9, Zenon
  <2>12. IsPiece(out[k], text, 0, next)
    BY <2>11, Zenon DEF IsPiece
  <2> QED
    BY <2>8, <2>12
<1> HIDE DEF Come
<1>10. ASSUME Bad # {} PROVE FALSE
  <2>1. Bad \in SUBSET Nat
    OBVIOUS
  <2>2. PICK k \in Bad : \A j \in Bad : k <= j
    BY <2>1, <1>10, LeastNumber
  <2>3. k # 0
    BY <2>2, <1>8
  <2>4. k \in 1 .. size /\ k - 1 \in 0 .. size /\ ~(k <= k - 1)
    BY <2>2, <2>3
  <2>5. Come(k - 1)
    BY <2>2, <2>4
  <2> QED
    BY <2>2, <2>4, <2>5, <1>9
<1>11. Come(size)
  BY <1>1, <1>10
<1>12. PICK m \in 0 .. total : IsPiece(out[size], text, 0, m) /\ (size <= m \/ m = total)
  BY <1>11 DEF Come
<1>13. m = Least(size, total)
  BY <1>1, <1>2, <1>3, <1>12 DEF Least
<1> QED
  BY <1>1, <1>2, <1>4, <1>7, <1>12, <1>13

\* Full blocks and a rest are placed by their sum.
LEMMA StandardEnds ==
    ASSUME NEW layout \in Seq(1 .. BlockSize), Standard(layout), NEW b \in 0 .. Len(layout) - 1
    PROVE  Ends(layout)[b] = BlockSize * b
<1>1. layout \in Seq(Nat)
  BY RevisionsAssumption, SeqMonotonic
<1>2. PICK n \in Nat : n = Len(layout)
  OBVIOUS
<1>3. PICK e : e = Ends(layout)
  OBVIOUS
<1>4. e[0] = 0 /\ \A k \in 1 .. n : e[k] = e[k - 1] + layout[k]
  BY <1>1, <1>2, <1>3, EndsIs DEF EndsOf
<1> DEFINE Bad == {k \in 0 .. n - 1 : e[k] # BlockSize * k}
<1>5. ASSUME Bad # {} PROVE FALSE
  <2>1. Bad \in SUBSET Nat
    OBVIOUS
  <2>2. PICK k \in Bad : \A j \in Bad : k <= j
    BY <2>1, <1>5, LeastNumber
  <2>3. k # 0
    BY <2>2, <1>4, RevisionsAssumption
  <2>4. k \in 1 .. n - 1 /\ k \in 1 .. n /\ k - 1 \in 0 .. n - 1 /\ ~(k <= k - 1)
    BY <2>2, <2>3, <1>2
  <2>5. e[k - 1] = BlockSize * (k - 1)
    BY <2>2, <2>4
  <2>6. layout[k] = BlockSize
    BY <2>4, <1>2 DEF Standard
  <2>7. e[k] = BlockSize * (k - 1) + BlockSize
    BY <2>4, <2>5, <2>6, <1>4
  <2>8. BlockSize * (k - 1) + BlockSize = BlockSize * k
    BY <2>4, RevisionsAssumption
  <2> QED
    BY <2>2, <2>7, <2>8
<1> QED
  BY <1>2, <1>3, <1>5

LEMMA StandardRanked ==
    ASSUME NEW layout \in Seq(1 .. BlockSize), Standard(layout)
    PROVE  RankedFromTotal(Total(layout), Len(layout)) = layout
<1>1. layout \in Seq(Nat)
  BY RevisionsAssumption, SeqMonotonic
<1>2. PICK n \in Nat : n = Len(layout)
  OBVIOUS
<1>3. PICK e : e = Ends(layout)
  OBVIOUS
<1>4. EndsOf(e, layout) /\ Total(layout) = e[n]
  BY <1>1, <1>2, <1>3, EndsIs DEF Total
<1>5. e \in [0 .. n -> Nat] /\ \A k \in 1 .. n : e[k] = e[k - 1] + layout[k]
  BY <1>2, <1>4 DEF EndsOf
<1>6. ASSUME NEW b \in 1 .. n
      PROVE  RankedFromTotal(Total(layout), n)[b] = layout[b]
  <2>1. b - 1 \in 0 .. n - 1 /\ b \in 0 .. n /\ n \in 0 .. n /\ b - 1 \in 0 .. n
    BY <1>2
  <2>2. e[b - 1] = BlockSize * (b - 1)
    BY <2>1, <1>2, <1>3, StandardEnds
  <2>3. e[b] = e[b - 1] + layout[b] /\ layout[b] \in 1 .. BlockSize /\ e[b - 1] \in Nat
    <3>1. layout[b] \in 1 .. BlockSize
      BY <1>2, ElementOfSeq
    <3>2. e[b] = e[b - 1] + layout[b]
      BY <1>5
    <3>3. e[b - 1] \in Nat
      BY <2>1, <1>5
    <3> QED
      BY <3>1, <3>2, <3>3
  <2>4. e[b] <= e[n] /\ e[n] \in Nat
    BY <2>1, <1>1, <1>2, <1>4, <1>5, EndsGrow, SMTT(30)
  <2>5. b = n \/ layout[b] = BlockSize
    BY <1>2 DEF Standard
  <2>6. PICK rest : rest = e[n] - e[b - 1]
    OBVIOUS
  <2>7. RankedFromTotal(Total(layout), n)[b]
          = IF rest < 0 THEN 0 ELSE IF rest < BlockSize THEN rest ELSE BlockSize
    BY <2>2, <2>6, <1>4 DEF RankedFromTotal
  <2>8. rest \in Int /\ layout[b] <= rest /\ (b = n => rest = layout[b])
    BY <2>3, <2>4, <2>6
  <2> QED
    BY <2>3, <2>5, <2>7, <2>8, RevisionsAssumption
<1>7. DOMAIN RankedFromTotal(Total(layout), n) = 1 .. n /\ layout \in [1 .. n -> Nat]
  BY <1>1, <1>2 DEF RankedFromTotal
<1>8. RankedFromTotal(Total(layout), n) = [b \in 1 .. n |-> RankedFromTotal(Total(layout), n)[b]]
  BY DEF RankedFromTotal
<1> QED
  BY <1>2, <1>6, <1>7, <1>8

\* The file's revisions and the readers open on them.
Layouts == {u.layout : u \in Uploads}
Attributes == {u.attrs : u \in Uploads}
Byte == Nat \X Nat
RevisionRecord == [state : {"active", "superseded", "deleted"}, layout : Layouts,
                   attrs : Attributes, content : Nat]
ReaderRecord == [at : {"closed", "pinned", "open", "read"}, visitor : BOOLEAN, rev : Nat,
                 attrs : Attributes \cup {NoSizes}, sizes : Seq(Nat), from : Nat, to : Nat,
                 out : Seq(Byte)]

RevisionsTypes == revisions \in Seq(RevisionRecord) /\ reader \in [Reader -> ReaderRecord]

Honest(file) == \A i \in 1 .. Len(file) : Fits(file[i].layout, file[i].attrs)

\* What a reader knows of its revision: its attributes or none, then a size for each
\* block, which place the blocks if anything can, then the bytes it was asked for.
Knows(rd, layout, attrs, of) ==
    /\ rd.at = "pinned" => rd.attrs \in {NoSizes, attrs}
    /\ rd.at \in {"open", "read"} => Len(rd.sizes) = Len(layout)
    /\ rd.at \in {"open", "read"} /\ (Standard(layout) \/ rd.sizes = layout) => Places(rd.sizes, layout)
    /\ rd.at = "read" /\ (Standard(layout) \/ rd.sizes = layout) =>
          IsPiece(rd.out, Text(layout, of), rd.from, Least(rd.to, Total(layout)))

Pinned(rd, file) ==
    rd.at # "closed" =>
        /\ rd.rev \in 1 .. Len(file)
        /\ Knows(rd, file[rd.rev].layout, file[rd.rev].attrs, file[rd.rev].content)

RevisionsInv == RevisionsTypes /\ Honest(revisions) /\ \A r \in Reader : Pinned(reader[r], revisions)

\* What rank_block_sizes makes of the attributes, or of none.
LEMMA RankedPlaces ==
    ASSUME NEW layout \in Seq(1 .. BlockSize), NEW recorded, Fits(layout, recorded),
           NEW attrs \in {NoSizes, recorded}, NEW sizes, sizes = RankBlockSizes(attrs, Len(layout)),
           sizes # NoSizes
    PROVE  /\ sizes \in Seq(Nat) /\ Len(sizes) = Len(layout)
           /\ Standard(layout) \/ sizes = layout => Places(sizes, layout)
<1>1. layout \in Seq(Nat)
  BY RevisionsAssumption, SeqMonotonic
<1>2. PICK n \in Nat : n = Len(layout)
  OBVIOUS
<1>3. Fits(layout, attrs)
  BY DEF Fits
<1>4. CASE attrs # NoSizes /\ attrs.sizes # NoSizes /\ Len(attrs.sizes) = n
  <2>1. /\ sizes = attrs.sizes /\ ~ \E b \in 1 .. n : attrs.sizes[b] <= 0
    BY <1>2, <1>4 DEF RankBlockSizes
  <2>2. sizes = layout
    BY <2>1, <1>2, <1>3, <1>4 DEF Fits
  <2> QED
    BY <2>2, <1>1 DEF Places
<1>5. CASE /\ ~(attrs # NoSizes /\ attrs.sizes # NoSizes /\ Len(attrs.sizes) = n)
           /\ attrs # NoSizes /\ attrs.total # NoSizes /\ attrs.total >= 0
  <2>1. sizes = RankedFromTotal(attrs.total, n)
    BY <1>2, <1>5 DEF RankBlockSizes
  <2>2. attrs.total = Total(layout) /\ attrs.total \in Int
    BY <1>3, <1>5 DEF Fits
  <2>3. sizes \in Seq(Nat) /\ Len(sizes) = n
    <3>1. PICK total \in Int : total = attrs.total
      BY <2>2
    <3>2. ASSUME NEW b \in 1 .. n PROVE total - BlockSize * (b - 1) \in Int
      BY <3>1, RevisionsAssumption
    <3>3. \A b \in 1 .. n : RankedFromTotal(total, n)[b] \in Nat
      BY <3>2, RevisionsAssumption DEF RankedFromTotal
    <3>4. sizes = [b \in 1 .. n |-> RankedFromTotal(total, n)[b]]
      BY <2>1, <3>1 DEF RankedFromTotal
    <3>5. sizes \in [1 .. n -> Nat]
      BY <3>3, <3>4
    <3> QED
      BY <3>5, <1>2
  <2>4. Standard(layout) => sizes = layout
    BY <2>1, <2>2, <1>2, StandardRanked
  <2> QED
    BY <2>3, <2>4, <1>2 DEF Places
<1>6. CASE /\ ~(attrs # NoSizes /\ attrs.sizes # NoSizes /\ Len(attrs.sizes) = n)
           /\ ~(attrs # NoSizes /\ attrs.total # NoSizes /\ attrs.total >= 0)
  <2>1. n <= 1 /\ sizes = [b \in 1 .. n |-> BlockSize]
    BY <1>2, <1>6 DEF RankBlockSizes
  <2>2. sizes \in [1 .. n -> Nat]
    BY <2>1, RevisionsAssumption
  <2>3. sizes \in Seq(Nat) /\ Len(sizes) = n
    BY <2>2, <1>2
  <2>4. CASE n = 0
    <3>1. sizes = layout
      BY <2>3, <2>4, <1>1, <1>2, SeqEqual
    <3> QED
      BY <3>1, <2>3, <1>2 DEF Places
  <2>5. CASE n = 1
    <3>1. layout[1] \in 1 .. BlockSize /\ sizes[1] = BlockSize
      <4>1. 1 \in 1 .. Len(layout) /\ 1 \in 1 .. n
        BY <2>5, <1>2
      <4> QED
        BY <4>1, <2>1, ElementOfSeq
    <3>2. layout[1] <= sizes[1]
      BY <3>1, RevisionsAssumption
    <3> QED
      BY <3>2, <2>3, <2>5, <1>2 DEF Places
  <2> QED
    BY <2>1, <2>4, <2>5, <1>2
<1> QED
  BY <1>4, <1>5, <1>6

\* The text of a revision.
LEMMA TextIs ==
    ASSUME NEW layout \in Seq(Nat), NEW of \in Nat
    PROVE  Text(layout, of) \in Seq(Byte) /\ Len(Text(layout, of)) = Total(layout)
<1>1. PICK n \in Nat : n = Total(layout)
  BY TotalType
<1>2. Text(layout, of) = [k \in 1 .. n |-> <<of, k>>]
  BY <1>1 DEF Text
<1>3. Text(layout, of) \in [1 .. n -> Byte]
  BY <1>2 DEF Byte
<1> QED
  BY <1>1, <1>3

\* What is known of a layout.
LEMMA LayoutIs ==
    ASSUME NEW v \in RevisionRecord
    PROVE  v.layout \in Seq(1 .. BlockSize) /\ v.layout \in Seq(Nat) /\ v.content \in Nat
<1>1. v.layout \in Seq(1 .. BlockSize) /\ v.content \in Nat
  BY RevisionsAssumption DEF RevisionRecord, Layouts
<1>2. v.layout \in Seq(Nat)
  BY <1>1, RevisionsAssumption, SeqMonotonic
<1> QED
  BY <1>1, <1>2

\* One reader changes.
LEMMA OneReader ==
    ASSUME RevisionsInv, NEW r \in Reader, NEW new \in ReaderRecord, Pinned(new, revisions),
           reader' = [reader EXCEPT ![r] = new], UNCHANGED revisions
    PROVE  RevisionsInv'
<1>1. reader \in [Reader -> ReaderRecord] /\ revisions \in Seq(RevisionRecord) /\ Honest(revisions)
  BY DEF RevisionsInv, RevisionsTypes
<1>2. reader' \in [Reader -> ReaderRecord] /\ revisions' \in Seq(RevisionRecord) /\ Honest(revisions')
  BY <1>1
<1>3. ASSUME NEW q \in Reader PROVE Pinned(reader'[q], revisions')
  <2>1. reader'[q] = IF q = r THEN new ELSE reader[q]
    BY <1>1
  <2>2. Pinned(reader[q], revisions)
    BY DEF RevisionsInv
  <2> QED
    BY <2>1, <2>2
<1> QED
  BY <1>2, <1>3 DEF RevisionsInv, RevisionsTypes

\* The history goes on: what a revision has stays.
Goes(old, new) ==
    /\ new \in Seq(RevisionRecord) /\ Honest(new)
    /\ \A i \in 1 .. Len(old) :
          /\ i \in 1 .. Len(new) /\ new[i].layout = old[i].layout
          /\ new[i].attrs = old[i].attrs /\ new[i].content = old[i].content

LEMMA HistoryGoes ==
    ASSUME RevisionsInv, Goes(revisions, revisions'), UNCHANGED reader
    PROVE  RevisionsInv'
<1>1. reader' \in [Reader -> ReaderRecord] /\ revisions' \in Seq(RevisionRecord) /\ Honest(revisions')
  BY DEF RevisionsInv, RevisionsTypes, Goes
<1>2. ASSUME NEW q \in Reader PROVE Pinned(reader'[q], revisions')
  <2>1. Pinned(reader[q], revisions) /\ reader'[q] = reader[q]
    BY DEF RevisionsInv
  <2>2. CASE reader[q].at # "closed"
    <3>1. PICK i \in 1 .. Len(revisions) : i = reader[q].rev
      BY <2>1, <2>2 DEF Pinned
    <3>2. /\ i \in 1 .. Len(revisions') /\ revisions'[i].layout = revisions[i].layout
          /\ revisions'[i].attrs = revisions[i].attrs /\ revisions'[i].content = revisions[i].content
      BY <3>1 DEF Goes
    <3>3. Knows(reader[q], revisions[i].layout, revisions[i].attrs, revisions[i].content)
      BY <2>1, <2>2, <3>1 DEF Pinned
    <3> QED
      BY <2>1, <3>1, <3>2, <3>3 DEF Pinned
  <2>3. CASE reader[q].at = "closed"
    BY <2>1, <2>3 DEF Pinned
  <2> QED
    BY <2>2, <2>3
<1> QED
  BY <1>1, <1>2 DEF RevisionsInv, RevisionsTypes

LEMMA RevisionAdded ==
    ASSUME RevisionsInv, NEW l, NEW attrs, NEW of, AddRevision(l, attrs, of),
           l \in Layouts, attrs \in Attributes, Fits(l, attrs), of \in Nat
    PROVE  Goes(revisions, revisions')
<1>1. PICK n \in Nat : n = Len(revisions)
  BY DEF RevisionsInv, RevisionsTypes
<1>2. revisions \in [1 .. n -> RevisionRecord] /\ DOMAIN revisions = 1 .. n /\ Honest(revisions)
  BY <1>1 DEF RevisionsInv, RevisionsTypes
<1> DEFINE old == [i \in 1 .. n |-> IF i = Active THEN [revisions[i] EXCEPT !.state = "superseded"]
                                    ELSE revisions[i]]
<1>3. PICK new : new = Revision("active", l, attrs, of)
  OBVIOUS
<1>4. new \in RevisionRecord /\ new.layout = l /\ new.attrs = attrs
  BY <1>3 DEF Revision, RevisionRecord
<1>5. ASSUME NEW i \in 1 .. n
      PROVE  /\ old[i] \in RevisionRecord /\ old[i].layout = revisions[i].layout
             /\ old[i].attrs = revisions[i].attrs /\ old[i].content = revisions[i].content
  <2>1. PICK v \in RevisionRecord : v = revisions[i]
    BY <1>2
  <2>2. PICK w : w = [v EXCEPT !.state = "superseded"]
    OBVIOUS
  <2>3. w \in RevisionRecord /\ w.layout = v.layout /\ w.attrs = v.attrs /\ w.content = v.content
    BY <2>2 DEF RevisionRecord
  <2>4. old[i] = IF i = Active THEN w ELSE v
    BY <2>1, <2>2
  <2> QED
    BY <2>1, <2>3, <2>4
<1>6. old \in Seq(RevisionRecord) /\ Len(old) = n
  <2>1. old \in [1 .. n -> RevisionRecord]
    BY <1>5
  <2> QED
    BY <2>1, <1>1
<1>7. revisions' = Append(old, new)
  BY <1>2, <1>3 DEF AddRevision
<1> HIDE DEF old
<1>8. /\ revisions' \in Seq(RevisionRecord) /\ Len(revisions') = n + 1
      /\ \A i \in 1 .. n : revisions'[i] = old[i]
      /\ revisions'[n + 1] = new
  BY <1>1, <1>4, <1>6, <1>7
<1>9. ASSUME NEW i \in 1 .. n + 1 PROVE Fits(revisions'[i].layout, revisions'[i].attrs)
  <2>1. CASE i = n + 1
    BY <2>1, <1>4, <1>8
  <2>2. CASE i \in 1 .. n
    BY <2>2, <1>1, <1>2, <1>5, <1>8 DEF Honest
  <2> QED
    BY <2>1, <2>2, <1>1
<1> QED
  BY <1>1, <1>5, <1>8, <1>9 DEF Goes, Honest

LEMMA CommitKeeps ==
    ASSUME RevisionsInv, CommitRevision
    PROVE  RevisionsInv'
<1>1. PICK u \in Uploads : AddRevision(u.layout, u.attrs, Len(revisions) + 1)
  BY DEF CommitRevision
<1>2. /\ u.layout \in Layouts /\ u.attrs \in Attributes /\ Fits(u.layout, u.attrs)
      /\ Len(revisions) + 1 \in Nat
  BY RevisionsAssumption DEF Layouts, Attributes, RevisionsInv, RevisionsTypes
<1>3. Goes(revisions, revisions')
  BY <1>1, <1>2, RevisionAdded
<1> QED
  BY <1>3, HistoryGoes DEF CommitRevision, Others

LEMMA RestoreKeeps ==
    ASSUME RevisionsInv, NEW i \in 1 .. Len(revisions), ApplyRestore(i)
    PROVE  RevisionsInv'
<1>1. CASE revisions[i].state = "superseded"
  <2>1. AddRevision(revisions[i].layout, revisions[i].attrs, revisions[i].content) /\ UNCHANGED reader
    BY <1>1 DEF ApplyRestore
  <2>2. revisions[i] \in RevisionRecord /\ Fits(revisions[i].layout, revisions[i].attrs)
    BY DEF RevisionsInv, RevisionsTypes, Honest
  <2>3. revisions[i].layout \in Layouts /\ revisions[i].attrs \in Attributes /\ revisions[i].content \in Nat
    BY <2>2 DEF RevisionRecord
  <2>4. Goes(revisions, revisions')
    BY <2>1, <2>2, <2>3, RevisionAdded
  <2> QED
    BY <2>1, <2>4, HistoryGoes
<1>2. CASE revisions[i].state # "superseded"
  BY <1>2 DEF ApplyRestore, RevisionsInv, RevisionsTypes
<1> QED
  BY <1>1, <1>2

LEMMA DeleteKeeps ==
    ASSUME RevisionsInv, NEW i \in 1 .. Len(revisions), DeleteRevision(i)
    PROVE  RevisionsInv'
<1>1. PICK n \in Nat : n = Len(revisions)
  BY DEF RevisionsInv, RevisionsTypes
<1>2. revisions \in [1 .. n -> RevisionRecord] /\ Honest(revisions) /\ i \in 1 .. n
  BY <1>1 DEF RevisionsInv, RevisionsTypes
<1>3. PICK w : w = [revisions[i] EXCEPT !.state = "deleted"]
  OBVIOUS
<1>4. revisions' = [revisions EXCEPT ![i] = w] /\ UNCHANGED reader
  BY <1>3 DEF DeleteRevision, Others
<1>5. /\ w \in RevisionRecord /\ w.layout = revisions[i].layout /\ w.attrs = revisions[i].attrs
      /\ w.content = revisions[i].content
  <2>1. PICK v \in RevisionRecord : v = revisions[i]
    BY <1>2
  <2> QED
    BY <2>1, <1>3 DEF RevisionRecord
<1>6. revisions' \in [1 .. n -> RevisionRecord]
  BY <1>2, <1>4, <1>5
<1>7. revisions' \in Seq(RevisionRecord) /\ Len(revisions') = n
  BY <1>1, <1>6
<1>8. ASSUME NEW j \in 1 .. n
      PROVE  /\ revisions'[j].layout = revisions[j].layout /\ revisions'[j].attrs = revisions[j].attrs
             /\ revisions'[j].content = revisions[j].content
  <2>1. revisions'[j] = IF j = i THEN w ELSE revisions[j]
    BY <1>2, <1>4
  <2> QED
    BY <2>1, <1>5
<1>9. Honest(revisions')
  BY <1>1, <1>2, <1>7, <1>8 DEF Honest
<1>10. Goes(revisions, revisions')
  BY <1>1, <1>7, <1>8, <1>9 DEF Goes
<1> QED
  BY <1>4, <1>10, HistoryGoes

LEMMA OpenKeeps ==
    ASSUME RevisionsInv, NEW r \in Reader, NEW i \in 1 .. Len(revisions), NEW visitor \in BOOLEAN,
           OpenRevision(r, i, visitor)
    PROVE  RevisionsInv'
<1>1. PICK attrs : attrs = DetailAttrs(i)
  OBVIOUS
<1>2. attrs \in {NoSizes, revisions[i].attrs}
  BY <1>1 DEF DetailAttrs
<1>3. revisions[i] \in RevisionRecord /\ i \in Nat
  BY DEF RevisionsInv, RevisionsTypes
<1>4. attrs \in Attributes \cup {NoSizes}
  BY <1>2, <1>3 DEF RevisionRecord
<1>5. PICK new : new = [Closed EXCEPT !.at = "pinned", !.rev = i, !.visitor = visitor, !.attrs = attrs]
  OBVIOUS
<1>6. reader' = [reader EXCEPT ![r] = new] /\ UNCHANGED revisions
  BY <1>1, <1>5 DEF OpenRevision
<1>7. new = [at |-> "pinned", visitor |-> visitor, rev |-> i, attrs |-> attrs, sizes |-> <<>>,
             from |-> 0, to |-> 0, out |-> <<>>]
  BY <1>5 DEF Closed
<1>8. <<>> \in Seq(Nat) /\ <<>> \in Seq(Byte) /\ 0 \in Nat
  OBVIOUS
<1>9. new \in ReaderRecord
  BY <1>3, <1>4, <1>7, <1>8 DEF ReaderRecord
<1>10. new.at = "pinned" /\ new.rev = i /\ new.attrs = attrs
  BY <1>7
<1>11. Pinned(new, revisions)
  BY <1>2, <1>10 DEF Pinned, Knows
<1> QED
  BY <1>6, <1>9, <1>11, OneReader

\* A closed reader.
LEMMA ClosedIs ==
    Closed \in ReaderRecord /\ Closed.at = "closed"
<1>1. <<>> \in Seq(Nat) /\ <<>> \in Seq(Byte) /\ 0 \in Nat
  OBVIOUS
<1> QED
  BY <1>1 DEF Closed, ReaderRecord

LEMMA ListKeeps ==
    ASSUME RevisionsInv, NEW r \in Reader, ListBlocks(r)
    PROVE  RevisionsInv'
<1>1. PICK rd \in ReaderRecord : rd = reader[r]
  BY DEF RevisionsInv, RevisionsTypes
<1>2. rd.at = "pinned" /\ Pinned(rd, revisions)
  BY <1>1 DEF ListBlocks, RevisionsInv
<1>3. PICK i \in 1 .. Len(revisions) : i = rd.rev
  BY <1>2 DEF Pinned
<1>4. PICK rev \in RevisionRecord : rev = revisions[i]
  BY DEF RevisionsInv, RevisionsTypes
<1>5. rd.attrs \in {NoSizes, rev.attrs} /\ Fits(rev.layout, rev.attrs)
  BY <1>2, <1>3, <1>4 DEF Pinned, Knows, RevisionsInv, Honest
<1>6. PICK attrs \in {NoSizes, rev.attrs} :
         reader' = [reader EXCEPT ![r] =
             IF rev.state = "deleted" \/ RankBlockSizes(attrs, Len(rev.layout)) = NoSizes THEN Closed
             ELSE [reader[r] EXCEPT !.at = "open", !.sizes = RankBlockSizes(attrs, Len(rev.layout))]]
  <2>1. PICK attrs \in {rev.attrs} \cup (IF rd.visitor THEN {rd.attrs} ELSE {}) :
         reader' = [reader EXCEPT ![r] =
             IF rev.state = "deleted" \/ RankBlockSizes(attrs, Len(rev.layout)) = NoSizes THEN Closed
             ELSE [reader[r] EXCEPT !.at = "open", !.sizes = RankBlockSizes(attrs, Len(rev.layout))]]
    BY <1>1, <1>3, <1>4 DEF ListBlocks
  <2>2. attrs \in {NoSizes, rev.attrs}
    BY <2>1, <1>5
  <2> QED
    BY <2>1, <2>2
<1>7. PICK sizes : sizes = RankBlockSizes(attrs, Len(rev.layout))
  OBVIOUS
<1>8. UNCHANGED revisions
  BY DEF ListBlocks
<1>9. CASE rev.state = "deleted" \/ sizes = NoSizes
  <2>1. reader' = [reader EXCEPT ![r] = Closed]
    BY <1>6, <1>7, <1>9
  <2>2. Pinned(Closed, revisions)
    BY ClosedIs DEF Pinned
  <2> QED
    BY <2>1, <2>2, <1>8, ClosedIs, OneReader
<1>10. CASE ~(rev.state = "deleted" \/ sizes = NoSizes)
  <2>1. PICK new : new = [rd EXCEPT !.at = "open", !.sizes = sizes]
    OBVIOUS
  <2>2. reader' = [reader EXCEPT ![r] = new]
    BY <2>1, <1>1, <1>6, <1>7, <1>10
  <2>3. /\ sizes \in Seq(Nat) /\ Len(sizes) = Len(rev.layout)
        /\ Standard(rev.layout) \/ sizes = rev.layout => Places(sizes, rev.layout)
    <3>1. rev.layout \in Seq(1 .. BlockSize)
      BY LayoutIs
    <3> QED
      BY <3>1, <1>5, <1>6, <1>7, <1>10, RankedPlaces
  <2>4. new \in ReaderRecord /\ new.at = "open" /\ new.rev = i /\ new.sizes = sizes
    BY <2>1, <2>3, <1>3 DEF ReaderRecord
  <2>5. Pinned(new, revisions)
    BY <2>3, <2>4, <1>4 DEF Pinned, Knows
  <2> QED
    BY <2>2, <2>4, <2>5, <1>8, OneReader
<1> QED
  BY <1>9, <1>10

\* An open reader hands out some bytes.
LEMMA ReadOut ==
    ASSUME RevisionsInv, NEW r \in Reader, reader[r].at = "open", NEW from \in Nat, NEW to \in Nat,
           NEW out \in Seq(Byte), NEW i \in 1 .. Len(revisions), i = reader[r].rev,
           NEW layout, layout = revisions[i].layout,
           Places(reader[r].sizes, layout) =>
               IsPiece(out, Text(layout, revisions[i].content), from, Least(to, Total(layout))),
           reader' = [reader EXCEPT ![r] =
                        [reader[r] EXCEPT !.at = "read", !.from = from, !.to = to, !.out = out]],
           UNCHANGED revisions
    PROVE  RevisionsInv'
<1>1. PICK rd \in ReaderRecord : rd = reader[r]
  BY DEF RevisionsInv, RevisionsTypes
<1>2. Pinned(rd, revisions) /\ rd.at = "open" /\ rd.rev = i
  BY <1>1 DEF RevisionsInv
<1>3. /\ Len(rd.sizes) = Len(layout)
      /\ Standard(layout) \/ rd.sizes = layout => Places(rd.sizes, layout)
  BY <1>2 DEF Pinned, Knows
<1>4. PICK new : new = [rd EXCEPT !.at = "read", !.from = from, !.to = to, !.out = out]
  OBVIOUS
<1>5. reader' = [reader EXCEPT ![r] = new]
  BY <1>1, <1>4
<1>6. /\ new \in ReaderRecord /\ new.at = "read" /\ new.rev = i /\ new.sizes = rd.sizes
      /\ new.from = from /\ new.to = to /\ new.out = out
  BY <1>2, <1>4 DEF ReaderRecord
<1>7. Knows(new, layout, revisions[i].attrs, revisions[i].content)
  BY <1>1, <1>3, <1>6 DEF Knows
<1>8. Pinned(new, revisions)
  BY <1>6, <1>7 DEF Pinned
<1> QED
  BY <1>5, <1>6, <1>8, OneReader

\* What a reader has to read from.
LEMMA OpenOn ==
    ASSUME RevisionsInv, NEW r \in Reader, reader[r].at = "open"
    PROVE  \E i \in 1 .. Len(revisions), text \in Seq(Byte), layout \in Seq(Nat) :
              /\ i = reader[r].rev /\ layout = revisions[i].layout
              /\ text = Text(layout, revisions[i].content) /\ Len(text) = Total(layout)
              /\ BlocksOf(i) = Pieces(text, layout)
              /\ reader[r].sizes \in Seq(Nat) /\ Len(reader[r].sizes) = Len(layout)
<1>1. PICK rd \in ReaderRecord : rd = reader[r]
  BY DEF RevisionsInv, RevisionsTypes
<1>2. Pinned(rd, revisions) /\ rd.at = "open" /\ rd.sizes \in Seq(Nat)
  BY <1>1 DEF RevisionsInv, ReaderRecord
<1>3. PICK i \in 1 .. Len(revisions) : i = rd.rev
  BY <1>2 DEF Pinned
<1>4. revisions[i] \in RevisionRecord
  BY DEF RevisionsInv, RevisionsTypes
<1>5. PICK layout \in Seq(Nat) : layout = revisions[i].layout
  BY <1>4, LayoutIs
<1>6. Len(rd.sizes) = Len(layout)
  BY <1>2, <1>3, <1>5 DEF Pinned, Knows
<1>7. PICK text : text = Text(layout, revisions[i].content)
  OBVIOUS
<1>8. text \in Seq(Byte) /\ Len(text) = Total(layout)
  BY <1>4, <1>5, <1>7, LayoutIs, TextIs
<1>9. BlocksOf(i) = Pieces(text, layout)
  BY <1>5, <1>7 DEF BlocksOf, Content
<1> QED
  BY <1>1, <1>2, <1>3, <1>5, <1>6, <1>7, <1>8, <1>9

LEMMA ReadKeeps ==
    ASSUME RevisionsInv, NEW r \in Reader, NEW offset \in Nat, NEW length \in Nat, ReadAt(r, offset, length)
    PROVE  RevisionsInv'
<1>1. reader[r].at = "open" /\ UNCHANGED revisions
  BY DEF ReadAt
<1>2. PICK i \in 1 .. Len(revisions), text \in Seq(Byte), layout \in Seq(Nat) :
              /\ i = reader[r].rev /\ layout = revisions[i].layout
              /\ text = Text(layout, revisions[i].content) /\ Len(text) = Total(layout)
              /\ BlocksOf(i) = Pieces(text, layout)
              /\ reader[r].sizes \in Seq(Nat) /\ Len(reader[r].sizes) = Len(layout)
  BY <1>1, OpenOn
<1>3. PICK sizes \in Seq(Nat) : sizes = reader[r].sizes
  BY <1>2
<1>4. PICK out : out = BytesAt(Pieces(text, layout), sizes, offset, length)
  OBVIOUS
<1>5. out \in Seq(Byte)
  <2>1. Pieces(text, layout) \in Seq(Seq(Byte)) /\ Len(Pieces(text, layout)) = Len(sizes)
    BY <1>2, <1>3, PiecesAre
  <2> QED
    BY <2>1, <1>4, BytesType
<1>6. Places(sizes, layout) => IsPiece(out, text, offset, Least(offset + length, Total(layout)))
  BY <1>2, <1>4, BytesAre
<1>7. CASE revisions[i].state = "deleted" /\ length # 0 /\ offset < FileSize(r)
  <2>1. reader' = [reader EXCEPT ![r] = Closed]
    BY <1>2, <1>7 DEF ReadAt
  <2>2. Pinned(Closed, revisions)
    BY ClosedIs DEF Pinned
  <2> QED
    BY <2>1, <2>2, <1>1, ClosedIs, OneReader
<1>8. CASE ~(revisions[i].state = "deleted" /\ length # 0 /\ offset < FileSize(r))
  <2>1. reader' = [reader EXCEPT ![r] =
             [reader[r] EXCEPT !.at = "read", !.from = offset, !.to = offset + length, !.out = out]]
    BY <1>2, <1>3, <1>4, <1>8 DEF ReadAt
  <2>2. PICK to \in Nat : to = offset + length
    OBVIOUS
  <2>3. Places(reader[r].sizes, layout) =>
          IsPiece(out, Text(layout, revisions[i].content), offset, Least(to, Total(layout)))
    BY <2>2, <1>2, <1>3, <1>6
  <2>4. reader' = [reader EXCEPT ![r] =
             [reader[r] EXCEPT !.at = "read", !.from = offset, !.to = to, !.out = out]]
    BY <2>1, <2>2
  <2> QED
    BY <2>3, <2>4, <1>1, <1>2, <1>5, ReadOut
<1> QED
  BY <1>7, <1>8

LEMMA DownloadKeeps ==
    ASSUME RevisionsInv, NEW r \in Reader, DownloadRevision(r)
    PROVE  RevisionsInv'
<1>1. reader[r].at = "open" /\ UNCHANGED revisions
  BY DEF DownloadRevision
<1>2. PICK i \in 1 .. Len(revisions), text \in Seq(Byte), layout \in Seq(Nat) :
              /\ i = reader[r].rev /\ layout = revisions[i].layout
              /\ text = Text(layout, revisions[i].content) /\ Len(text) = Total(layout)
              /\ BlocksOf(i) = Pieces(text, layout)
              /\ reader[r].sizes \in Seq(Nat) /\ Len(reader[r].sizes) = Len(layout)
  BY <1>1, OpenOn
<1>3. PICK sizes \in Seq(Nat) : sizes = reader[r].sizes
  BY <1>2
<1>4. PICK out : out = Downloaded(Pieces(text, layout), sizes)
  OBVIOUS
<1>5. PICK size \in Nat : size = Total(sizes)
  BY TotalType
<1>6. out \in Seq(Byte)
  <2>1. PICK blocks : blocks = Pieces(text, layout)
    OBVIOUS
  <2>2. blocks \in Seq(Seq(Byte)) /\ Len(blocks) = Len(sizes)
    BY <2>1, <1>2, <1>3, PiecesAre
  <2>3. PICK rounds : DownloadedBy(rounds, Byte, blocks, sizes)
    BY <2>2, DownloadedIs
  <2>4. rounds \in [0 .. size -> Seq(Byte)] /\ out = rounds[size] /\ size \in 0 .. size
    BY <2>1, <2>3, <1>4, <1>5 DEF DownloadedBy
  <2> QED
    BY <2>4
<1>7. Places(sizes, layout) => IsPiece(out, text, 0, Least(size, Total(layout)))
  BY <1>2, <1>4, <1>5, DownloadedAll
<1>8. CASE revisions[i].state = "deleted" /\ FileSize(r) # 0
  <2>1. reader' = [reader EXCEPT ![r] = Closed]
    BY <1>2, <1>8 DEF DownloadRevision
  <2>2. Pinned(Closed, revisions)
    BY ClosedIs DEF Pinned
  <2> QED
    BY <2>1, <2>2, <1>1, ClosedIs, OneReader
<1>9. CASE ~(revisions[i].state = "deleted" /\ FileSize(r) # 0)
  <2>1. reader' = [reader EXCEPT ![r] =
             [reader[r] EXCEPT !.at = "read", !.from = 0, !.to = size, !.out = out]]
    BY <1>2, <1>3, <1>4, <1>5, <1>9 DEF DownloadRevision, FileSize
  <2>2. Places(reader[r].sizes, layout) =>
          IsPiece(out, Text(layout, revisions[i].content), 0, Least(size, Total(layout)))
    BY <1>2, <1>3, <1>7
  <2> QED
    BY <2>1, <2>2, <1>1, <1>2, <1>5, <1>6, ReadOut
<1> QED
  BY <1>8, <1>9

LEMMA AgainKeeps ==
    ASSUME RevisionsInv, NEW r \in Reader, ReadAgain(r)
    PROVE  RevisionsInv'
<1>1. PICK rd \in ReaderRecord : rd = reader[r]
  BY DEF RevisionsInv, RevisionsTypes
<1>2. Pinned(rd, revisions) /\ rd.at = "read" /\ UNCHANGED revisions
  BY <1>1 DEF ReadAgain, RevisionsInv
<1>3. PICK new : new = [rd EXCEPT !.at = "open", !.out = <<>>]
  OBVIOUS
<1>4. reader' = [reader EXCEPT ![r] = new]
  BY <1>1, <1>3 DEF ReadAgain, RevisionsInv, RevisionsTypes
<1>5. new \in ReaderRecord /\ new.at = "open" /\ new.rev = rd.rev /\ new.sizes = rd.sizes
  <2>1. <<>> \in Seq(Byte)
    OBVIOUS
  <2> QED
    BY <2>1, <1>3 DEF ReaderRecord
<1>6. Pinned(new, revisions)
  BY <1>2, <1>5 DEF Pinned, Knows
<1> QED
  BY <1>2, <1>4, <1>5, <1>6, OneReader

LEMMA RevisionsStart ==
    RevisionsInit => RevisionsInv
<1> SUFFICES ASSUME RevisionsInit PROVE RevisionsInv
  OBVIOUS
<1>1. PICK u \in Uploads : revisions = <<Revision("active", u.layout, u.attrs, 1)>>
  BY DEF RevisionsInit
<1>2. PICK v : v = Revision("active", u.layout, u.attrs, 1)
  OBVIOUS
<1>3. v \in RevisionRecord /\ Fits(v.layout, v.attrs)
  BY <1>2, RevisionsAssumption DEF Revision, RevisionRecord, Layouts, Attributes
<1>4. revisions \in Seq(RevisionRecord) /\ Len(revisions) = 1 /\ revisions[1] = v
  BY <1>1, <1>2, <1>3
<1>5. Honest(revisions)
  BY <1>3, <1>4 DEF Honest
<1>6. reader = [r \in Reader |-> Closed]
  BY DEF RevisionsInit
<1>7. reader \in [Reader -> ReaderRecord] /\ \A r \in Reader : Pinned(reader[r], revisions)
  BY <1>6, ClosedIs DEF Pinned
<1> QED
  BY <1>4, <1>5, <1>7 DEF RevisionsInv, RevisionsTypes

LEMMA RevisionsStep ==
    RevisionsInv /\ [RevisionsNext]_revisionVars => RevisionsInv'
<1> SUFFICES ASSUME RevisionsInv, [RevisionsNext]_revisionVars PROVE RevisionsInv'
  OBVIOUS
<1>1. DOMAIN revisions = 1 .. Len(revisions)
  BY DEF RevisionsInv, RevisionsTypes
<1>2. CASE UNCHANGED <<revisions, reader>>
  BY <1>2 DEF RevisionsInv, RevisionsTypes
<1>3. CASE CommitRevision
  BY <1>3, CommitKeeps
<1>4. CASE CacheNode
  BY <1>2, <1>4 DEF CacheNode
<1>5. ASSUME NEW i \in DOMAIN revisions, RestoreRevision(i) \/ ApplyRestore(i) \/ DeleteRevision(i)
      PROVE  RevisionsInv'
  <2>1. i \in 1 .. Len(revisions)
    BY <1>1
  <2>2. CASE RestoreRevision(i)
    BY <2>2, <1>2 DEF RestoreRevision
  <2> QED
    BY <2>1, <2>2, <1>5, RestoreKeeps, DeleteKeeps
<1>6. ASSUME NEW r \in Reader, NEW visitor \in BOOLEAN, NEW i \in DOMAIN revisions,
             OpenRevision(r, i, visitor)
      PROVE  RevisionsInv'
  BY <1>1, <1>6, OpenKeeps
<1>7. ASSUME NEW r \in Reader, ListBlocks(r) \/ ReadAgain(r) \/ DownloadRevision(r)
      PROVE  RevisionsInv'
  BY <1>7, ListKeeps, AgainKeeps, DownloadKeeps
<1>8. ASSUME NEW r \in Reader, NEW range \in Ranges, ReadAt(r, range[1], range[2])
      PROVE  RevisionsInv'
  <2>1. range[1] \in Nat /\ range[2] \in Nat
    BY RevisionsAssumption
  <2> QED
    BY <2>1, <1>8, ReadKeeps
<1> QED
  BY <1>2, <1>3, <1>4, <1>5, <1>6, <1>7, <1>8 DEF RevisionsNext, revisionVars

\* A read of a pinned revision, and a download of it, hand out exactly the bytes in the
\* range, whatever the number and sizes of its blocks, the attributes recorded of them
\* and what became of the file since, as far as sizes can be had at all.
THEOREM ReadsAlwaysSlices == RevisionsSpec => []ReadsAreSlices
<1>1. RevisionsInv => ReadsAreSlices
  <2> SUFFICES ASSUME RevisionsInv, NEW r \in Reader, reader[r].at = "read",
                      \/ Standard(revisions[reader[r].rev].layout)
                      \/ reader[r].sizes = revisions[reader[r].rev].layout
               PROVE  reader[r].out = SubSeq(Content(reader[r].rev), reader[r].from + 1,
                          IF reader[r].to < Total(revisions[reader[r].rev].layout) THEN reader[r].to
                          ELSE Total(revisions[reader[r].rev].layout))
    BY DEF ReadsAreSlices
  <2>1. PICK i : i = reader[r].rev
    OBVIOUS
  <2>2. Knows(reader[r], revisions[i].layout, revisions[i].attrs, revisions[i].content)
    BY <2>1 DEF RevisionsInv, Pinned
  <2>3. IsPiece(reader[r].out, Content(i), reader[r].from, Least(reader[r].to, Total(revisions[i].layout)))
    BY <2>1, <2>2 DEF Knows, Content
  <2> QED
    BY <2>1, <2>3 DEF IsPiece, Least
<1> QED
  BY <1>1, RevisionsStart, RevisionsStep, PTL DEF RevisionsSpec

-----------------------------------------------------------------------------
(* The parts together.                                                     *)

\* A run of the composition is a run of each part, so what is proved of a part holds
\* of it in the composition.
THEOREM ReadsImplementsParts ==
    ReadsSpec => /\ WalkSpec /\ BootSpec /\ PathSpec /\ PagingSpec /\ VisitorSpec /\ ThumbSpec
                 /\ RevisionsSpec /\ LookupSpec /\ AccountSpec
<1>1. ReadsInit => /\ WalkInit /\ BootInit /\ PathInit /\ PagingInit /\ VisitorInit /\ ThumbInit
                   /\ RevisionsInit /\ LookupInit /\ AccountInit
  BY DEF ReadsInit
<1>2. [ReadsNext]_readsVars =>
         /\ [WalkNext]_walkVars /\ [BootNext]_bootVars /\ [PathNext]_pathVars
         /\ [PagingNext]_pagingVars /\ [VisitorNext]_visitorVars /\ [ThumbNext]_thumbVars
         /\ [RevisionsNext]_revisionVars /\ [LookupNext]_lookupVars /\ [AccountNext]_accountVars
  BY DEF ReadsNext, readsVars
<1> QED
  BY <1>1, <1>2, PTL DEF ReadsSpec, WalkSpec, BootSpec, PathSpec, PagingSpec, VisitorSpec,
                         ThumbSpec, RevisionsSpec, LookupSpec, AccountSpec
=============================================================================
