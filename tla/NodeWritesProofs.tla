-------------------------- MODULE NodeWritesProofs --------------------------
(***************************************************************************)
(* Proofs about the calls that change the tree, for any number of uploads, *)
(* calls, sessions, photos and devices: uploads that fight over a draft    *)
(* tell the truth, batches of moves and deletions report what they did and *)
(* undo no rename of others, nobody is invited twice, URLs that were       *)
(* handed out stay good, photos survive the deletion of their album and    *)
(* are all accounted for by a transfer, device names stay readable.        *)
(***************************************************************************)
EXTENDS NodeWrites, OrderLemmas, FiniteSetTheorems, SequenceTheorems, TLAPS

-----------------------------------------------------------------------------
(* Uploads of one file name.                                               *)

Ops == {"small", "create", "delete", "seal"}
UpcStates == UploadRunning \cup {"idle", "ok", "failed", "exhausted"}
UploadRec == [kind : {"file", "revision"}, session : Session \cup {"nobody"},
              override : BOOLEAN, small : BOOLEAN]
RequestRec == [op : Ops, by : Upload, base : Nat, id : Nat, copy : Nat]
DraftRec == [id : Nat, owner : Session \cup {"nobody"}]
CommitRec == [by : Upload, id : Nat]
KilledRec == [owner : Session \cup {"nobody"}, by : Upload]

ServerTypes ==
    /\ history \in Seq(CommitRec) /\ opened \in Nat /\ openDraft \in DraftRec
    /\ killed \subseteq KilledRec
ClientTypes ==
    /\ upload \in [Upload -> UploadRec] /\ upc \in [Upload -> UpcStates]
    /\ baseOf \in [Upload -> Nat] /\ mine \in [Upload -> Nat]
    /\ late \subseteq RequestRec /\ losses \in Nat

\* The server numbers its drafts: what is open or was sealed has a number given out,
\* and no number is sealed twice or open again.
DraftIds ==
    /\ openDraft.id <= opened /\ (openDraft = NoDraft \/ openDraft.id # 0)
    /\ \A x \in DOMAIN history :
          history[x].id <= opened /\ (history[x].id # 0 => history[x].id # openDraft.id)
    /\ \A x, y \in DOMAIN history : history[x].id = history[y].id /\ history[x].id # 0 => x = y

\* Upload u seals the draft id, has sealed it or given up on it; it works on no other.
AtSeal == {"seal", "ok", "failed"}
Sealing(u, id) == upc[u] \in AtSeal /\ mine[u] = id

MayDelete(u, owner) == owner = upload[u].session \/ upload[u].override

\* A delete of draft id by u: if that draft is open, u may delete it.
DeleteOk(u, id) ==
    id <= opened /\ (openDraft # NoDraft /\ openDraft.id = id => MayDelete(u, openDraft.owner))

\* A request that was sent.
RequestOk(m) ==
    /\ upc[m.by] # "idle"
    /\ m.op = "seal" => Sealing(m.by, m.id)
    /\ m.op = "delete" => DeleteOk(m.by, m.id)

FileInv ==
    /\ ServerTypes /\ ClientTypes /\ DraftIds
    /\ \A x \in DOMAIN history : history[x].id # 0 => Sealing(history[x].by, history[x].id)
    /\ \A m \in late : RequestOk(m)
    /\ \A u \in Upload : upc[u] = "delete" => DeleteOk(u, mine[u])
    /\ \A k \in killed : upc[k.by] # "idle" /\ MayDelete(k.by, k.owner)
    /\ \A u \in Upload : upc[u] = "ok" => \E x \in DOMAIN history : history[x].by = u

\* What a request that is applied does to the server.
NewCommits(m) ==
    /\ \A x \in DOMAIN history : x \in DOMAIN history' /\ history'[x] = history[x]
    /\ \A x \in DOMAIN history' :
          \/ x \in DOMAIN history
          \/ /\ history'[x].by = m.by
             /\ history'[x].id # 0 => m.op = "seal" /\ history'[x].id = m.id
    /\ m.op \in {"small", "seal"} => \E x \in DOMAIN history' : history'[x].by = m.by
NewDraft ==
    /\ opened <= opened'
    /\ openDraft' = openDraft \/ openDraft' = NoDraft \/ openDraft'.id > opened
NewKilled(m) ==
    \A k \in killed' :
        \/ k \in killed
        \/ /\ m.op = "delete" /\ openDraft # NoDraft /\ openDraft.id = m.id
           /\ k.by = m.by /\ k.owner = openDraft.owner
Effect(m) == ServerTypes' /\ DraftIds' /\ NewCommits(m) /\ NewDraft /\ NewKilled(m)

\* The commit of a request at the end of the history.
LEMMA CommitLast ==
    ASSUME ServerTypes, NEW m \in RequestRec, CommitOn(m)
    PROVE  /\ history' \in Seq(CommitRec) /\ DOMAIN history' = DOMAIN history \cup {Len(history) + 1}
           /\ Len(history) \in Nat /\ DOMAIN history = 1 .. Len(history)
           /\ \A x \in DOMAIN history : history'[x] = history[x]
           /\ history'[Len(history) + 1].by = m.by
           /\ history'[Len(history) + 1].id = IF m.op = "seal" THEN m.id ELSE 0
<1>1. PICK h \in Seq(CommitRec) : h = history
  BY DEF ServerTypes
<1>2. PICK new : new = [by |-> m.by, id |-> IF m.op = "seal" THEN m.id ELSE 0]
  OBVIOUS
<1>3. new \in CommitRec /\ new.by = m.by /\ new.id = IF m.op = "seal" THEN m.id ELSE 0
  BY <1>2 DEF CommitRec, RequestRec
<1>4. history' = Append(h, new)
  BY <1>1, <1>2 DEF CommitOn
<1>5. /\ Append(h, new) \in Seq(CommitRec) /\ Len(Append(h, new)) = Len(h) + 1
      /\ \A x \in 1 .. Len(h) : Append(h, new)[x] = h[x]
      /\ Append(h, new)[Len(h) + 1] = new
  BY <1>3, AppendProperties
<1>6. Len(h) \in Nat /\ DOMAIN h = 1 .. Len(h) /\ DOMAIN Append(h, new) = 1 .. (Len(h) + 1)
  BY <1>5
<1>7. 1 .. (Len(h) + 1) = (1 .. Len(h)) \cup {Len(h) + 1}
  BY <1>6
<1> QED
  BY <1>1, <1>3, <1>4, <1>5, <1>6, <1>7

LEMMA Applied ==
    ASSUME ServerTypes, upload \in [Upload -> UploadRec], DraftIds, NEW m \in RequestRec,
           Appliable(m), ApplyOn(m)
    PROVE  Effect(m)
<1>0. openDraft.id \in Nat /\ opened \in Nat /\ m.id \in Nat /\ NoDraft.id = 0
      /\ NoDraft \in DraftRec
      /\ \A x \in DOMAIN history : history[x].id \in Nat
  <2>1. \A x \in DOMAIN history : history[x] \in CommitRec
    BY DEF ServerTypes
  <2>2. NoDraft \in DraftRec /\ NoDraft.id = 0
    BY DEF NoDraft, DraftRec
  <2> QED
    BY <2>1, <2>2 DEF ServerTypes, DraftRec, RequestRec, CommitRec
<1>1. CASE m.op = "create"
  <2>1. /\ openDraft' = [id |-> opened + 1, owner |-> upload[m.by].session]
        /\ opened' = opened + 1 /\ history' = history /\ killed' = killed
    BY <1>1 DEF ApplyOn
  <2>2. ServerTypes'
    BY <2>1, <1>0 DEF ServerTypes, DraftRec, RequestRec, UploadRec
  <2>3. openDraft'.id = opened + 1
    BY <2>1
  <2>4. DraftIds'
    BY <1>0, <2>1, <2>3 DEF DraftIds
  <2> QED
    BY <1>0, <1>1, <2>1, <2>2, <2>3, <2>4 DEF Effect, NewCommits, NewDraft, NewKilled
<1>2. CASE m.op = "small"
  <2>1. CommitOn(m) /\ openDraft' = openDraft /\ opened' = opened /\ killed' = killed
    BY <1>2 DEF ApplyOn
  <2>2. /\ history' \in Seq(CommitRec) /\ DOMAIN history' = DOMAIN history \cup {Len(history) + 1}
        /\ Len(history) \in Nat /\ DOMAIN history = 1 .. Len(history)
        /\ \A x \in DOMAIN history : history'[x] = history[x]
        /\ history'[Len(history) + 1].by = m.by
        /\ history'[Len(history) + 1].id = 0
    BY <1>2, <2>1, CommitLast
  <2>3. ServerTypes'
    BY <2>1, <2>2 DEF ServerTypes
  <2>4. DraftIds'
    BY <1>0, <2>1, <2>2 DEF DraftIds
  <2> QED
    BY <1>0, <1>2, <2>1, <2>2, <2>3, <2>4 DEF Effect, NewCommits, NewDraft, NewKilled
<1>3. CASE m.op = "seal"
  <2>1. CommitOn(m) /\ openDraft' = NoDraft /\ opened' = opened /\ killed' = killed
        /\ openDraft # NoDraft /\ openDraft.id = m.id
    BY <1>3 DEF ApplyOn, Appliable
  <2>2. /\ history' \in Seq(CommitRec) /\ DOMAIN history' = DOMAIN history \cup {Len(history) + 1}
        /\ Len(history) \in Nat /\ DOMAIN history = 1 .. Len(history)
        /\ \A x \in DOMAIN history : history'[x] = history[x]
        /\ history'[Len(history) + 1].by = m.by
        /\ history'[Len(history) + 1].id = m.id
    BY <1>3, <2>1, CommitLast
  <2>3. ServerTypes'
    BY <1>0, <2>1, <2>2 DEF ServerTypes
  <2>4. DraftIds'
    BY <1>0, <2>1, <2>2 DEF DraftIds
  <2> QED
    BY <1>0, <1>3, <2>1, <2>2, <2>3, <2>4 DEF Effect, NewCommits, NewDraft, NewKilled
<1>4. CASE m.op = "delete"
  <2>1. /\ openDraft' = NoDraft /\ opened' = opened /\ history' = history
        /\ killed' = killed \cup {[owner |-> openDraft.owner, by |-> m.by]}
        /\ openDraft # NoDraft /\ openDraft.id = m.id
    BY <1>4 DEF ApplyOn, Appliable
  <2>2. ServerTypes'
    BY <1>0, <2>1 DEF ServerTypes, DraftRec, RequestRec, KilledRec
  <2>3. DraftIds'
    BY <1>0, <2>1 DEF DraftIds
  <2>4. NewKilled(m)
    BY <1>4, <2>1 DEF NewKilled
  <2> QED
    BY <1>0, <1>4, <2>1, <2>2, <2>3, <2>4 DEF Effect, NewCommits, NewDraft
<1> QED
  BY <1>1, <1>2, <1>3, <1>4 DEF RequestRec, Ops

\* How the client side of a step moves: no upload starts anew or changes what it may
\* delete, one that seals stays with its draft; new deletes are of the open draft, new
\* requests are those of the uploads, new successes have their commit.
Advances ==
    \A u \in Upload :
        /\ upc'[u] = "idle" => upc[u] = "idle"
        /\ upc[u] \in AtSeal => upc'[u] \in AtSeal /\ mine'[u] = mine[u]
        /\ upc[u] # "idle" => /\ upload'[u].session = upload[u].session
                              /\ upload'[u].override = upload[u].override
NewDeletes ==
    \A u \in Upload : upc'[u] = "delete" =>
        \/ upc[u] = "delete" /\ mine'[u] = mine[u]
        \/ /\ upc[u] # "idle" /\ mine'[u] = openDraft.id /\ openDraft' = openDraft
           /\ MayDelete(u, openDraft.owner)
NewLate == \A m \in late' : m \in late \/ \E u \in Upload : m = RequestOf(u) /\ upc[u] \in Ops
NewOk == \A u \in Upload :
    upc'[u] = "ok" => upc[u] = "ok" \/ \E x \in DOMAIN history' : history'[x].by = u
ClientMoves == ClientTypes' /\ Advances /\ NewDeletes /\ NewLate /\ NewOk

\* The request of an upload is in order.
LEMMA RequestOfOk ==
    ASSUME FileInv, NEW u \in Upload, upc[u] \in Ops
    PROVE  RequestOf(u) \in RequestRec /\ RequestOk(RequestOf(u))
<1>1. /\ RequestOf(u).op = upc[u] /\ RequestOf(u).by = u /\ RequestOf(u).id = mine[u]
  BY DEF RequestOf
<1>2. RequestOf(u) \in RequestRec
  BY DEF FileInv, ClientTypes, RequestOf, RequestRec
<1> QED
  BY <1>1, <1>2 DEF FileInv, RequestOk, Sealing, AtSeal, Ops

\* A step in which the server applies a request that was in order, or stays as it is.
LEMMA FileKept ==
    ASSUME FileInv, ClientMoves,
           \/ UNCHANGED <<history, openDraft, opened, killed>>
           \/ \E m \in RequestRec : RequestOk(m) /\ Effect(m)
    PROVE  FileInv'
<1>0. /\ openDraft.id \in Nat /\ opened \in Nat /\ opened' \in Nat
      /\ openDraft' \in DraftRec /\ openDraft'.id \in Nat
  BY DEF FileInv, ServerTypes, DraftRec, Effect
<1>1. ServerTypes' /\ DraftIds' /\ NewDraft
  BY <1>0 DEF FileInv, ServerTypes, DraftIds, NewDraft, Effect
<1>2. ASSUME NEW u \in Upload, NEW id, Sealing(u, id) PROVE Sealing(u, id)'
  BY <1>2 DEF ClientMoves, Advances, Sealing
<1>3. ASSUME NEW u \in Upload, NEW owner, upc[u] # "idle", MayDelete(u, owner)
      PROVE  MayDelete(u, owner)'
  BY <1>3 DEF ClientMoves, Advances, MayDelete
<1>4. ASSUME NEW u \in Upload, NEW id \in Nat, upc[u] # "idle", DeleteOk(u, id)
      PROVE  DeleteOk(u, id)'
  <2>1. id <= opened'
    BY <1>0, <1>1, <1>4 DEF DeleteOk, NewDraft
  <2>2. ASSUME openDraft' # NoDraft, openDraft'.id = id PROVE openDraft' = openDraft
    BY <1>0, <1>1, <1>4, <2>2 DEF DeleteOk, NewDraft
  <2> QED
    BY <1>3, <1>4, <2>1, <2>2 DEF DeleteOk
<1>5. (\A x \in DOMAIN history :
         history[x].id # 0 => Sealing(history[x].by, history[x].id))'
  <2>1. ASSUME NEW x \in DOMAIN history', history'[x].id # 0
        PROVE  Sealing(history'[x].by, history'[x].id) /\ history'[x].by \in Upload
    <3>1. history'[x] \in CommitRec
      BY <1>1 DEF ServerTypes
    <3>2. history'[x].by \in Upload
      BY <3>1 DEF CommitRec
    <3>3. CASE UNCHANGED <<history, openDraft, opened, killed>>
      BY <2>1, <3>2, <3>3 DEF FileInv
    <3>4. ASSUME NEW m \in RequestRec, RequestOk(m), Effect(m)
          PROVE  Sealing(history'[x].by, history'[x].id)
      BY <2>1, <3>4 DEF FileInv, Effect, NewCommits, RequestOk
    <3> QED
      BY <3>2, <3>3, <3>4
  <2>2. ASSUME NEW x \in DOMAIN history', history'[x].id # 0
        PROVE  upc'[history'[x].by] \in AtSeal /\ mine'[history'[x].by] = history'[x].id
    <3>1. PICK u \in Upload : u = history'[x].by
      BY <2>1, <2>2
    <3>2. PICK id : id = history'[x].id
      OBVIOUS
    <3>3. Sealing(u, id)
      BY <2>1, <2>2, <3>1, <3>2
    <3>4. upc'[u] \in AtSeal /\ mine'[u] = id
      BY <1>2, <3>3 DEF Sealing
    <3> QED
      BY <3>1, <3>2, <3>4
  <2> QED
    BY <2>2 DEF Sealing
<1>6. \A m \in late' : RequestOk(m)'
  <2>1. ASSUME NEW m \in late' PROVE m \in RequestRec /\ RequestOk(m)
    <3>1. CASE m \in late
      BY <3>1 DEF FileInv, ClientTypes
    <3>2. ASSUME NEW u \in Upload, m = RequestOf(u), upc[u] \in Ops
          PROVE  m \in RequestRec /\ RequestOk(m)
      BY <3>2, RequestOfOk
    <3> QED
      BY <3>1, <3>2 DEF ClientMoves, NewLate
  <2>2. ASSUME NEW m \in RequestRec, RequestOk(m) PROVE RequestOk(m)'
    <3>1. m.by \in Upload /\ m.id \in Nat
      BY DEF RequestRec
    <3>2. upc'[m.by] # "idle" /\ upc[m.by] # "idle"
      BY <2>2, <3>1 DEF RequestOk, ClientMoves, Advances
    <3>3. (m.op = "seal" => Sealing(m.by, m.id)') /\ (m.op = "delete" => DeleteOk(m.by, m.id)')
      BY <1>2, <1>4, <2>2, <3>1, <3>2 DEF RequestOk
    <3> QED
      BY <3>2, <3>3 DEF RequestOk
  <2> QED
    BY <2>1, <2>2
<1>7. \A u \in Upload : upc'[u] = "delete" => DeleteOk(u, mine[u])'
  <2> SUFFICES ASSUME NEW u \in Upload, upc'[u] = "delete" PROVE DeleteOk(u, mine[u])'
    OBVIOUS
  <2>1. CASE upc[u] = "delete" /\ mine'[u] = mine[u]
    <3>1. DeleteOk(u, mine[u]) /\ mine[u] \in Nat
      BY <2>1 DEF FileInv, ClientTypes
    <3>2. PICK id \in Nat : id = mine[u] /\ id = mine'[u]
      BY <2>1, <3>1
    <3>3. DeleteOk(u, id)'
      BY <1>4, <2>1, <3>1, <3>2
    <3> QED
      BY <3>2, <3>3 DEF DeleteOk
  <2>2. CASE /\ upc[u] # "idle" /\ mine'[u] = openDraft.id /\ openDraft' = openDraft
             /\ MayDelete(u, openDraft.owner)
    <3>1. PICK own : own = openDraft.owner /\ own = openDraft'.owner
      BY <2>2
    <3>2. MayDelete(u, own)'
      BY <1>3, <2>2, <3>1
    <3>3. own = upload'[u].session \/ upload'[u].override
      BY <3>2 DEF MayDelete
    <3>4. mine'[u] <= opened'
      BY <1>1, <2>2 DEF DraftIds
    <3> QED
      BY <3>1, <3>3, <3>4 DEF DeleteOk, MayDelete
  <2> QED
    BY <2>1, <2>2 DEF ClientMoves, NewDeletes
<1>8. \A k \in killed' : upc'[k.by] # "idle" /\ MayDelete(k.by, k.owner)'
  <2> SUFFICES ASSUME NEW k \in killed' PROVE upc'[k.by] # "idle" /\ MayDelete(k.by, k.owner)'
    OBVIOUS
  <2>1. k.by \in Upload
    BY <1>1 DEF ServerTypes, KilledRec
  <2>2. upc[k.by] # "idle" /\ MayDelete(k.by, k.owner)
    <3>1. CASE k \in killed
      BY <3>1 DEF FileInv
    <3>2. CASE k \notin killed
      <4>1. PICK m \in RequestRec : RequestOk(m) /\ Effect(m)
        BY <3>2
      <4>2. /\ m.op = "delete" /\ openDraft # NoDraft /\ openDraft.id = m.id
            /\ k.by = m.by /\ k.owner = openDraft.owner
        BY <3>2, <4>1 DEF Effect, NewKilled
      <4> QED
        BY <4>1, <4>2 DEF RequestOk, DeleteOk
    <3> QED
      BY <3>1, <3>2
  <2>3. upc'[k.by] # "idle"
    BY <2>1, <2>2 DEF ClientMoves, Advances
  <2> QED
    BY <1>3, <2>1, <2>2, <2>3
<1>9. \A u \in Upload : upc'[u] = "ok" => \E x \in DOMAIN history' : history'[x].by = u
  <2> SUFFICES ASSUME NEW u \in Upload, upc'[u] = "ok", upc[u] = "ok"
               PROVE  \E x \in DOMAIN history' : history'[x].by = u
    BY DEF ClientMoves, NewOk
  <2>1. PICK x \in DOMAIN history : history[x].by = u
    BY DEF FileInv
  <2>2. x \in DOMAIN history' /\ history'[x] = history[x]
    BY DEF Effect, NewCommits
  <2> QED
    BY <2>1, <2>2
<1>10. ClientTypes'
  BY DEF ClientMoves
<1> QED
  BY <1>1, <1>5, <1>6, <1>7, <1>8, <1>9, <1>10 DEF FileInv

\* One upload goes on to a label.
MovesTo(u, label) ==
    /\ label \in UpcStates \ {"idle"} /\ GoOn(u, label)
    /\ upload' \in [Upload -> UploadRec] /\ baseOf' \in [Upload -> Nat]
    /\ mine' \in [Upload -> Nat]
    /\ \A v \in Upload \ {u} : upload'[v] = upload[v] /\ mine'[v] = mine[v]
    /\ upc[u] \in AtSeal => label \in AtSeal /\ mine'[u] = mine[u]
    /\ upc[u] # "idle" => /\ upload'[u].session = upload[u].session
                          /\ upload'[u].override = upload[u].override
    /\ label = "delete" => /\ upc[u] # "idle" /\ mine'[u] = openDraft.id /\ openDraft' = openDraft
                           /\ MayDelete(u, openDraft.owner)
    /\ label = "ok" => \E x \in DOMAIN history' : history'[x].by = u
    /\ NewLate /\ losses' = losses

LEMMA LateTyped == ASSUME FileInv, NewLate PROVE late' \subseteq RequestRec
<1> SUFFICES ASSUME NEW m \in late' PROVE m \in RequestRec
  OBVIOUS
<1>1. CASE m \in late
  BY <1>1 DEF FileInv, ClientTypes
<1>2. ASSUME NEW u \in Upload, m = RequestOf(u), upc[u] \in Ops PROVE m \in RequestRec
  BY <1>2, RequestOfOk
<1> QED
  BY <1>1, <1>2 DEF NewLate

LEMMA OneMoves ==
    ASSUME FileInv, NEW u \in Upload, NEW label, MovesTo(u, label)
    PROVE  ClientMoves
<1>1. upc \in [Upload -> UpcStates] /\ losses \in Nat
  BY DEF FileInv, ClientTypes
<1>2. /\ upc' \in [Upload -> UpcStates] /\ upc'[u] = label
      /\ \A v \in Upload \ {u} : upc'[v] = upc[v]
  BY <1>1 DEF MovesTo, GoOn
<1>3. late' \subseteq RequestRec
  BY LateTyped DEF MovesTo
<1>4. ClientTypes'
  BY <1>1, <1>2, <1>3 DEF ClientTypes, MovesTo
<1>5. Advances
  <2> SUFFICES ASSUME NEW v \in Upload
               PROVE  /\ upc'[v] = "idle" => upc[v] = "idle"
                      /\ upc[v] \in AtSeal => upc'[v] \in AtSeal /\ mine'[v] = mine[v]
                      /\ upc[v] # "idle" => /\ upload'[v].session = upload[v].session
                                            /\ upload'[v].override = upload[v].override
    BY DEF Advances
  <2>1. CASE v = u
    BY <1>2, <2>1 DEF MovesTo
  <2>2. CASE v # u
    BY <1>2, <2>2 DEF MovesTo
  <2> QED
    BY <2>1, <2>2
<1>6. NewDeletes
  BY <1>2 DEF MovesTo, NewDeletes
<1>7. NewOk
  BY <1>2 DEF MovesTo, NewOk
<1> QED
  BY <1>4, <1>5, <1>6, <1>7 DEF ClientMoves, MovesTo

\* The calls that only the client sees.
LEMMA Started ==
    ASSUME FileInv, NEW u \in Upload, NEW kind \in {"file", "revision"}, NEW override \in BOOLEAN,
           NEW small \in BOOLEAN, StartUpload(u, kind, override, small)
    PROVE  FileInv'
<1>1. PICK ses \in Session : upload' = [upload EXCEPT ![u] =
         [kind |-> kind, session |-> ses, override |-> override, small |-> small]]
  BY DEF StartUpload
<1>2. upload \in [Upload -> UploadRec] /\ baseOf \in [Upload -> Nat] /\ mine \in [Upload -> Nat]
  BY DEF FileInv, ClientTypes
<1>3. /\ upload' \in [Upload -> UploadRec]
      /\ \A v \in Upload \ {u} : upload'[v] = upload[v]
  BY <1>1, <1>2 DEF UploadRec
<1>4. PICK label : label = IF kind = "revision" THEN "base" ELSE IF small THEN "small" ELSE "create"
  OBVIOUS
<1>5. label \in {"base", "small", "create"}
  BY <1>4
<1>6. NewLate
  BY DEF StartUpload, NewLate
<1>7. upc[u] = "idle" /\ GoOn(u, label)
  BY <1>4 DEF StartUpload
<1>8. MovesTo(u, label)
  BY <1>2, <1>3, <1>5, <1>6, <1>7 DEF MovesTo, StartUpload, UpcStates, UploadRunning, AtSeal
<1>9. UNCHANGED <<history, openDraft, opened, killed>>
  BY DEF StartUpload, fileServer
<1> QED
  BY <1>8, <1>9, OneMoves, FileKept

LEMMA BaseRead == ASSUME FileInv, NEW u \in Upload, ReadBase(u) PROVE FileInv'
<1>1. upload \in [Upload -> UploadRec] /\ baseOf \in [Upload -> Nat] /\ mine \in [Upload -> Nat]
  BY DEF FileInv, ClientTypes
<1>2. Version \in Nat
  BY DEF FileInv, ServerTypes, Version
<1>3. baseOf' \in [Upload -> Nat]
  BY <1>1, <1>2 DEF ReadBase
<1>4. PICK label : label = IF upload[u].small THEN "small" ELSE "create"
  OBVIOUS
<1>5. label \in {"small", "create"}
  BY <1>4
<1>6. NewLate
  BY DEF ReadBase, NewLate
<1>7. upc[u] = "base" /\ GoOn(u, label)
  BY <1>4 DEF ReadBase
<1>8. MovesTo(u, label)
  BY <1>1, <1>3, <1>5, <1>6, <1>7 DEF MovesTo, ReadBase, UpcStates, UploadRunning, AtSeal
<1>9. UNCHANGED <<history, openDraft, opened, killed>>
  BY DEF ReadBase, fileServer
<1> QED
  BY <1>8, <1>9, OneMoves, FileKept

LEMMA Written == ASSUME FileInv, NEW u \in Upload, BlocksWritten(u) PROVE FileInv'
<1>1. upload \in [Upload -> UploadRec] /\ baseOf \in [Upload -> Nat] /\ mine \in [Upload -> Nat]
  BY DEF FileInv, ClientTypes
<1>2. NewLate
  BY DEF BlocksWritten, NewLate
<1>3. MovesTo(u, "seal")
  BY <1>1, <1>2 DEF MovesTo, BlocksWritten, UpcStates, UploadRunning, AtSeal
<1>4. UNCHANGED <<history, openDraft, opened, killed>>
  BY DEF BlocksWritten, fileServer
<1> QED
  BY <1>3, <1>4, OneMoves, FileKept

LEMMA Failed == ASSUME FileInv, NEW u \in Upload, FailUpload(u) PROVE FileInv'
<1>1. upload \in [Upload -> UploadRec] /\ baseOf \in [Upload -> Nat] /\ mine \in [Upload -> Nat]
  BY DEF FileInv, ClientTypes
<1>2. NewLate
  BY DEF FailUpload, NewLate, UploadRunning, Ops
<1>3. MovesTo(u, "failed")
  BY <1>1, <1>2 DEF MovesTo, FailUpload, UpcStates, UploadRunning, AtSeal
<1>4. UNCHANGED <<history, openDraft, opened, killed>>
  BY DEF FailUpload, fileServer
<1> QED
  BY <1>3, <1>4, OneMoves, FileKept

\* A request is sent again.
LEMMA Resent == ASSUME FileInv, NEW u \in Upload, Resend(u) PROVE FileInv'
<1>1. NewLate
  BY DEF Resend, NewLate, Ops
<1>2. late' \subseteq RequestRec
  BY <1>1, LateTyped
<1>3. ClientTypes'
  BY <1>2 DEF FileInv, ClientTypes, Resend
<1>4. ClientMoves
  BY <1>1, <1>3 DEF ClientMoves, Advances, NewDeletes, NewOk, Resend
<1>5. UNCHANGED <<history, openDraft, opened, killed>>
  BY DEF Resend, fileServer
<1> QED
  BY <1>4, <1>5, FileKept

\* The answer to a request that was applied.
LEMMA AnswerApplied ==
    ASSUME FileInv, NEW u \in Upload, upc[u] \in Ops, Appliable(RequestOf(u)), ApplyOn(RequestOf(u))
    PROVE  \E m \in RequestRec : m = RequestOf(u) /\ RequestOk(m) /\ Effect(m)
<1>1. RequestOf(u) \in RequestRec /\ RequestOk(RequestOf(u))
  BY RequestOfOk
<1>2. PICK m \in RequestRec : m = RequestOf(u)
  BY <1>1
<1>3. ServerTypes /\ upload \in [Upload -> UploadRec] /\ DraftIds
  BY DEF FileInv, ClientTypes
<1>4. Effect(m)
  BY <1>2, <1>3, Applied
<1> QED
  BY <1>1, <1>2, <1>4

LEMMA SmallDone ==
    ASSUME FileInv, NEW u \in Upload, NEW fallBack \in {"create", "base"}, upc[u] = "small",
           SmallAnswered(u, fallBack)
    PROVE  FileInv'
<1>1. upload \in [Upload -> UploadRec] /\ baseOf \in [Upload -> Nat] /\ mine \in [Upload -> Nat]
  BY DEF FileInv, ClientTypes
<1>2. NewLate
  BY DEF SmallAnswered, NewLate
<1>3. CASE Appliable(RequestOf(u))
  <2>1. PICK m \in RequestRec : m = RequestOf(u) /\ RequestOk(m) /\ Effect(m)
    BY <1>3, AnswerApplied DEF SmallAnswered, Ops
  <2>2. m.op = "small" /\ m.by = u
    BY <2>1 DEF RequestOf
  <2>3. \E x \in DOMAIN history' : history'[x].by = u
    BY <2>1, <2>2 DEF Effect, NewCommits
  <2>4. MovesTo(u, "ok")
    BY <1>1, <1>2, <1>3, <2>3 DEF MovesTo, SmallAnswered, UpcStates, AtSeal
  <2> QED
    BY <2>1, <2>4, OneMoves, FileKept
<1>4. CASE ~Appliable(RequestOf(u))
  <2>0. UNCHANGED <<history, openDraft, opened, killed>> /\ baseOf' = baseOf /\ mine' = mine
    BY <1>4 DEF SmallAnswered, fileServer
  <2>1. CASE upload' = [upload EXCEPT ![u].small = FALSE] /\ GoOn(u, fallBack)
    <3>1. /\ upload' \in [Upload -> UploadRec]
          /\ \A v \in Upload \ {u} : upload'[v] = upload[v]
          /\ upload'[u].session = upload[u].session /\ upload'[u].override = upload[u].override
      BY <1>1, <2>1 DEF UploadRec
    <3>2. MovesTo(u, fallBack)
      BY <1>1, <1>2, <2>0, <2>1, <3>1 DEF MovesTo, SmallAnswered, UpcStates, UploadRunning, AtSeal
    <3> QED
      BY <2>0, <3>2, OneMoves, FileKept
  <2>2. CASE upload' = upload /\ GoOn(u, "failed")
    <3>1. MovesTo(u, "failed")
      BY <1>1, <1>2, <2>0, <2>2 DEF MovesTo, SmallAnswered, UpcStates, UploadRunning, AtSeal
    <3> QED
      BY <2>0, <3>1, OneMoves, FileKept
  <2> QED
    BY <1>4, <2>1, <2>2 DEF SmallAnswered
<1> QED
  BY <1>3, <1>4

LEMMA CreateDone == ASSUME FileInv, NEW u \in Upload, CreateAnswered(u) PROVE FileInv'
<1>1. upload \in [Upload -> UploadRec] /\ baseOf \in [Upload -> Nat] /\ mine \in [Upload -> Nat]
      /\ opened \in Nat /\ openDraft.id \in Nat
  BY DEF FileInv, ClientTypes, ServerTypes, DraftRec
<1>2. NewLate
  BY DEF CreateAnswered, NewLate
<1>3. CASE Appliable(RequestOf(u))
  <2>1. PICK m \in RequestRec : m = RequestOf(u) /\ RequestOk(m) /\ Effect(m)
    BY <1>3, AnswerApplied DEF CreateAnswered, Ops
  <2>2. mine' = [mine EXCEPT ![u] = opened + 1]
    BY <1>3 DEF CreateAnswered
  <2>3. MovesTo(u, "write")
    BY <1>1, <1>2, <1>3, <2>2 DEF MovesTo, CreateAnswered, UpcStates, UploadRunning, AtSeal
  <2> QED
    BY <2>1, <2>3, OneMoves, FileKept
<1>4. CASE ~Appliable(RequestOf(u)) /\ Recoverable(u)
  <2>1. mine' = [mine EXCEPT ![u] = openDraft.id] /\ GoOn(u, "delete")
        /\ UNCHANGED <<history, openDraft, opened, killed>>
    BY <1>4 DEF CreateAnswered, fileServer
  <2>2. MayDelete(u, openDraft.owner)
    BY <1>4 DEF Recoverable, MayDelete
  <2>3. MovesTo(u, "delete")
    BY <1>1, <1>2, <2>1, <2>2 DEF MovesTo, CreateAnswered, UpcStates, UploadRunning, AtSeal
  <2> QED
    BY <2>1, <2>3, OneMoves, FileKept
<1>5. CASE ~Appliable(RequestOf(u)) /\ ~Recoverable(u)
  <2>1. mine' = mine /\ GoOn(u, "failed") /\ UNCHANGED <<history, openDraft, opened, killed>>
    BY <1>5 DEF CreateAnswered, fileServer
  <2>2. MovesTo(u, "failed")
    BY <1>1, <1>2, <2>1 DEF MovesTo, CreateAnswered, UpcStates, UploadRunning, AtSeal
  <2> QED
    BY <2>1, <2>2, OneMoves, FileKept
<1> QED
  BY <1>3, <1>4, <1>5

LEMMA DeleteDone == ASSUME FileInv, NEW u \in Upload, DeleteAnswered(u) PROVE FileInv'
<1>1. upload \in [Upload -> UploadRec] /\ baseOf \in [Upload -> Nat] /\ mine \in [Upload -> Nat]
  BY DEF FileInv, ClientTypes
<1>2. NewLate
  BY DEF DeleteAnswered, NewLate
<1>3. PICK label \in {"exhausted", "create", "failed"} : GoOn(u, label)
  BY DEF DeleteAnswered, NextAttempt
<1>4. MovesTo(u, label)
  BY <1>1, <1>2, <1>3 DEF MovesTo, DeleteAnswered, UpcStates, UploadRunning, AtSeal
<1>5. CASE Appliable(RequestOf(u))
  <2>1. PICK m \in RequestRec : m = RequestOf(u) /\ RequestOk(m) /\ Effect(m)
    BY <1>5, AnswerApplied DEF DeleteAnswered, Ops
  <2> QED
    BY <1>4, <2>1, OneMoves, FileKept
<1>6. CASE ~Appliable(RequestOf(u))
  <2>1. UNCHANGED <<history, openDraft, opened, killed>>
    BY <1>6 DEF DeleteAnswered, fileServer
  <2> QED
    BY <1>4, <2>1, OneMoves, FileKept
<1> QED
  BY <1>5, <1>6

LEMMA SealDone == ASSUME FileInv, NEW u \in Upload, SealAnswered(u) PROVE FileInv'
<1>1. upload \in [Upload -> UploadRec] /\ baseOf \in [Upload -> Nat] /\ mine \in [Upload -> Nat]
  BY DEF FileInv, ClientTypes
<1>2. NewLate
  BY DEF SealAnswered, NewLate
<1>3. CASE Appliable(RequestOf(u))
  <2>1. PICK m \in RequestRec : m = RequestOf(u) /\ RequestOk(m) /\ Effect(m)
    BY <1>3, AnswerApplied DEF SealAnswered, Ops
  <2>2. m.op = "seal" /\ m.by = u
    BY <2>1 DEF RequestOf, SealAnswered
  <2>3. \E x \in DOMAIN history' : history'[x].by = u
    BY <2>1, <2>2 DEF Effect, NewCommits
  <2>4. MovesTo(u, "ok")
    BY <1>1, <1>2, <1>3, <2>3 DEF MovesTo, SealAnswered, UpcStates, AtSeal
  <2> QED
    BY <2>1, <2>4, OneMoves, FileKept
<1>4. CASE ~Appliable(RequestOf(u))
  <2>1. UNCHANGED <<history, openDraft, opened, killed>>
    BY <1>4 DEF SealAnswered, fileServer
  <2>2. MovesTo(u, "failed")
    BY <1>1, <1>2, <1>4 DEF MovesTo, SealAnswered, UpcStates, AtSeal
  <2> QED
    BY <2>1, <2>2, OneMoves, FileKept
<1> QED
  BY <1>3, <1>4

\* A copy nobody waits for arrives.
LEMMA Arrived == ASSUME FileInv, NEW m \in late, ArriveLate(m) PROVE FileInv'
<1>1. m \in RequestRec /\ RequestOk(m)
  BY DEF FileInv, ClientTypes
<1>2. ClientTypes'
  BY DEF FileInv, ClientTypes, ArriveLate
<1>3. ClientMoves
  BY <1>2 DEF ClientMoves, Advances, NewDeletes, NewLate, NewOk, ArriveLate
<1>4. CASE Appliable(m)
  <2>1. ServerTypes /\ upload \in [Upload -> UploadRec] /\ DraftIds
    BY DEF FileInv, ClientTypes
  <2>2. Effect(m)
    BY <1>1, <1>4, <2>1, Applied DEF ArriveLate
  <2> QED
    BY <1>1, <1>3, <2>2, FileKept
<1>5. CASE ~Appliable(m)
  <2>1. UNCHANGED <<history, openDraft, opened, killed>>
    BY <1>5 DEF ArriveLate, fileServer
  <2> QED
    BY <1>3, <2>1, FileKept
<1> QED
  BY <1>4, <1>5

LEMMA FileInitially == FileInit => FileInv
<1> SUFFICES ASSUME FileInit PROVE FileInv
  OBVIOUS
<1>1. openDraft = NoDraft /\ openDraft \in DraftRec /\ openDraft.id = 0 /\ opened = 0
  BY DEF FileInit, NoDraft, DraftRec
<1>2. history = <<>> /\ history \in Seq(CommitRec) /\ DOMAIN history = {} /\ killed = {}
  BY DEF FileInit
<1>3. ServerTypes /\ DraftIds
  BY <1>1, <1>2 DEF ServerTypes, DraftIds
<1>4. upload \in [Upload -> UploadRec]
  BY DEF FileInit, UploadRec
<1>5. ClientTypes
  BY <1>4 DEF FileInit, ClientTypes, UpcStates
<1> QED
  BY <1>2, <1>3, <1>5 DEF FileInv, FileInit

LEMMA FileStep == FileInv /\ [FileNext]_fileVars => FileInv'
<1> SUFFICES ASSUME FileInv, [FileNext]_fileVars PROVE FileInv'
  OBVIOUS
<1>1. CASE UNCHANGED fileVars
  BY <1>1 DEF fileVars, FileInv, ServerTypes, ClientTypes, DraftIds, Sealing, RequestOk, DeleteOk,
              MayDelete
<1>2. ASSUME NEW m \in late, ArriveLate(m) PROVE FileInv'
  BY <1>2, Arrived
<1>3. ASSUME NEW u \in Upload, NEW small \in BOOLEAN, UploadFile(u, small) \/ UploadNewRevision(u, small)
      PROVE  FileInv'
  BY <1>3, Started DEF UploadFile, UploadNewRevision
<1>4. ASSUME NEW u \in Upload,
             \/ UploadFileFrom(u) \/ UploadFileReplacingDraftFrom(u) \/ UploadNewRevisionFrom(u)
             \/ UploadPhotoFrom(u)
      PROVE  FileInv'
  BY <1>4, Started
     DEF UploadFileFrom, UploadFileReplacingDraftFrom, UploadNewRevisionFrom, UploadPhotoFrom
<1>5. ASSUME NEW u \in Upload, SmallFileAnswered(u) \/ SmallRevisionAnswered(u) PROVE FileInv'
  BY <1>5, SmallDone DEF SmallFileAnswered, SmallRevisionAnswered
<1>6. ASSUME NEW u \in Upload,
             \/ ReadBase(u) \/ CreateAnswered(u) \/ DeleteAnswered(u) \/ BlocksWritten(u)
             \/ SealAnswered(u) \/ Resend(u) \/ FailUpload(u)
      PROVE  FileInv'
  BY <1>6, BaseRead, CreateDone, DeleteDone, Written, SealDone, Resent, Failed
<1> QED
  BY <1>1, <1>2, <1>3, <1>4, <1>5, <1>6 DEF FileNext

LEMMA FileInvSound == FileInv => UploadsSound
<1> SUFFICES ASSUME FileInv PROVE UploadsSound
  OBVIOUS
<1>1. OkMeansCommitted
  BY DEF FileInv, OkMeansCommitted, Commits
<1>2. DraftCommitsOnce
  <2> SUFFICES ASSUME NEW u \in Upload, NEW x \in Commits(u), NEW y \in Commits(u),
                      history[x].id # 0, history[y].id # 0
               PROVE  x = y
    BY DEF DraftCommitsOnce
  <2>1. x \in DOMAIN history /\ y \in DOMAIN history /\ history[x].by = u /\ history[y].by = u
    BY DEF Commits
  <2>2. mine[u] = history[x].id /\ mine[u] = history[y].id
    BY <2>1 DEF FileInv, Sealing
  <2> QED
    BY <2>1, <2>2 DEF FileInv, DraftIds
<1>3. ForeignDraftsKept
  BY DEF FileInv, ForeignDraftsKept, MayDelete
<1> QED
  BY <1>1, <1>2, <1>3 DEF UploadsSound

\* Uploads that fight over the draft of one file, with answers lost and requests
\* arriving late, tell the truth about their commit, commit once through a draft and
\* delete no foreign draft unless told to (upload_file_from_inner, create_file_draft,
\* create_revision_draft, seal_revision).
THEOREM UploadsAlwaysSound == FileSpec => []UploadsSound
BY FileInitially, FileStep, FileInvSound, PTL DEF FileSpec

-----------------------------------------------------------------------------
(* Deleting an album but not its photos.                                   *)

\* The flag is up only while the photos are saved and for the second delete.
AlbumInv == deleting => apc \in {"load", "send", "delete"}

\* The photos of the account that are nowhere.
Gone == Own \ (timeline \cup album)
NoneLost == Gone' = Gone

\* Photos that are there come into the timeline or the album.
ComesIn ==
    \E taken \in SUBSET Present :
        /\ timeline' \in {timeline, timeline \cup taken} /\ album' \in {album, album \cup taken}

LEMMA ComingIn == ComesIn => NoneLost
BY DEF ComesIn, NoneLost, Gone, Present, Own

LEMMA BatchComesIn == SendBatch \/ BatchLost => ComesIn
<1>1. \A sent, answers : BroughtIn(sent) \cup CarriedIn(sent, answers) \in SUBSET Present
  BY DEF BroughtIn, CarriedIn, Answer
<1>2. ASSUME NEW photos \in SUBSET Present, ComeIn(photos) PROVE ComesIn
  BY <1>2 DEF ComeIn, ComesIn
<1>3. ASSUME SendBatch PROVE ComesIn
  <2>1. \E answers : ComeIn(BroughtIn(Sent) \cup CarriedIn(Sent, answers))
    BY <1>3, Zenon DEF SendBatch
  <2> QED
    BY <1>1, <1>2, <2>1
<1>4. ASSUME BatchLost PROVE ComesIn
  <2>1. ComeIn({}) \/ ComeIn(BroughtIn(Sent) \cup CarriedIn(Sent, {"taken"}))
    BY <1>4, Zenon DEF BatchLost
  <2>2. {} \in SUBSET Present
    OBVIOUS
  <2> QED
    BY <1>1, <1>2, <2>1, <2>2
<1> QED
  BY <1>3, <1>4

\* The steps of a call, and where it stands after them.
LEMMA AlbumStep ==
    ASSUME AlbumInv, AlbumNext
    PROVE  AlbumInv' /\ (deleting => NoneLost)
<1>1. CASE \E photos \in Requests :
              \/ AddPhotosToAlbum(photos) \/ SavePhotosToTimeline(photos)
              \/ RemovePhotos(photos) \/ UpdatePhotos(photos)
  BY <1>1 DEF AlbumInv, AddPhotosToAlbum, SavePhotosToTimeline, RemovePhotos, UpdatePhotos, Open
<1>2. CASE LoadPayload
  BY <1>2 DEF AlbumInv, NoneLost, Gone, LoadPayload, photoServer
<1>3. CASE RoundLoaded
  BY <1>3 DEF AlbumInv, NoneLost, Gone, RoundLoaded, photoServer
<1>4. CASE SendBatch
  <2>1. apc' = apc /\ deleting' = deleting
    BY <1>4 DEF SendBatch
  <2> QED
    BY <1>4, <2>1, BatchComesIn, ComingIn DEF AlbumInv
<1>5. CASE BatchLost
  <2>1. deleting' = FALSE
    BY <1>5 DEF BatchLost
  <2> QED
    BY <1>5, <2>1, BatchComesIn, ComingIn DEF AlbumInv
<1>6. CASE CopyPhoto
  BY <1>6 DEF AlbumInv, NoneLost, Gone, CopyPhoto, photoServer
<1>7. CASE RoundDone
  BY <1>7 DEF AlbumInv, NoneLost, Gone, RoundDone, photoServer
<1>8. CASE \E withPhotos \in BOOLEAN : DeleteAlbum(withPhotos)
  BY <1>8 DEF AlbumInv, DeleteAlbum
<1>9. CASE CreateAlbum \/ \E p \in Photo : SetAlbumCover(p)
  BY <1>9 DEF AlbumInv, CreateAlbum, SetAlbumCover, AlbumRequest
<1>10. CASE UpdatePhotosStreaming
  BY <1>10 DEF AlbumInv, UpdatePhotosStreaming
<1>11. CASE DeleteSaving
  BY <1>11 DEF AlbumInv, DeleteSaving, Open
<1>12. CASE DeleteAgain
  <2>1. deleting' = FALSE /\ timeline' = timeline
    BY <1>12 DEF DeleteAgain
  <2>2. CASE albumThere /\ OnlyInAlbum = {}
    <3>1. album' = {} /\ album \ timeline = {}
      BY <1>12, <2>2 DEF DeleteAgain, OnlyInAlbum
    <3> QED
      BY <2>1, <3>1 DEF AlbumInv, NoneLost, Gone
  <2>3. CASE ~(albumThere /\ OnlyInAlbum = {})
    BY <1>12, <2>1, <2>3 DEF AlbumInv, NoneLost, Gone, DeleteAgain, DeletesPhotos
  <2> QED
    BY <2>2, <2>3
<1>13. CASE RemoveBatch
  BY <1>13 DEF AlbumInv, RemoveBatch
<1>14. CASE TagPhoto
  BY <1>14 DEF AlbumInv, TagPhoto
<1>15. CASE Meddle
  <2>1. apc' = apc /\ deleting' = deleting
    BY <1>15 DEF Meddle
  <2>2. timeline' \cup album' = timeline \cup album
    BY <1>15 DEF Meddle, OnlyInAlbum
  <2> QED
    BY <2>1, <2>2 DEF AlbumInv, NoneLost, Gone
<1> QED
  BY <1>1, <1>2, <1>3, <1>4, <1>5, <1>6, <1>7, <1>8, <1>9, <1>10, <1>11, <1>12, <1>13, <1>14, <1>15
     DEF AlbumNext

\* delete_album_saving_photos loses no photo, whatever other clients put into the
\* album or take out of the timeline between its two deletes.
THEOREM SavedPhotosSurvive == AlbumSpec => PhotosSurvive
<1>1. AlbumInit => AlbumInv
  BY DEF AlbumInit, AlbumInv
<1>2. AlbumInv /\ [AlbumNext]_albumVars => AlbumInv'
  BY AlbumStep DEF AlbumInv, albumVars
<1>3. AlbumInv /\ [AlbumNext]_albumVars =>
         [deleting => Own \ (timeline \cup album) = Own \ (timeline' \cup album')]_albumVars
  BY AlbumStep DEF NoneLost, Gone, Own
<1> QED
  BY <1>1, <1>2, <1>3, PTL DEF AlbumSpec, PhotosSurvive

-----------------------------------------------------------------------------
(* What a transfer of photos reports.                                      *)

QueuedPhoto == [photo : Photo, extra : SUBSET Photo]
PhotoPayload == [photo : Photo, related : SUBSET Photo]
PhotoOutcome == [photo : Photo, result : {"ok", "refused"}]
TransferTypes ==
    /\ given \in Seq(Photo) /\ todo \in Seq(QueuedPhoto) /\ same \in Seq(PhotoPayload)
    /\ copies \in Seq(PhotoPayload) /\ results \in Seq(PhotoOutcome)
    /\ group \in [Photo -> SUBSET Photo] /\ sends \in [Photo -> Nat] /\ timeline \cup album \in SUBSET Photo

\* A transfer under way or ended, and how often each photo is still to be answered for.
Transferring == apc \in {"load", "send", "delete"} \/ Transferred
Left(waiting, own, other) ==
    [p \in Photo |-> CountOf(Mains(waiting), p) + CountOf(Mains(own), p) + CountOf(Mains(other), p)]
LeftNow == Left(todo, same, copies)

\* The books of a transfer.  Every photo is reported or still to be answered for, as
\* often as it was given.
Accounted(g, r, left) ==
    \A p \in Photo : CountOf(g, p) = CountOf(Mains(r), p) + left[p]

\* With no photo given twice the results tell what was brought in, and what is still
\* to be answered for was not, but for the exceptions ex.
NoneTwice(g) == \A p \in Photo : CountOf(g, p) <= 1
Truthful(r, in, ex) ==
    \A i \in 1 .. Len(r) : /\ r[i].result = "ok" => r[i].photo \in in
                           /\ r[i].photo \in in \ ex => r[i].result = "ok"
BroughtInAnswered(left, in, ex) == \A p \in Photo : p \in in \ ex => left[p] = 0

\* A photo given once that is still to be answered for was sent only if it was
\* queued again.
SentAtMostTwice(g, left, s, a) ==
    \A p \in Photo :
        CountOf(g, p) <= 1 =>
            /\ s[p] <= 2
            /\ left[p] > 0 => s[p] <= 1 /\ (p \notin a => s[p] = 0)

Book(g, r, left, in, ex, s, a) ==
    /\ g \in Seq(Photo) /\ r \in Seq(PhotoOutcome)
    /\ left \in [Photo -> Nat] /\ s \in [Photo -> Nat]
    /\ Accounted(g, r, left)
    /\ NoneTwice(g) => Truthful(r, in, ex) /\ BroughtInAnswered(left, in, ex)
    /\ SentAtMostTwice(g, left, s, a)

AllAnswered == apc = "delete" \/ Transferred => todo = <<>> /\ same = <<>> /\ copies = <<>>
TransferInv ==
    /\ TransferTypes /\ AllAnswered
    /\ (apc = "remove" => goal = "out") /\ (apc = "tag" => goal = "tags")
    /\ Transferring => Book(given, results, LeftNow, took, aside, sends, again)
    /\ \A p \in Photo : CountOf(given, p) <= 1 => sends[p] <= 2

\* The photos of a sequence of entries.
LEMMA MainsIs ==
    ASSUME NEW S, \A e \in S : e.photo \in Photo, NEW s \in Seq(S)
    PROVE  /\ Mains(s) \in Seq(Photo) /\ Len(Mains(s)) = Len(s) /\ Len(s) \in Nat
           /\ \A i \in 1 .. Len(s) : Mains(s)[i] = s[i].photo
<1>1. Len(s) \in Nat /\ \A i \in 1 .. Len(s) : s[i] \in S
  OBVIOUS
<1>2. PICK n \in Nat : n = Len(s)
  BY <1>1
<1>3. PICK t : t = Mains(s)
  OBVIOUS
<1>4. t = [i \in 1 .. n |-> s[i].photo]
  BY <1>2, <1>3 DEF Mains
<1>5. t \in [1 .. n -> Photo]
  BY <1>1, <1>2, <1>4
<1>6. t \in Seq(Photo) /\ Len(t) = n
  BY <1>2, <1>5, IsASeq, LenProperties
<1> QED
  BY <1>2, <1>3, <1>4, <1>6

\* Sequences with the same photos.
LEMMA MainsSame ==
    ASSUME NEW s \in Seq(Photo), NEW t \in Seq(Photo), Len(s) = Len(t),
           \A i \in 1 .. Len(s) : s[i] = t[i]
    PROVE  s = t
  BY SeqEqual

LEMMA JoinedIs ==
    ASSUME NEW S, NEW s \in Seq(S), NEW t \in Seq(S)
    PROVE  /\ s \o t \in Seq(S) /\ Len(s \o t) = Len(s) + Len(t)
           /\ \A i \in 1 .. Len(s) : (s \o t)[i] = s[i]
           /\ \A i \in 1 .. Len(t) : (s \o t)[Len(s) + i] = t[i]
  OBVIOUS

LEMMA JoinedTwice ==
    ASSUME NEW x \in Seq(PhotoOutcome), NEW y \in Seq(PhotoOutcome), NEW z \in Seq(PhotoOutcome)
    PROVE  (x \o y) \o z = x \o (y \o z)
  BY ConcatAssociative

LEMMA MainsConcat ==
    ASSUME NEW S, \A e \in S : e.photo \in Photo, NEW s \in Seq(S), NEW t \in Seq(S), NEW p
    PROVE  CountOf(Mains(s \o t), p) = CountOf(Mains(s), p) + CountOf(Mains(t), p)
<1>1. PICK m \in Nat, n \in Nat : m = Len(s) /\ n = Len(t)
  OBVIOUS
<1>2. PICK u : u = s \o t
  OBVIOUS
<1>3. /\ u \in Seq(S) /\ Len(u) = m + n
      /\ \A i \in 1 .. m : u[i] = s[i]
      /\ \A i \in 1 .. n : u[m + i] = t[i]
  BY <1>1, <1>2
<1>4. PICK x \in Seq(Photo), y \in Seq(Photo), z \in Seq(Photo) :
        x = Mains(s) /\ y = Mains(t) /\ z = Mains(u)
  BY <1>3, MainsIs
<1>5. /\ x \in Seq(Photo) /\ Len(x) = m /\ \A i \in 1 .. m : x[i] = s[i].photo
      /\ y \in Seq(Photo) /\ Len(y) = n /\ \A i \in 1 .. n : y[i] = t[i].photo
      /\ z \in Seq(Photo) /\ Len(z) = m + n /\ \A i \in 1 .. m + n : z[i] = u[i].photo
  BY <1>1, <1>3, <1>4, MainsIs
<1>6. PICK v : v = x \o y
  OBVIOUS
<1>7. /\ v \in Seq(Photo) /\ Len(v) = m + n
      /\ \A i \in 1 .. m : v[i] = x[i]
      /\ \A i \in 1 .. n : v[m + i] = y[i]
  <2>1. Len(x) = m /\ Len(y) = n
    BY <1>5
  <2>2. /\ x \o y \in Seq(Photo) /\ Len(x \o y) = Len(x) + Len(y)
        /\ \A i \in 1 .. Len(x) : (x \o y)[i] = x[i]
        /\ \A i \in 1 .. Len(y) : (x \o y)[Len(x) + i] = y[i]
    BY JoinedIs
  <2> QED
    BY <1>6, <2>1, <2>2
<1>8. ASSUME NEW i \in 1 .. m + n PROVE z[i] = v[i]
  <2>1. CASE i \in 1 .. m
    <3>1. z[i] = u[i].photo /\ u[i] = s[i] /\ v[i] = x[i]
      BY <1>3, <1>5, <1>7, <2>1
    <3> QED
      BY <1>5, <2>1, <3>1
  <2>2. CASE i \notin 1 .. m
    <3>1. PICK k \in 1 .. n : i = m + k
      <4>1. i - m \in 1 .. n /\ i = m + (i - m)
        BY <2>2
      <4> QED
        BY <4>1
    <3>2. z[i] = t[k].photo /\ v[i] = y[k]
      BY <1>3, <1>5, <1>7, <3>1
    <3> QED
      BY <1>5, <3>2
  <2> QED
    BY <2>1, <2>2
<1>9. z = x \o y
  BY <1>5, <1>6, <1>7, <1>8, MainsSame
<1>10. CountOf(x \o y, p) = CountOf(x, p) + CountOf(y, p)
  BY <1>5, CountConcat
<1> QED
  BY <1>2, <1>4, <1>9, <1>10

LEMMA MainsEmpty ==
    ASSUME NEW p
    PROVE  CountOf(Mains(<<>>), p) = 0
<1>1. Mains(<<>>) = <<>>
  BY DEF Mains
<1> QED
  BY <1>1, CountEmpty

LEMMA MainsSingle ==
    ASSUME NEW S, \A e \in S : e.photo \in Photo, NEW e \in S, NEW p
    PROVE  CountOf(Mains(<<e>>), p) = IF e.photo = p THEN 1 ELSE 0
<1>1. PICK s : s = <<e>>
  OBVIOUS
<1>2. s \in Seq(S) /\ Len(s) = 1 /\ s[1] = e
  BY <1>1
<1>3. PICK t : t = <<e.photo>>
  OBVIOUS
<1>4. t \in Seq(Photo) /\ Len(t) = 1 /\ t[1] = e.photo
  BY <1>3
<1>5. Mains(s) \in Seq(Photo) /\ Len(Mains(s)) = 1 /\ Mains(s)[1] = e.photo
  BY <1>2, MainsIs
<1>6. Mains(s) = t
  BY <1>4, <1>5, MainsSame
<1> QED
  BY <1>1, <1>3, <1>6, CountSingle

LEMMA MainsAppend ==
    ASSUME NEW S, \A e \in S : e.photo \in Photo, NEW s \in Seq(S), NEW e \in S, NEW p
    PROVE  CountOf(Mains(Append(s, e)), p) = CountOf(Mains(s), p) + (IF e.photo = p THEN 1 ELSE 0)
<1>1. Append(s, e) = s \o <<e>>
  BY AppendIsConcat
<1>2. <<e>> \in Seq(S)
  OBVIOUS
<1>3. CountOf(Mains(s \o <<e>>), p) = CountOf(Mains(s), p) + CountOf(Mains(<<e>>), p)
  BY <1>2, MainsConcat
<1>4. CountOf(Mains(<<e>>), p) = IF e.photo = p THEN 1 ELSE 0
  BY MainsSingle
<1> QED
  BY <1>1, <1>3, <1>4

LEMMA MainsHead ==
    ASSUME NEW S, \A e \in S : e.photo \in Photo, NEW s \in Seq(S), s # <<>>, NEW p
    PROVE  CountOf(Mains(s), p) = (IF Head(s).photo = p THEN 1 ELSE 0) + CountOf(Mains(Tail(s)), p)
<1>1. Head(s) \in S /\ Tail(s) \in Seq(S) /\ s = <<Head(s)>> \o Tail(s)
  BY HeadTailProperties
<1>2. <<Head(s)>> \in Seq(S)
  BY <1>1
<1>3. CountOf(Mains(<<Head(s)>> \o Tail(s)), p) = CountOf(Mains(<<Head(s)>>), p) + CountOf(Mains(Tail(s)), p)
  BY <1>1, <1>2, MainsConcat
<1>4. CountOf(Mains(<<Head(s)>>), p) = IF Head(s).photo = p THEN 1 ELSE 0
  BY <1>1, MainsSingle
<1> QED
  BY <1>1, <1>3, <1>4

LEMMA MainsPicked ==
    ASSUME NEW S, \A e \in S : e.photo \in Photo, NEW s \in Seq(S),
           NEW P \in SUBSET (1 .. Len(s)), NEW p
    PROVE  /\ Picked(s, P) \in Seq(S)
           /\ CountOf(Mains(Picked(s, P)), p) = Cardinality(Spots(Mains(s), P, p))
<1>1. PICK m : m = Mains(s)
  OBVIOUS
<1>2. /\ m \in Seq(Photo) /\ Len(m) = Len(s) /\ Len(s) \in Nat
      /\ \A i \in 1 .. Len(s) : m[i] = s[i].photo
  BY <1>1, MainsIs
<1>3. P \in SUBSET (1 .. Len(m))
  BY <1>2
<1>4. PICK t : t = Picked(s, P)
  OBVIOUS
<1>5. t \in Seq(S) /\ Len(t) = Cardinality(P)
  BY <1>4, PickedIs
<1>6. PICK u : u = Picked(m, P)
  OBVIOUS
<1>7. u \in Seq(Photo) /\ Len(u) = Cardinality(P)
  BY <1>2, <1>3, <1>6, PickedIs
<1>8. PICK order, k : order = Ascending(P) /\ k = Cardinality(P)
  OBVIOUS
<1>9. /\ t = [a \in 1 .. k |-> s[order[a]]] /\ u = [a \in 1 .. k |-> m[order[a]]]
  BY <1>4, <1>6, <1>8 DEF Picked
<1>10. Ordered(order, k, P)
  <2>1. P \in SUBSET (0 + 1 .. Len(s))
    OBVIOUS
  <2> QED
    BY <1>2, <1>8, <2>1, AscendingIs
<1>11. \A a \in 1 .. k : order[a] \in P
  BY <1>10 DEF Ordered
<1>12. \A a \in 1 .. k : u[a] = t[a].photo
  BY <1>2, <1>9, <1>11
<1>13. Mains(t) \in Seq(Photo) /\ Len(Mains(t)) = k /\ \A a \in 1 .. k : Mains(t)[a] = t[a].photo
  BY <1>5, <1>8, MainsIs
<1>14. Mains(t) = u
  BY <1>7, <1>8, <1>12, <1>13, MainsSame
<1>15. CountOf(u, p) = Cardinality(Spots(m, P, p))
  BY <1>2, <1>3, <1>6, CountPicked
<1> QED
  BY <1>1, <1>4, <1>5, <1>14, <1>15

\* A photo is at the positions P or at the others.
LEMMA SpotsSplit ==
    ASSUME NEW S, NEW s \in Seq(S), NEW P \in SUBSET (1 .. Len(s)), NEW p
    PROVE  /\ CountOf(s, p) = Cardinality(Spots(s, P, p))
                              + Cardinality(Spots(s, (1 .. Len(s)) \ P, p))
           /\ Cardinality(Spots(s, P, p)) \in Nat
           /\ Cardinality(Spots(s, (1 .. Len(s)) \ P, p)) \in Nat
<1>1. PICK n \in Nat : n = Len(s)
  OBVIOUS
<1>2. PICK A, B : A = Spots(s, P, p) /\ B = Spots(s, (1 .. n) \ P, p)
  OBVIOUS
<1>3. A \in SUBSET (1 .. n) /\ B \in SUBSET (1 .. n)
  BY <1>1, <1>2 DEF Spots
<1>4. IsFiniteSet(A) /\ IsFiniteSet(B) /\ Cardinality(A) \in Nat /\ Cardinality(B) \in Nat
  BY <1>3, PositionsFinite
<1>5. A \cap B = {} /\ A \cup B = {i \in 1 .. n : s[i] = p}
  BY <1>1, <1>2 DEF Spots
<1>6. Cardinality(A \cap B) = 0
  BY <1>5, FS_EmptySet
<1>7. Cardinality(A \cup B) = Cardinality(A) + Cardinality(B) - Cardinality(A \cap B)
  BY <1>4, FS_Union
<1>8. Cardinality(A \cup B) = Cardinality(A) + Cardinality(B)
  BY <1>4, <1>6, <1>7
<1>9. CountOf(s, p) = Cardinality(A \cup B)
  BY <1>1, <1>5 DEF CountOf
<1> QED
  BY <1>1, <1>2, <1>4, <1>8, <1>9

\* A photo that is there counts.
LEMMA MainsCounted ==
    ASSUME NEW S, \A e \in S : e.photo \in Photo, NEW s \in Seq(S), NEW p
    PROVE  /\ CountOf(Mains(s), p) \in Nat
           /\ p \in Members(Mains(s)) <=> CountOf(Mains(s), p) > 0
           /\ \A i \in 1 .. Len(s) : s[i].photo = p => CountOf(Mains(s), p) > 0
           /\ CountOf(Mains(s), p) <= 1 =>
                \A i, j \in 1 .. Len(s) : s[i].photo = p /\ s[j].photo = p => i = j
<1>1. PICK m : m = Mains(s)
  OBVIOUS
<1>2. /\ m \in Seq(Photo) /\ Len(m) = Len(s) /\ Len(s) \in Nat
      /\ \A i \in 1 .. Len(s) : m[i] = s[i].photo
  BY <1>1, MainsIs
<1>3. CountOf(m, p) \in Nat /\ (CountOf(m, p) = 0 <=> \A i \in 1 .. Len(m) : m[i] # p)
  BY <1>2, CountType, CountZero
<1>4. p \in Members(m) <=> \E i \in 1 .. Len(m) : m[i] = p
  BY DEF Members
<1>5. CountOf(m, p) <= 1 => \A i, j \in 1 .. Len(m) : m[i] = p /\ m[j] = p => i = j
  BY <1>2, CountedOnce
<1>6. CountOf(m, p) > 0 <=> CountOf(m, p) # 0
  BY <1>3
<1>7. p \in Members(m) <=> CountOf(m, p) > 0
  BY <1>3, <1>4, <1>6
<1>8. \A i \in 1 .. Len(s) : s[i].photo = p => CountOf(m, p) > 0
  BY <1>2, <1>3, <1>6
<1> QED
  BY <1>1, <1>2, <1>3, <1>5, <1>7, <1>8

-----------------------------------------------------------------------------
LEMMA EntryPhotos ==
    /\ \A e \in QueuedPhoto : e.photo \in Photo
    /\ \A e \in PhotoPayload : e.photo \in Photo
    /\ \A e \in PhotoOutcome : e.photo \in Photo
  BY DEF QueuedPhoto, PhotoPayload, PhotoOutcome

LEMMA OutcomesConcat ==
    ASSUME NEW s \in Seq(PhotoOutcome), NEW t \in Seq(PhotoOutcome), NEW p
    PROVE  CountOf(Mains(s \o t), p) = CountOf(Mains(s), p) + CountOf(Mains(t), p)
<1>1. \A e \in PhotoOutcome : e.photo \in Photo
  BY EntryPhotos
<1> QED
  BY <1>1, MainsConcat

LEMMA BatchSizeIs ==
    ASSUME NEW S, same \in Seq(S), same # <<>>
    PROVE  BatchSize \in 1 .. Len(same)
<1>1. PICK n \in Nat \ {0} : n = Len(same)
  OBVIOUS
<1> DEFINE Closing == {k \in 1 .. n : k = n \/ ~(LinksOf[k + 1] <= MaxLinks)}
<1>2. Closing \in SUBSET Nat /\ n \in Closing
  OBVIOUS
<1>3. PICK k \in Closing : \A j \in Closing : k <= j
  <2>1. Closing # {}
    BY <1>2
  <2> HIDE DEF Closing
  <2> QED
    BY <1>2, <2>1, LeastNumber
<1>4. k \in 1 .. n /\ (k < n => ~(LinksOf[k + 1] <= MaxLinks))
  OBVIOUS
<1>5. k = 1 \/ LinksOf[k] <= MaxLinks
  <2> SUFFICES ASSUME k # 1, ~(LinksOf[k] <= MaxLinks) PROVE FALSE
    OBVIOUS
  <2>1. k - 1 \in 1 .. n /\ (k - 1) + 1 = k /\ k - 1 < k
    BY <1>4
  <2>2. k - 1 \in Closing
    BY <2>1
  <2> QED
    BY <1>3, <1>4, <2>1, <2>2
<1> HIDE DEF Closing
<1> QED
  BY <1>1, <1>4, <1>5 DEF BatchSize

\* What remains of the queue of payloads.
RestOf == SubSeq(same, BatchSize + 1, Len(same))

LEMMA BatchSplit ==
    ASSUME TransferTypes, same # <<>>
    PROVE  /\ Sent \in Seq(PhotoPayload) /\ Unsent \in Seq(PhotoPayload)
           /\ RestOf \in Seq(PhotoPayload)
           /\ \A p : CountOf(Mains(same), p) =
                        CountOf(Mains(Sent), p) + CountOf(Mains(Unsent), p) + CountOf(Mains(RestOf), p)
<1>1. same \in Seq(PhotoPayload)
  BY DEF TransferTypes
<1>2. PICK n \in Nat \ {0} : n = Len(same)
  BY <1>1
<1>3. PICK k \in 1 .. n : k = BatchSize
  BY <1>1, <1>2, BatchSizeIs
<1>4. PICK b, rest : b = Batch /\ rest = RestOf
  OBVIOUS
<1>5. b = SubSeq(same, 1, k) /\ rest = SubSeq(same, k + 1, n)
  BY <1>2, <1>3, <1>4 DEF Batch, RestOf
<1>6. b \in Seq(PhotoPayload) /\ rest \in Seq(PhotoPayload)
  BY <1>1, <1>2, <1>3, <1>5
<1>7. same = b \o rest
  <2>1. SubSeq(same, 1, n) = same
    BY <1>1, <1>2, SubSeqFull
  <2>2. SubSeq(same, 1, n) = SubSeq(same, 1, k) \o SubSeq(same, k + 1, n)
    BY <1>1, <1>2, <1>3
  <2> QED
    BY <1>5, <2>1, <2>2
<1>8. PICK P \in SUBSET (1 .. Len(b)) : P = {i \in 1 .. Len(b) : Sendable(b[i])}
  OBVIOUS
<1>9. Sent = Picked(b, P)
  BY <1>4, <1>8 DEF Sent
<1>10. Unsent = Picked(b, (1 .. Len(b)) \ P)
  <2>1. {i \in 1 .. Len(b) : ~Sendable(b[i])} = (1 .. Len(b)) \ P
    BY <1>8
  <2> QED
    BY <1>4, <2>1 DEF Unsent
<1>11. PICK R \in SUBSET (1 .. Len(b)) : R = (1 .. Len(b)) \ P
  OBVIOUS
<1>12. Sent \in Seq(PhotoPayload) /\ \A p : CountOf(Mains(Sent), p) = Cardinality(Spots(Mains(b), P, p))
  BY <1>6, <1>9, MainsPicked, EntryPhotos
<1>13. Unsent \in Seq(PhotoPayload) /\ \A p : CountOf(Mains(Unsent), p) = Cardinality(Spots(Mains(b), R, p))
  BY <1>6, <1>10, <1>11, MainsPicked, EntryPhotos
<1>14. ASSUME NEW p
       PROVE  CountOf(Mains(same), p) =
                CountOf(Mains(Sent), p) + CountOf(Mains(Unsent), p) + CountOf(Mains(rest), p)
  <2>1. CountOf(Mains(same), p) = CountOf(Mains(b), p) + CountOf(Mains(rest), p)
    BY <1>6, <1>7, MainsConcat, EntryPhotos
  <2>2. PICK m \in Seq(Photo) : m = Mains(b) /\ Len(m) = Len(b)
    BY <1>6, MainsIs, EntryPhotos
  <2>3. P \in SUBSET (1 .. Len(m)) /\ R = (1 .. Len(m)) \ P
    BY <1>11, <2>2
  <2>4. CountOf(m, p) = Cardinality(Spots(m, P, p)) + Cardinality(Spots(m, R, p))
    BY <2>3, SpotsSplit
  <2> QED
    BY <1>12, <1>13, <2>1, <2>2, <2>4
<1> QED
  BY <1>4, <1>6, <1>12, <1>13, <1>14

\* What the answers to a batch come to, payload by payload.
ReplyTo(sent, turned, i) ==
    IF ~FirstOf(sent, i) THEN "taken"
    ELSE IF sent[i].photo \in turned THEN "there" ELSE Answer(sent[i])

Verdict == [photo : Photo, result : {"ok", "again", "refused"}]
RepliedAs(sent, turned, v, i) ==
    /\ v[i].photo = sent[i].photo
    /\ v[i].result = "ok" <=> ReplyTo(sent, turned, i) = "taken"
    /\ v[i].result = "again" => sent[i].photo \notin again

LEMMA VerdictIs ==
    ASSUME NEW sent \in Seq(PhotoPayload), NEW turned, NEW i \in 1 .. Len(sent)
    PROVE  Verdicts(sent, turned)[i] \in Verdict /\ RepliedAs(sent, turned, Verdicts(sent, turned), i)
<1>1. PICK v : v = Verdicts(sent, turned)
  OBVIOUS
<1>2. PICK answer : answer = ReplyTo(sent, turned, i)
  OBVIOUS
<1>3. PICK missing : missing = IF answer = "missing" THEN Missing(sent[i]) ELSE {}
  OBVIOUS
<1>4. PICK photo, result : photo = sent[i].photo /\ result = Recorded(sent[i].photo, missing, answer)
  OBVIOUS
<1>5. v[i] = [photo |-> photo, result |-> result]
  BY <1>1, <1>2, <1>3, <1>4 DEF Verdicts, ReplyTo
<1>6. photo \in Photo
  <2>1. sent[i] \in PhotoPayload
    OBVIOUS
  <2> QED
    BY <1>4, <2>1, EntryPhotos
<1>7. result \in {"ok", "again", "refused"}
  BY <1>4, Zenon DEF Recorded
<1>8. result = "ok" <=> answer = "taken"
  BY <1>4 DEF Recorded
<1>9. result = "again" => photo \notin again
  BY <1>4 DEF Recorded
<1>10. [photo |-> photo, result |-> result] \in Verdict
  BY <1>6, <1>7 DEF Verdict
<1>11. v[i] \in Verdict /\ v[i].photo = photo /\ v[i].result = result
  BY <1>5, <1>10
<1>12. RepliedAs(sent, turned, v, i)
  BY <1>2, <1>4, <1>8, <1>9, <1>11 DEF RepliedAs
<1> QED
  BY <1>1, <1>11, <1>12

LEMMA VerdictsAre ==
    ASSUME NEW sent \in Seq(PhotoPayload), NEW turned
    PROVE  Verdicts(sent, turned) \in Seq(Verdict) /\ Len(Verdicts(sent, turned)) = Len(sent)
<1>1. PICK n \in Nat : n = Len(sent)
  OBVIOUS
<1>2. PICK v : v = Verdicts(sent, turned)
  OBVIOUS
<1>3. \A i \in 1 .. n : v[i] \in Verdict
  BY <1>1, <1>2, VerdictIs
<1>4. v = [i \in 1 .. n |-> v[i]]
  BY <1>1, <1>2, Zenon DEF Verdicts
<1>5. v \in [1 .. n -> Verdict]
  BY <1>3, <1>4
<1>6. v \in Seq(Verdict) /\ Len(v) = n
  BY <1>1, <1>5, IsASeq, LenProperties
<1> QED
  BY <1>1, <1>2, <1>6

-----------------------------------------------------------------------------
(* Keeping the books.                                                      *)

\* Outcomes are added: each for a photo that was left, ok if it was brought in, and
\* only what they are about has been.
Reported(left, new, left2, in, in2) ==
    /\ \A p \in Photo : left[p] = CountOf(Mains(new), p) + left2[p]
    /\ in \subseteq in2
ReportedTruly(new, in, ex, in2, ex2) ==
    /\ Truthful(new, in2, ex2)
    /\ \A p \in Photo : p \in in2 \ ex2 => p \in in \ ex \/ CountOf(Mains(new), p) > 0

\* A photo that was left may have been sent; one that is still left for the first time.
SentOnceMore(p, left, left2, s, a, s2, a2) ==
    \/ s2[p] = s[p]
    \/ /\ s2[p] = s[p] + 1 /\ left[p] > 0
       /\ left2[p] > 0 => p \notin a /\ p \in a2

LEMMA AccountKept ==
    ASSUME NEW g, NEW r, NEW left, NEW in, NEW ex, NEW s, NEW a, Book(g, r, left, in, ex, s, a),
           NEW new \in Seq(PhotoOutcome), NEW left2 \in [Photo -> Nat], NEW in2, NEW ex2,
           Reported(left, new, left2, in, in2)
    PROVE  r \o new \in Seq(PhotoOutcome) /\ Accounted(g, r \o new, left2)
<1>1. r \in Seq(PhotoOutcome) /\ left \in [Photo -> Nat] /\ Accounted(g, r, left)
  BY DEF Book
<1>2. r \o new \in Seq(PhotoOutcome)
  BY <1>1
<1>3. ASSUME NEW p \in Photo PROVE CountOf(g, p) = CountOf(Mains(r \o new), p) + left2[p]
  <2>1. CountOf(Mains(r \o new), p) = CountOf(Mains(r), p) + CountOf(Mains(new), p)
    BY <1>1, MainsConcat, EntryPhotos
  <2>2. CountOf(Mains(r), p) \in Nat /\ CountOf(Mains(new), p) \in Nat
    BY <1>1, MainsCounted, EntryPhotos
  <2>3. left[p] = CountOf(Mains(new), p) + left2[p] /\ left2[p] \in Nat
    BY DEF Reported
  <2>4. CountOf(g, p) = CountOf(Mains(r), p) + left[p]
    BY <1>1 DEF Accounted
  <2> QED
    BY <2>1, <2>2, <2>3, <2>4
<1> QED
  BY <1>2, <1>3 DEF Accounted

LEMMA TruthJoined ==
    ASSUME NEW r \in Seq(PhotoOutcome), NEW new \in Seq(PhotoOutcome), NEW in,
           NEW ex, Truthful(r, in, ex), Truthful(new, in, ex)
    PROVE  Truthful(r \o new, in, ex)
<1>1. PICK m \in Nat, n \in Nat : m = Len(r) /\ n = Len(new)
  OBVIOUS
<1>2. PICK t : t = r \o new
  OBVIOUS
<1>3. /\ Len(t) = m + n
      /\ \A i \in 1 .. m : t[i] = r[i]
      /\ \A i \in 1 .. n : t[m + i] = new[i]
  BY <1>1, <1>2, JoinedIs
<1>4. ASSUME NEW i \in 1 .. Len(t)
      PROVE  /\ t[i].result = "ok" => t[i].photo \in in
             /\ t[i].photo \in in \ ex => t[i].result = "ok"
  <2>1. CASE i \in 1 .. m
    BY <1>1, <1>3, <2>1 DEF Truthful
  <2>2. CASE i \notin 1 .. m
    <3>1. PICK k \in 1 .. n : i = m + k
      <4>1. i - m \in 1 .. n /\ i = m + (i - m)
        BY <1>3, <2>2
      <4> QED
        BY <4>1
    <3>2. t[i] = new[k]
      BY <1>3, <3>1
    <3> QED
      BY <1>1, <3>2 DEF Truthful
  <2> QED
    BY <2>1, <2>2
<1> QED
  BY <1>2, <1>4 DEF Truthful

LEMMA TruthKept ==
    ASSUME NEW g, NEW r, NEW left, NEW in, NEW ex, NEW s, NEW a, Book(g, r, left, in, ex, s, a),
           NEW new \in Seq(PhotoOutcome), NEW left2 \in [Photo -> Nat], NEW in2, NEW ex2,
           Reported(left, new, left2, in, in2), NoneTwice(g), ReportedTruly(new, in, ex, in2, ex2)
    PROVE  Truthful(r \o new, in2, ex2) /\ BroughtInAnswered(left2, in2, ex2)
<1>1. /\ r \in Seq(PhotoOutcome) /\ left \in [Photo -> Nat]
      /\ Truthful(r, in, ex) /\ BroughtInAnswered(left, in, ex)
  BY DEF Book
<1>2. ASSUME NEW p \in Photo
      PROVE  /\ CountOf(Mains(r), p) \in Nat /\ CountOf(Mains(new), p) \in Nat
             /\ CountOf(Mains(r), p) + CountOf(Mains(new), p) + left2[p] <= 1 /\ left2[p] \in Nat
             /\ left[p] = CountOf(Mains(new), p) + left2[p]
  <2>1. CountOf(Mains(r), p) \in Nat /\ CountOf(Mains(new), p) \in Nat
    BY <1>1, MainsCounted, EntryPhotos
  <2>2. left[p] = CountOf(Mains(new), p) + left2[p] /\ left2[p] \in Nat
    BY DEF Reported
  <2>3. CountOf(g, p) = CountOf(Mains(r), p) + left[p] /\ CountOf(g, p) <= 1
    BY DEF Book, Accounted, NoneTwice
  <2> QED
    BY <2>1, <2>2, <2>3
<1>3. ASSUME NEW i \in 1 .. Len(r)
      PROVE  /\ r[i].result = "ok" => r[i].photo \in in2
             /\ r[i].photo \in in2 \ ex2 => r[i].result = "ok"
  <2>1. PICK p \in Photo : p = r[i].photo
    BY <1>1, EntryPhotos
  <2>2. CountOf(Mains(r), p) > 0
    BY <1>1, <2>1, MainsCounted, EntryPhotos
  <2>3. CountOf(Mains(new), p) = 0
    BY <1>2, <2>2
  <2>4. (p \in in => p \in in2) /\ (p \in in2 \ ex2 => p \in in \ ex)
    BY <2>3 DEF Reported, ReportedTruly
  <2>5. (r[i].result = "ok" => p \in in) /\ (p \in in \ ex => r[i].result = "ok")
    BY <1>1, <2>1 DEF Truthful
  <2> QED
    BY <2>1, <2>4, <2>5
<1>4. Truthful(r, in2, ex2) /\ Truthful(new, in2, ex2)
  BY <1>3 DEF ReportedTruly, Truthful
<1>5. Truthful(r \o new, in2, ex2)
  BY <1>1, <1>4, TruthJoined
<1>6. ASSUME NEW p \in Photo, p \in in2 \ ex2 PROVE left2[p] = 0
  <2>1. CASE p \in in \ ex
    BY <1>1, <1>2, <2>1 DEF BroughtInAnswered
  <2>2. CASE p \notin in \ ex
    <3>1. CountOf(Mains(new), p) > 0
      BY <1>6, <2>2 DEF ReportedTruly
    <3> QED
      BY <1>2, <3>1
  <2> QED
    BY <2>1, <2>2
<1> QED
  BY <1>5, <1>6 DEF BroughtInAnswered

LEMMA SendsKept ==
    ASSUME NEW g, NEW r, NEW left, NEW in, NEW ex, NEW s, NEW a, Book(g, r, left, in, ex, s, a),
           NEW new \in Seq(PhotoOutcome), NEW left2 \in [Photo -> Nat], NEW in2, NEW ex2,
           Reported(left, new, left2, in, in2), NEW s2 \in [Photo -> Nat], NEW a2, a \subseteq a2,
           \A p \in Photo : CountOf(g, p) <= 1 => SentOnceMore(p, left, left2, s, a, s2, a2)
    PROVE  SentAtMostTwice(g, left2, s2, a2)
<1> SUFFICES ASSUME NEW p \in Photo, CountOf(g, p) <= 1
             PROVE  /\ s2[p] <= 2
                    /\ left2[p] > 0 => s2[p] <= 1 /\ (p \notin a2 => s2[p] = 0)
  BY DEF SentAtMostTwice
<1>1. /\ s[p] \in Nat /\ s2[p] \in Nat /\ left[p] \in Nat /\ left2[p] \in Nat
      /\ s[p] <= 2
      /\ left[p] > 0 => s[p] <= 1 /\ (p \notin a => s[p] = 0)
  BY DEF Book, SentAtMostTwice
<1>2. left2[p] > 0 => left[p] > 0
  <2>1. CountOf(Mains(new), p) \in Nat
    BY MainsCounted, EntryPhotos
  <2>2. left[p] = CountOf(Mains(new), p) + left2[p]
    BY DEF Reported
  <2> QED
    BY <1>1, <2>1, <2>2
<1>3. SentOnceMore(p, left, left2, s, a, s2, a2)
  OBVIOUS
<1>4. p \notin a2 => p \notin a
  OBVIOUS
<1> QED
  BY <1>1, <1>2, <1>3, <1>4 DEF SentOnceMore

LEMMA BookKept ==
    ASSUME NEW g, NEW r, NEW left, NEW in, NEW ex, NEW s, NEW a, Book(g, r, left, in, ex, s, a),
           NEW new \in Seq(PhotoOutcome), NEW left2 \in [Photo -> Nat], NEW in2, NEW ex2,
           Reported(left, new, left2, in, in2), NoneTwice(g) => ReportedTruly(new, in, ex, in2, ex2),
           NEW s2 \in [Photo -> Nat], NEW a2, a \subseteq a2,
           \A p \in Photo : CountOf(g, p) <= 1 => SentOnceMore(p, left, left2, s, a, s2, a2)
    PROVE  Book(g, r \o new, left2, in2, ex2, s2, a2)
<1>1. g \in Seq(Photo)
  BY DEF Book
<1>2. r \o new \in Seq(PhotoOutcome) /\ Accounted(g, r \o new, left2)
  BY AccountKept
<1>3. NoneTwice(g) => Truthful(r \o new, in2, ex2) /\ BroughtInAnswered(left2, in2, ex2)
  BY TruthKept
<1>4. SentAtMostTwice(g, left2, s2, a2)
  BY SendsKept
<1> QED
  BY <1>1, <1>2, <1>3, <1>4 DEF Book

-----------------------------------------------------------------------------
(* The calls.                                                              *)

LEMMA LeftIs ==
    ASSUME NEW waiting \in Seq(QueuedPhoto), NEW own \in Seq(PhotoPayload),
           NEW other \in Seq(PhotoPayload)
    PROVE  /\ Left(waiting, own, other) \in [Photo -> Nat]
           /\ \A p \in Photo :
                /\ Left(waiting, own, other)[p] =
                        CountOf(Mains(waiting), p) + CountOf(Mains(own), p) + CountOf(Mains(other), p)
                /\ CountOf(Mains(waiting), p) \in Nat /\ CountOf(Mains(own), p) \in Nat
                /\ CountOf(Mains(other), p) \in Nat
<1>1. \A p \in Photo : CountOf(Mains(waiting), p) \in Nat
  BY MainsCounted, EntryPhotos
<1>2. \A p \in Photo : CountOf(Mains(own), p) \in Nat
  BY MainsCounted, EntryPhotos
<1>3. \A p \in Photo : CountOf(Mains(other), p) \in Nat
  BY MainsCounted, EntryPhotos
<1> QED
  BY <1>1, <1>2, <1>3 DEF Left

\* A transfer starts with the books open.
LEMMA BookOpens ==
    ASSUME NEW photos \in Seq(Photo), NEW waiting \in Seq(QueuedPhoto), Mains(waiting) = photos, NEW a
    PROVE  Book(photos, <<>>, Left(waiting, <<>>, <<>>), {}, {}, [p \in Photo |-> 0], a)
<1>1. PICK none : none = <<>>
  OBVIOUS
<1>2. none \in Seq(PhotoPayload) /\ none \in Seq(PhotoOutcome) /\ Len(none) = 0
  BY <1>1
<1>3. PICK left : left = Left(waiting, none, none)
  OBVIOUS
<1>4. left \in [Photo -> Nat]
  BY <1>2, <1>3, LeftIs
<1>5. \A p : CountOf(Mains(none), p) = 0
  BY <1>1, MainsEmpty
<1>6. \A p \in Photo : left[p] = CountOf(photos, p) /\ CountOf(photos, p) \in Nat
  <2>1. \A p \in Photo : CountOf(Mains(waiting), p) \in Nat
    BY MainsCounted, EntryPhotos
  <2> QED
    BY <1>3, <1>5, <2>1 DEF Left
<1>7. Accounted(photos, none, left)
  BY <1>5, <1>6 DEF Accounted
<1>8. Truthful(none, {}, {}) /\ BroughtInAnswered(left, {}, {})
  BY <1>2 DEF Truthful, BroughtInAnswered
<1>9. PICK z \in [Photo -> Nat] : z = [p \in Photo |-> 0] /\ \A p \in Photo : z[p] = 0
  <2>1. [p \in Photo |-> 0] \in [Photo -> Nat]
    OBVIOUS
  <2> QED
    BY <2>1
<1>10. SentAtMostTwice(photos, left, z, a)
  BY <1>9 DEF SentAtMostTwice
<1>11. Book(photos, none, left, {}, {}, z, a)
  BY <1>2, <1>4, <1>7, <1>8, <1>9, <1>10 DEF Book
<1> QED
  BY <1>1, <1>3, <1>9, <1>11

\* The queue of a call: its photos, with nothing asked for.
QueueOf(photos) == [i \in 1 .. Len(photos) |-> [photo |-> photos[i], extra |-> {}]]

LEMMA QueueIs ==
    ASSUME NEW photos \in Seq(Photo)
    PROVE  QueueOf(photos) \in Seq(QueuedPhoto) /\ Mains(QueueOf(photos)) = photos
<1>1. PICK n \in Nat : n = Len(photos)
  OBVIOUS
<1>2. PICK q : q = QueueOf(photos)
  OBVIOUS
<1>3. q = [i \in 1 .. n |-> [photo |-> photos[i], extra |-> {}]]
  BY <1>1, <1>2 DEF QueueOf
<1>4. \A i \in 1 .. n : [photo |-> photos[i], extra |-> {}] \in QueuedPhoto
  BY <1>1 DEF QueuedPhoto
<1>5. q \in [1 .. n -> QueuedPhoto] /\ \A i \in 1 .. n : q[i].photo = photos[i]
  BY <1>3, <1>4
<1>6. q \in Seq(QueuedPhoto) /\ Len(q) = n
  BY <1>1, <1>5, IsASeq, LenProperties
<1>7. Mains(q) \in Seq(Photo) /\ Len(Mains(q)) = n /\ \A i \in 1 .. n : Mains(q)[i] = q[i].photo
  BY <1>6, MainsIs, EntryPhotos
<1>8. Mains(q) = photos
  BY <1>1, <1>5, <1>7, MainsSame
<1> QED
  BY <1>2, <1>6, <1>8

LEMMA RefusalsAre ==
    ASSUME NEW photos \in Seq(Photo)
    PROVE  /\ Refusals(photos) \in Seq(PhotoOutcome) /\ Len(Refusals(photos)) = Len(photos)
           /\ Mains(Refusals(photos)) = photos
           /\ \A i \in 1 .. Len(photos) :
                Refusals(photos)[i].result = "refused" /\ Refusals(photos)[i].photo = photos[i]
<1>1. PICK n \in Nat : n = Len(photos)
  OBVIOUS
<1>2. PICK q : q = Refusals(photos)
  OBVIOUS
<1>3. q = [i \in 1 .. n |-> [photo |-> photos[i], result |-> "refused"]]
  BY <1>1, <1>2 DEF Refusals
<1>4. \A i \in 1 .. n : [photo |-> photos[i], result |-> "refused"] \in PhotoOutcome
  BY <1>1 DEF PhotoOutcome
<1>5. /\ q \in [1 .. n -> PhotoOutcome]
      /\ \A i \in 1 .. n : q[i].photo = photos[i] /\ q[i].result = "refused"
  BY <1>3, <1>4
<1>6. q \in Seq(PhotoOutcome) /\ Len(q) = n
  BY <1>1, <1>5, IsASeq, LenProperties
<1>7. Mains(q) \in Seq(Photo) /\ Len(Mains(q)) = n /\ \A i \in 1 .. n : Mains(q)[i] = q[i].photo
  BY <1>6, MainsIs, EntryPhotos
<1>8. Mains(q) = photos
  BY <1>1, <1>5, <1>7, MainsSame
<1> QED
  BY <1>1, <1>2, <1>5, <1>6, <1>8

LEMMA CallOpens ==
    ASSUME TransferInv, NEW kind, NEW photos \in Seq(Photo), NEW refused \in Seq(Photo), NEW to,
           Open(kind, photos, refused, to),
           \/ kind = "load" /\ refused = <<>>
           \/ kind = "remove" /\ to = "out"
           \/ kind = "tag" /\ to = "tags"
    PROVE  TransferInv'
<1>1. /\ apc' = kind /\ goal' = to /\ given' = photos \o refused
      /\ todo' = QueueOf(photos) /\ same' = <<>> /\ copies' = <<>> /\ results' = Refusals(refused)
      /\ sends' = [p \in Photo |-> 0] /\ took' = {} /\ aside' = {}
      /\ group' = group /\ album' = album /\ timeline' = timeline
  BY DEF Open, QueueOf, photoServer
<1>2. TransferTypes'
  <2>1. given' \in Seq(Photo)
    BY <1>1
  <2>2. todo' \in Seq(QueuedPhoto)
    BY <1>1, QueueIs
  <2>3. results' \in Seq(PhotoOutcome)
    BY <1>1, RefusalsAre
  <2>4. same' \in Seq(PhotoPayload) /\ copies' \in Seq(PhotoPayload)
    BY <1>1
  <2>5. sends' \in [Photo -> Nat]
    BY <1>1
  <2> QED
    BY <1>1, <2>1, <2>2, <2>3, <2>4, <2>5 DEF TransferInv, TransferTypes
<1>3. AllAnswered' /\ (apc' = "remove" => goal' = "out") /\ (apc' = "tag" => goal' = "tags")
  BY <1>1 DEF AllAnswered, Transferred
<1>4. \A p \in Photo : CountOf(given', p) <= 1 => sends'[p] <= 2
  BY <1>1
<1>5. ASSUME Transferring' PROVE Book(given', results', LeftNow', took', aside', sends', again')
  <2>1. refused = <<>>
    BY <1>1, <1>5 DEF Transferring, Transferred
  <2>2. photos \o <<>> = photos
    OBVIOUS
  <2>3. Refusals(<<>>) = <<>>
    BY DEF Refusals
  <2>4. given' = photos /\ results' = <<>>
    BY <1>1, <2>1, <2>2, <2>3
  <2>5. PICK waiting \in Seq(QueuedPhoto) : waiting = QueueOf(photos) /\ Mains(waiting) = photos
    BY QueueIs
  <2>6. Book(photos, <<>>, Left(waiting, <<>>, <<>>), {}, {}, [p \in Photo |-> 0], again')
    BY <2>5, BookOpens
  <2>7. LeftNow' = Left(waiting, <<>>, <<>>)
    BY <1>1, <2>5 DEF LeftNow
  <2> QED
    BY <1>1, <2>4, <2>6, <2>7
<1> QED
  BY <1>2, <1>3, <1>4, <1>5 DEF TransferInv

LEMMA CallsOpen ==
    ASSUME TransferInv,
           \/ \E photos \in Requests :
                 \/ AddPhotosToAlbum(photos) \/ SavePhotosToTimeline(photos)
                 \/ RemovePhotos(photos) \/ UpdatePhotos(photos)
           \/ DeleteSaving /\ apc' = "load"
    PROVE  TransferInv'
<1>1. <<>> \in Seq(Photo)
  OBVIOUS
<1>2. ASSUME NEW photos \in Requests, AddPhotosToAlbum(photos) \/ SavePhotosToTimeline(photos)
      PROVE  TransferInv'
  <2>1. photos \in Seq(Photo)
    BY PhotosAssumption
  <2>2. Open("load", photos, <<>>, "album") \/ Open("load", photos, <<>>, "timeline")
    BY <1>2 DEF AddPhotosToAlbum, SavePhotosToTimeline
  <2> QED
    BY <1>1, <2>1, <2>2, CallOpens
<1>3. ASSUME NEW photos \in Requests, RemovePhotos(photos) PROVE TransferInv'
  <2>1. photos \in Seq(Photo)
    BY PhotosAssumption
  <2>2. PICK A \in SUBSET (1 .. Len(photos)), B \in SUBSET (1 .. Len(photos)) :
          /\ A = {i \in 1 .. Len(photos) : photos[i] \in Own}
          /\ B = {i \in 1 .. Len(photos) : photos[i] \in Foreign}
    OBVIOUS
  <2>3. Picked(photos, A) \in Seq(Photo) /\ Picked(photos, B) \in Seq(Photo)
    BY <2>1, PickedIs
  <2>4. Open("remove", Picked(photos, A), Picked(photos, B), "out")
    BY <1>3, <2>2 DEF RemovePhotos
  <2> QED
    BY <2>3, <2>4, CallOpens
<1>4. ASSUME NEW photos \in Requests, UpdatePhotos(photos) PROVE TransferInv'
  <2>1. photos \in Seq(Photo) /\ Open("tag", photos, <<>>, "tags")
    BY <1>4, PhotosAssumption DEF UpdatePhotos
  <2> QED
    BY <1>1, <2>1, CallOpens
<1>5. ASSUME DeleteSaving, apc' = "load" PROVE TransferInv'
  <2>1. PICK photos \in Orderings(OnlyInAlbum) : Open("load", photos, <<>>, "timeline")
    BY <1>5 DEF DeleteSaving
  <2>2. OnlyInAlbum \in SUBSET Photo
    BY DEF TransferInv, TransferTypes, OnlyInAlbum
  <2>3. IsFiniteSet(OnlyInAlbum)
    BY <2>2, PhotosAssumption, FS_Subset
  <2>4. photos \in Seq(OnlyInAlbum)
    BY <2>1, <2>3, CountOrdering
  <2>5. photos \in Seq(Photo)
    BY <2>2, <2>4
  <2> QED
    BY <1>1, <2>1, <2>5, CallOpens
<1> QED
  BY <1>2, <1>3, <1>4, <1>5

\* Steps that leave the call and its books alone.
LEMMA BooksUntouched ==
    ASSUME TransferInv, UNCHANGED <<given, todo, same, copies, again, results, sends, took, aside, goal>>,
           group' \in [Photo -> SUBSET Photo], timeline' \cup album' \in SUBSET Photo,
           \/ apc' = apc
           \/ apc \in {"load", "send", "delete"} /\ apc' = "load"
           \/ apc \in {"load", "send", "delete"} /\ apc' = "send"
           \/ /\ apc \in {"send", "delete"} /\ apc' \in {"delete", "idle"}
              /\ todo = <<>> /\ same = <<>> /\ copies = <<>>
    PROVE  TransferInv'
<1>1. TransferTypes'
  BY DEF TransferInv, TransferTypes
<1>2. Transferred' => Transferring
  BY DEF Transferred, Transferring
<1>3. Transferring' => Transferring
  BY <1>2 DEF Transferred, Transferring
<1>4. AllAnswered'
  BY DEF TransferInv, AllAnswered, Transferred
<1>5. (apc' = "remove" => goal' = "out") /\ (apc' = "tag" => goal' = "tags")
  BY DEF TransferInv
<1>6. LeftNow' = LeftNow
  BY DEF LeftNow
<1>7. Transferring' => Book(given', results', LeftNow', took', aside', sends', again')
  BY <1>3, <1>6 DEF TransferInv
<1> QED
  BY <1>1, <1>4, <1>5, <1>7 DEF TransferInv

LEMMA OthersMove ==
    ASSUME TransferInv,
           \/ RoundLoaded \/ RoundDone \/ DeleteAgain \/ Meddle
           \/ \E withPhotos \in BOOLEAN : DeleteAlbum(withPhotos)
           \/ DeleteSaving /\ apc' # "load"
    PROVE  TransferInv'
<1>1. group \in [Photo -> SUBSET Photo] /\ timeline \cup album \in SUBSET Photo
  BY DEF TransferInv, TransferTypes
<1>2. CASE RoundLoaded
  BY <1>1, <1>2, BooksUntouched DEF RoundLoaded, photoServer
<1>3. CASE RoundDone
  BY <1>1, <1>3, BooksUntouched DEF RoundDone, photoServer
<1>4. CASE DeleteAgain
  <2>1. UNCHANGED <<given, todo, same, copies, again, results, sends, took, aside, goal, group, timeline>>
    BY <1>4 DEF DeleteAgain
  <2>2. timeline' \cup album' \in SUBSET Photo
    BY <1>1, <1>4 DEF DeleteAgain
  <2>3. apc = "delete" /\ apc' = "idle" /\ todo = <<>> /\ same = <<>> /\ copies = <<>>
    BY <1>4 DEF DeleteAgain, TransferInv, AllAnswered
  <2> QED
    BY <1>1, <2>1, <2>2, <2>3, BooksUntouched
<1>5. CASE Meddle
  <2>1. UNCHANGED <<given, todo, same, copies, again, results, sends, took, aside, goal, apc>>
    BY <1>5 DEF Meddle
  <2>2. group' \in [Photo -> SUBSET Photo] /\ timeline' \cup album' \in SUBSET Photo
    <3>1. CASE \E p, r \in Photo :
                 /\ group' = [group EXCEPT ![p] = @ \cup {r}] /\ album' = album
                 /\ timeline' = timeline
      <4>1. PICK p \in Photo, r \in Photo :
                 /\ group' = [group EXCEPT ![p] = @ \cup {r}] /\ album' = album
                 /\ timeline' = timeline
        BY <3>1
      <4>2. group[p] \cup {r} \in SUBSET Photo
        BY <1>1
      <4> QED
        BY <1>1, <4>1, <4>2
    <3>2. CASE group' = group /\ timeline' \cup album' \subseteq timeline \cup album
      BY <1>1, <3>2
    <3>3. CASE \E p \in timeline \ album :
                 /\ album' = album \cup {p} /\ timeline' \in {timeline, timeline \ {p}}
                 /\ group' = group
      BY <3>2, <3>3
    <3>4. CASE \E p \in OnlyInAlbum : timeline' = timeline \cup {p} /\ album' = album /\ group' = group
      BY <3>2, <3>4 DEF OnlyInAlbum
    <3> QED
      BY <1>5, <3>1, <3>3, <3>4 DEF Meddle
  <2> QED
    BY <2>1, <2>2, BooksUntouched
<1>6. CASE \E withPhotos \in BOOLEAN : DeleteAlbum(withPhotos)
  <2>1. /\ UNCHANGED <<given, todo, same, copies, again, results, sends, took, aside, goal, apc, group, timeline>>
        /\ album' = {}
    BY <1>6 DEF DeleteAlbum
  <2> QED
    BY <1>1, <2>1, BooksUntouched
<1>7. CASE DeleteSaving /\ apc' # "load"
  <2>1. /\ UNCHANGED <<given, todo, same, copies, again, results, sends, took, aside, goal, apc, group, timeline>>
        /\ album' = {}
    BY <1>7 DEF DeleteSaving, Open
  <2> QED
    BY <1>1, <2>1, BooksUntouched
<1> QED
  BY <1>2, <1>3, <1>4, <1>5, <1>6, <1>7

\* The calls that transfer nothing.
LEMMA OtherCalls ==
    ASSUME TransferInv,
           \/ CreateAlbum \/ \E p \in Photo : SetAlbumCover(p)
           \/ RemoveBatch \/ TagPhoto \/ UpdatePhotosStreaming
    PROVE  TransferInv'
<1>1. /\ given \in Seq(Photo) /\ todo \in Seq(QueuedPhoto) /\ same \in Seq(PhotoPayload)
      /\ copies \in Seq(PhotoPayload) /\ results \in Seq(PhotoOutcome)
      /\ group \in [Photo -> SUBSET Photo] /\ sends \in [Photo -> Nat] /\ timeline \cup album \in SUBSET Photo
  BY DEF TransferInv, TransferTypes
<1>2. CASE CreateAlbum \/ \E p \in Photo : SetAlbumCover(p)
  <2>1. /\ apc = "idle" /\ apc' = "idle" /\ given' = <<>> /\ sends' = [p \in Photo |-> 0]
        /\ UNCHANGED <<todo, same, copies, results, group, album, timeline>>
    BY <1>2 DEF CreateAlbum, SetAlbumCover, AlbumRequest
  <2>2. given' \in Seq(Photo) /\ sends' \in [Photo -> Nat] /\ \A p \in Photo : sends'[p] <= 2
    BY <2>1
  <2>3. TransferTypes'
    BY <1>1, <2>1, <2>2 DEF TransferTypes
  <2>4. ~Transferred' /\ ~Transferring'
    BY <2>1 DEF Transferred, Transferring
  <2>5. AllAnswered'
    BY <2>1, <2>4 DEF AllAnswered
  <2> QED
    BY <2>1, <2>2, <2>3, <2>4, <2>5 DEF TransferInv
<1>3. ASSUME todo' \in Seq(QueuedPhoto), results' \in Seq(PhotoOutcome), timeline' \cup album' \in SUBSET Photo,
             UNCHANGED <<given, same, copies, group, sends, goal>>,
             apc \in {"remove", "tag"}, apc' \in {apc, "idle"}
      PROVE  TransferInv'
  <2>1. TransferTypes'
    BY <1>1, <1>3 DEF TransferTypes
  <2>2. goal \in {"out", "tags"}
    BY <1>3 DEF TransferInv
  <2>3. ~Transferred' /\ ~Transferring'
    BY <1>3, <2>2 DEF Transferred, Transferring
  <2>4. AllAnswered'
    BY <1>3, <2>3 DEF AllAnswered
  <2>5. (apc' = "remove" => goal' = "out") /\ (apc' = "tag" => goal' = "tags")
    BY <1>3 DEF TransferInv
  <2>6. \A p \in Photo : CountOf(given', p) <= 1 => sends'[p] <= 2
    BY <1>3 DEF TransferInv
  <2> QED
    BY <2>1, <2>3, <2>4, <2>5, <2>6 DEF TransferInv
<1>4. CASE UpdatePhotosStreaming
  <2>1. todo' = <<>> /\ apc = "tag" /\ UNCHANGED <<given, same, copies, group, sends, goal, apc, results, album,
                                                 timeline>>
    BY <1>4 DEF UpdatePhotosStreaming, photoServer
  <2>2. todo' \in Seq(QueuedPhoto)
    BY <2>1
  <2> QED
    BY <1>1, <1>3, <2>1, <2>2
<1>5. CASE TagPhoto
  <2>1. UNCHANGED <<given, same, copies, group, sends, goal, album, timeline>> /\ apc = "tag" /\ apc' \in {apc, "idle"}
    BY <1>5 DEF TagPhoto
  <2>2. CASE todo = <<>>
    <3>1. UNCHANGED <<todo, results>>
      BY <1>5, <2>2 DEF TagPhoto
    <3> QED
      BY <1>1, <1>3, <2>1, <3>1
  <2>3. CASE todo # <<>>
    <3>1. todo' = Tail(todo)
      BY <1>5, <2>3 DEF TagPhoto
    <3>2. PICK p \in Photo : p = Head(todo).photo
      BY <1>1, <2>3, EntryPhotos
    <3>3. \E r \in {"ok", "refused"} : results' = Append(results, [photo |-> p, result |-> r])
      BY <1>5, <2>3, <3>2, Zenon DEF TagPhoto, Report
    <3>4. \A r \in {"ok", "refused"} : [photo |-> p, result |-> r] \in PhotoOutcome
      BY DEF PhotoOutcome
    <3>5. results' \in Seq(PhotoOutcome)
      BY <1>1, <3>3, <3>4
    <3>6. todo' \in Seq(QueuedPhoto)
      BY <1>1, <2>3, <3>1
    <3> QED
      BY <1>1, <1>3, <2>1, <3>5, <3>6
  <2> QED
    BY <2>2, <2>3
<1>6. CASE RemoveBatch
  <2>1. UNCHANGED <<given, same, copies, group, sends, goal, timeline>> /\ apc = "remove" /\ apc' \in {apc, "idle"}
    BY <1>6 DEF RemoveBatch
  <2>2. CASE todo = <<>>
    <3>1. UNCHANGED <<todo, results, album, timeline>>
      BY <1>6, <2>2 DEF RemoveBatch
    <3> QED
      BY <1>1, <1>3, <2>1, <3>1
  <2>3. CASE todo # <<>>
    <3>1. PICK len \in Nat \ {0} : len = Len(todo)
      BY <1>1, <2>3
    <3>2. PICK n \in 1 .. len : n = Least(MaxRemoved, Len(todo))
      BY <3>1, PhotosAssumption DEF Least
    <3>3. todo' = SubSeq(todo, n + 1, Len(todo))
      BY <1>6, <2>3, <3>2 DEF RemoveBatch
    <3>4. \E removed, result :
             /\ result \in {"ok", "refused"} /\ album' = album \ removed
             /\ results' = results \o [i \in 1 .. n |-> [photo |-> todo[i].photo, result |-> result]]
      BY <1>6, <2>3, <3>2, Zenon DEF RemoveBatch
    <3>5. PICK removed, result :
             /\ result \in {"ok", "refused"} /\ album' = album \ removed
             /\ results' = results \o [i \in 1 .. n |-> [photo |-> todo[i].photo, result |-> result]]
      BY <3>4
    <3>6. PICK new : new = [i \in 1 .. n |-> [photo |-> todo[i].photo, result |-> result]]
      OBVIOUS
    <3>7. \A i \in 1 .. n : [photo |-> todo[i].photo, result |-> result] \in PhotoOutcome
      <4>1. \A i \in 1 .. n : todo[i].photo \in Photo
        BY <1>1, <3>1, EntryPhotos
      <4> QED
        BY <3>5, <4>1 DEF PhotoOutcome
    <3>8. new \in [1 .. n -> PhotoOutcome]
      BY <3>6, <3>7
    <3>9. new \in Seq(PhotoOutcome)
      BY <3>8, IsASeq
    <3>10. results' \in Seq(PhotoOutcome)
      BY <1>1, <3>5, <3>6, <3>9
    <3>11. todo' \in Seq(QueuedPhoto)
      BY <1>1, <3>1, <3>2, <3>3
    <3>12. timeline' \cup album' \in SUBSET Photo
      BY <1>1, <2>1, <3>5
    <3> QED
      BY <1>3, <2>1, <3>10, <3>11, <3>12
  <2> QED
    BY <2>2, <2>3
<1> QED
  BY <1>2, <1>4, <1>5, <1>6

-----------------------------------------------------------------------------
(* The steps of a transfer.                                                *)

LEMMA BookGoesOn ==
    ASSUME TransferInv, apc \in {"load", "send"}, UNCHANGED <<apc, given, goal>>, TransferTypes',
           NEW new \in Seq(PhotoOutcome), results' = results \o new,
           Reported(LeftNow, new, LeftNow', took, took'),
           NoneTwice(given) => ReportedTruly(new, took, aside, took', aside'), again \subseteq again',
           \A p \in Photo :
                CountOf(given, p) <= 1 =>
                    SentOnceMore(p, LeftNow, LeftNow', sends, again, sends', again')
    PROVE  TransferInv'
<1>1. Book(given, results, LeftNow, took, aside, sends, again)
  BY DEF TransferInv, Transferring
<1>2. LeftNow' \in [Photo -> Nat]
  BY LeftIs DEF LeftNow, TransferTypes
<1>3. sends' \in [Photo -> Nat]
  BY DEF TransferTypes
<1>4. PICK left2 \in [Photo -> Nat], s2 \in [Photo -> Nat] : left2 = LeftNow' /\ s2 = sends'
  BY <1>2, <1>3
<1>5. PICK in2, ex2, a2 : in2 = took' /\ ex2 = aside' /\ a2 = again'
  OBVIOUS
<1>6. Book(given', results', LeftNow', took', aside', sends', again')
  <2>1. Book(given, results \o new, left2, in2, ex2, s2, a2)
    BY <1>1, <1>4, <1>5, BookKept
  <2> QED
    BY <1>4, <1>5, <2>1
<1>7. AllAnswered' /\ (apc' = "remove" => goal' = "out") /\ (apc' = "tag" => goal' = "tags")
  BY DEF AllAnswered, Transferred
<1>8. \A p \in Photo : CountOf(given', p) <= 1 => sends'[p] <= 2
  BY <1>6 DEF Book, SentAtMostTwice
<1> QED
  BY <1>6, <1>7, <1>8 DEF TransferInv

\* A photo given once is left at most once, and while it is left it is not brought in
\* but for the exceptions.
LEMMA LeftOnce ==
    ASSUME NEW g, NEW r, NEW left, NEW in, NEW ex, NEW s, NEW a, Book(g, r, left, in, ex, s, a), NEW p \in Photo
    PROVE  /\ left[p] \in Nat /\ CountOf(Mains(r), p) \in Nat
           /\ CountOf(g, p) = CountOf(Mains(r), p) + left[p]
           /\ NoneTwice(g) /\ left[p] > 0 => p \notin in \ ex
<1>1. left[p] \in Nat
  BY DEF Book
<1>2. CountOf(Mains(r), p) \in Nat
  BY MainsCounted, EntryPhotos DEF Book
<1>3. CountOf(g, p) = CountOf(Mains(r), p) + left[p]
  BY DEF Book, Accounted
<1>4. NoneTwice(g) /\ p \in in \ ex => left[p] = 0
  BY DEF Book, BroughtInAnswered
<1> QED
  BY <1>1, <1>2, <1>3, <1>4

\* One outcome for a photo of which one is answered for.
LEMMA OneAnswered ==
    ASSUME NEW g, NEW r, NEW left, NEW in, NEW ex, NEW s, NEW a, Book(g, r, left, in, ex, s, a),
           NEW left2 \in [Photo -> Nat], NEW o \in PhotoOutcome, NEW in2, NEW ex2,
           \A p \in Photo : left[p] = (IF o.photo = p THEN 1 ELSE 0) + left2[p],
           in \subseteq in2, o.result = "ok" => o.photo \in in2,
           \A p \in in2 \ ex2 : p \in in \ ex \/ (p = o.photo /\ o.result = "ok")
    PROVE  /\ <<o>> \in Seq(PhotoOutcome)
           /\ Reported(left, <<o>>, left2, in, in2)
           /\ NoneTwice(g) => ReportedTruly(<<o>>, in, ex, in2, ex2)
           /\ CountOf(g, o.photo) <= 1 => left2[o.photo] = 0
           /\ left[o.photo] > 0
<1>1. o.photo \in Photo
  BY EntryPhotos
<1>2. \A p \in Photo : CountOf(Mains(<<o>>), p) = IF o.photo = p THEN 1 ELSE 0
  BY MainsSingle, EntryPhotos
<1>3. Reported(left, <<o>>, left2, in, in2)
  BY <1>2 DEF Reported
<1>4. /\ left[o.photo] \in Nat /\ CountOf(Mains(r), o.photo) \in Nat
      /\ CountOf(g, o.photo) = CountOf(Mains(r), o.photo) + left[o.photo]
      /\ NoneTwice(g) /\ left[o.photo] > 0 => o.photo \notin in \ ex
  BY <1>1, LeftOnce
<1>5. left[o.photo] = 1 + left2[o.photo] /\ left2[o.photo] \in Nat
  BY <1>1
<1>6. left[o.photo] > 0 /\ (CountOf(g, o.photo) <= 1 => left2[o.photo] = 0)
  BY <1>4, <1>5
<1>7. ASSUME NoneTwice(g) PROVE ReportedTruly(<<o>>, in, ex, in2, ex2)
  <2>1. o.photo \notin in \ ex
    BY <1>4, <1>6, <1>7
  <2>2. (o.result = "ok" => o.photo \in in2) /\ (o.photo \in in2 \ ex2 => o.result = "ok")
    BY <2>1
  <2>3. Truthful(<<o>>, in2, ex2)
    <3>1. Len(<<o>>) = 1 /\ <<o>>[1] = o
      OBVIOUS
    <3>2. \A i \in 1 .. Len(<<o>>) : i = 1
      BY <3>1
    <3> QED
      BY <2>2, <3>1, <3>2 DEF Truthful
  <2>4. \A p \in Photo : p \in in2 \ ex2 => p \in in \ ex \/ CountOf(Mains(<<o>>), p) > 0
    BY <1>2
  <2> QED
    BY <2>3, <2>4 DEF ReportedTruly
<1> QED
  BY <1>3, <1>6, <1>7

\* Nothing is answered for.
LEMMA NoneAnswered ==
    ASSUME NEW g, NEW r, NEW left, NEW in, NEW ex, NEW s, NEW a, Book(g, r, left, in, ex, s, a)
    PROVE  /\ <<>> \in Seq(PhotoOutcome) /\ r \o <<>> = r
           /\ Reported(left, <<>>, left, in, in) /\ ReportedTruly(<<>>, in, ex, in, ex)
<1>1. <<>> \in Seq(PhotoOutcome) /\ Len(<<>>) = 0
  OBVIOUS
<1>2. r \o <<>> = r
  BY DEF Book
<1>3. \A p \in Photo : left[p] \in Nat
  BY DEF Book
<1>4. \A p : CountOf(Mains(<<>>), p) = 0
  BY MainsEmpty
<1>5. Reported(left, <<>>, left, in, in)
  BY <1>3, <1>4 DEF Reported
<1>6. ReportedTruly(<<>>, in, ex, in, ex)
  BY <1>1 DEF ReportedTruly, Truthful
<1> QED
  BY <1>1, <1>2, <1>5, <1>6

LEMMA PayloadLoads == ASSUME TransferInv, LoadPayload PROVE TransferInv'
<1>1. /\ given \in Seq(Photo) /\ todo \in Seq(QueuedPhoto) /\ same \in Seq(PhotoPayload)
      /\ copies \in Seq(PhotoPayload) /\ results \in Seq(PhotoOutcome)
      /\ group \in [Photo -> SUBSET Photo] /\ sends \in [Photo -> Nat]
      /\ timeline \cup album \in SUBSET Photo
  BY DEF TransferInv, TransferTypes
<1>2. Book(given, results, LeftNow, took, aside, sends, again)
  BY DEF TransferInv, Transferring, LoadPayload
<1>3. /\ apc = "load" /\ todo # <<>> /\ todo' = Tail(todo)
      /\ UNCHANGED <<apc, goal, given, again, sends, took, aside, group, timeline, album>>
  BY DEF LoadPayload, photoServer
<1>4. PICK e \in QueuedPhoto : e = Head(todo)
  BY <1>1, <1>3
<1>5. PICK p \in Photo : p = e.photo
  BY EntryPhotos
<1>6. todo' \in Seq(QueuedPhoto)
  BY <1>1, <1>3
<1>7. /\ LeftNow \in [Photo -> Nat]
      /\ \A q \in Photo :
           /\ LeftNow[q] = CountOf(Mains(todo), q) + CountOf(Mains(same), q) + CountOf(Mains(copies), q)
           /\ CountOf(Mains(todo), q) \in Nat /\ CountOf(Mains(same), q) \in Nat
           /\ CountOf(Mains(copies), q) \in Nat
  BY <1>1, LeftIs DEF LeftNow
<1>8. \A q : CountOf(Mains(todo), q) = (IF p = q THEN 1 ELSE 0) + CountOf(Mains(todo'), q)
  BY <1>1, <1>3, <1>4, <1>5, MainsHead, EntryPhotos
<1>9. CASE results' = Append(results, [photo |-> p, result |-> "refused"]) /\ UNCHANGED <<same, copies>>
  <2>1. PICK o \in PhotoOutcome : o = [photo |-> p, result |-> "refused"]
    <3>1. [photo |-> p, result |-> "refused"] \in PhotoOutcome
      BY DEF PhotoOutcome
    <3> QED
      BY <3>1
  <2>2. o.photo = p /\ o.result # "ok"
    BY <2>1
  <2>3. results' = results \o <<o>>
    BY <1>1, <1>9, <2>1, AppendIsConcat
  <2>4. results' \in Seq(PhotoOutcome)
    BY <1>1, <1>9, <2>1
  <2>5. TransferTypes'
    BY <1>1, <1>3, <1>6, <1>9, <2>4 DEF TransferTypes
  <2>6. PICK left2 : left2 = LeftNow'
    OBVIOUS
  <2>7. /\ left2 \in [Photo -> Nat]
        /\ \A q \in Photo :
             /\ left2[q] = CountOf(Mains(todo'), q) + CountOf(Mains(same), q) + CountOf(Mains(copies), q)
             /\ CountOf(Mains(todo'), q) \in Nat
    BY <1>1, <1>6, <1>9, <2>6, LeftIs DEF LeftNow
  <2>8. \A q \in Photo : LeftNow[q] = (IF o.photo = q THEN 1 ELSE 0) + left2[q]
    BY <1>7, <1>8, <2>2, <2>7
  <2>9. /\ <<o>> \in Seq(PhotoOutcome)
        /\ Reported(LeftNow, <<o>>, left2, took, took)
        /\ NoneTwice(given) => ReportedTruly(<<o>>, took, aside, took, aside)
    BY <1>2, <2>2, <2>7, <2>8, OneAnswered
  <2>10. \A q \in Photo : SentOnceMore(q, LeftNow, left2, sends, again, sends, again)
    BY DEF SentOnceMore
  <2> QED
    BY <1>3, <2>3, <2>5, <2>6, <2>9, <2>10, BookGoesOn
<1>10. CASE /\ results' = results
            /\ \/ same' = Append(same, Payload(e)) /\ UNCHANGED copies
               \/ copies' = Append(copies, Payload(e)) /\ UNCHANGED same
  <2>1. PICK b \in PhotoPayload : b = Payload(e) /\ b.photo = p
    <3>1. PICK rel : rel = {r \in group[p] \cup e.extra : Buildable(r)}
      OBVIOUS
    <3>2. rel \in SUBSET Photo
      BY <1>1, <3>1 DEF QueuedPhoto
    <3>3. [photo |-> p, related |-> rel] \in PhotoPayload
      BY <3>2 DEF PhotoPayload
    <3>4. Payload(e) = [photo |-> p, related |-> rel]
      BY <1>5, <3>1 DEF Payload
    <3> QED
      BY <3>3, <3>4
  <2>2. same' \in Seq(PhotoPayload) /\ copies' \in Seq(PhotoPayload)
    <3>1. Append(same, b) \in Seq(PhotoPayload) /\ Append(copies, b) \in Seq(PhotoPayload)
      BY <1>1
    <3> QED
      BY <1>1, <1>10, <2>1, <3>1, Zenon
  <2>3. TransferTypes'
    BY <1>1, <1>3, <1>6, <1>10, <2>2 DEF TransferTypes
  <2>4. \A q : CountOf(Mains(same'), q) + CountOf(Mains(copies'), q) =
               CountOf(Mains(same), q) + CountOf(Mains(copies), q) + (IF p = q THEN 1 ELSE 0)
    <3> SUFFICES ASSUME NEW q
                 PROVE  CountOf(Mains(same'), q) + CountOf(Mains(copies'), q) =
                          CountOf(Mains(same), q) + CountOf(Mains(copies), q) + (IF p = q THEN 1 ELSE 0)
      OBVIOUS
    <3>1. CountOf(Mains(same), q) \in Nat /\ CountOf(Mains(copies), q) \in Nat
      BY <1>1, MainsCounted, EntryPhotos
    <3>2. CountOf(Mains(Append(same, b)), q) = CountOf(Mains(same), q) + (IF p = q THEN 1 ELSE 0)
      BY <1>1, <2>1, MainsAppend, EntryPhotos
    <3>3. CountOf(Mains(Append(copies, b)), q) = CountOf(Mains(copies), q) + (IF p = q THEN 1 ELSE 0)
      BY <1>1, <2>1, MainsAppend, EntryPhotos
    <3>4. CASE same' = Append(same, b) /\ copies' = copies
      BY <3>1, <3>2, <3>4
    <3>5. CASE copies' = Append(copies, b) /\ same' = same
      BY <3>1, <3>3, <3>5
    <3>6. \/ same' = Append(same, b) /\ copies' = copies
          \/ copies' = Append(copies, b) /\ same' = same
      BY <1>10, <2>1, Zenon
    <3> QED
      BY <3>4, <3>5, <3>6
  <2>5. LeftNow' = LeftNow
    <3>1. \A q \in Photo :
            CountOf(Mains(todo'), q) \in Nat /\ CountOf(Mains(same'), q) \in Nat
            /\ CountOf(Mains(copies'), q) \in Nat
      BY <1>6, <2>2, MainsCounted, EntryPhotos
    <3>2. \A q \in Photo :
            CountOf(Mains(todo'), q) + CountOf(Mains(same'), q) + CountOf(Mains(copies'), q)
              = CountOf(Mains(todo), q) + CountOf(Mains(same), q) + CountOf(Mains(copies), q)
      BY <1>7, <1>8, <2>4, <3>1
    <3> QED
      BY <3>2 DEF LeftNow, Left
  <2>6. /\ <<>> \in Seq(PhotoOutcome) /\ results \o <<>> = results
        /\ Reported(LeftNow, <<>>, LeftNow, took, took) /\ ReportedTruly(<<>>, took, aside, took, aside)
    BY <1>2, NoneAnswered
  <2>7. \A q \in Photo : SentOnceMore(q, LeftNow, LeftNow, sends, again, sends, again)
    BY DEF SentOnceMore
  <2> QED
    BY <1>3, <1>10, <2>3, <2>5, <2>6, <2>7, BookGoesOn
<1> QED
  BY <1>4, <1>5, <1>9, <1>10 DEF LoadPayload, Report

LEMMA PhotoCopied == ASSUME TransferInv, CopyPhoto PROVE TransferInv'
<1>1. /\ given \in Seq(Photo) /\ todo \in Seq(QueuedPhoto) /\ same \in Seq(PhotoPayload)
      /\ copies \in Seq(PhotoPayload) /\ results \in Seq(PhotoOutcome)
      /\ group \in [Photo -> SUBSET Photo] /\ sends \in [Photo -> Nat]
      /\ timeline \cup album \in SUBSET Photo
  BY DEF TransferInv, TransferTypes
<1>2. Book(given, results, LeftNow, took, aside, sends, again)
  BY DEF TransferInv, Transferring, CopyPhoto
<1>3. /\ apc = "send" /\ copies # <<>> /\ copies' = Tail(copies)
      /\ UNCHANGED <<apc, goal, given, same, group, timeline, album>>
  BY DEF CopyPhoto, photoServer
<1>4. PICK b \in PhotoPayload : b = Head(copies)
  BY <1>1, <1>3
<1>5. PICK p \in Photo : p = b.photo
  BY EntryPhotos
<1>14. PICK answer \in {IF Missing(b) # {} THEN "missing" ELSE "taken", "refused"} :
       \E copied \in {answer = "taken", answer # "missing" /\ Missing(b) = {}} :
          LET missing == IF answer = "missing" THEN Missing(b) ELSE {}
              verdict == Recorded(b.photo, missing, answer)
          IN  /\ sends' = [sends EXCEPT ![b.photo] = @ + 1]
              /\ took' = IF copied THEN took \cup {b.photo} \cup b.related ELSE took
              /\ aside' = IF ~copied THEN aside
                          ELSE IF answer = "taken" THEN aside \cup b.related
                          ELSE aside \cup {b.photo} \cup b.related
              /\ IF verdict = "again"
                 THEN /\ again' = again \cup {b.photo}
                      /\ todo' = Append(todo, [photo |-> b.photo, extra |-> missing])
                      /\ UNCHANGED results
                 ELSE Report(b.photo, verdict) /\ UNCHANGED <<again, todo>>
  BY <1>4, Zenon DEF CopyPhoto
<1>15. PICK missing, verdict :
         /\ missing = IF answer = "missing" THEN Missing(b) ELSE {}
         /\ verdict = Recorded(p, missing, answer)
  OBVIOUS
<1>16. PICK copied \in {answer = "taken", answer # "missing" /\ Missing(b) = {}} :
         /\ sends' = [sends EXCEPT ![p] = @ + 1]
         /\ took' = IF copied THEN took \cup {p} \cup b.related ELSE took
         /\ aside' = IF ~copied THEN aside
                     ELSE IF answer = "taken" THEN aside \cup b.related
                     ELSE aside \cup {p} \cup b.related
         /\ IF verdict = "again"
            THEN /\ again' = again \cup {p}
                 /\ todo' = Append(todo, [photo |-> p, extra |-> missing])
                 /\ results' = results
            ELSE results' = Append(results, [photo |-> p, result |-> verdict]) /\ UNCHANGED <<again, todo>>
  BY <1>5, <1>14, <1>15, Zenon DEF Report
<1>17. (answer = "missing" => ~copied) /\ (answer = "taken" => copied)
  <2>1. answer = "taken" => Missing(b) = {}
    BY <1>14
  <2> QED
    BY <1>16, <2>1
<1>6. /\ missing = IF answer = "missing" THEN Missing(b) ELSE {}
      /\ verdict = Recorded(p, missing, answer)
      /\ sends' = [sends EXCEPT ![p] = @ + 1]
      /\ answer = "missing" => ~copied
      /\ answer = "taken" => copied
      /\ took' = IF copied THEN took \cup {p} \cup b.related ELSE took
      /\ aside' = IF ~copied THEN aside
                  ELSE IF answer = "taken" THEN aside \cup b.related
                  ELSE aside \cup {p} \cup b.related
      /\ IF verdict = "again"
         THEN /\ again' = again \cup {p}
              /\ todo' = Append(todo, [photo |-> p, extra |-> missing])
              /\ results' = results
         ELSE results' = Append(results, [photo |-> p, result |-> verdict]) /\ UNCHANGED <<again, todo>>
  BY <1>15, <1>16, <1>17
<1>7. /\ verdict \in {"ok", "again", "refused"} /\ (verdict = "ok" <=> answer = "taken")
      /\ verdict = "again" => p \notin again /\ answer = "missing"
  BY <1>6, Zenon DEF Recorded
<1>8. /\ sends' \in [Photo -> Nat]
      /\ \A q \in Photo : \/ sends'[q] = sends[q]
                          \/ q = p /\ sends'[q] = sends[q] + 1
  <2>1. sends' = [sends EXCEPT ![p] = @ + 1]
    BY <1>6
  <2> QED
    BY <1>1, <2>1
<1>9. copies' \in Seq(PhotoPayload)
  BY <1>1, <1>3
<1>10. /\ LeftNow \in [Photo -> Nat]
       /\ \A q \in Photo :
            /\ LeftNow[q] = CountOf(Mains(todo), q) + CountOf(Mains(same), q) + CountOf(Mains(copies), q)
            /\ CountOf(Mains(todo), q) \in Nat /\ CountOf(Mains(same), q) \in Nat
            /\ CountOf(Mains(copies), q) \in Nat
  BY <1>1, LeftIs DEF LeftNow
<1>11. \A q : CountOf(Mains(copies), q) = (IF p = q THEN 1 ELSE 0) + CountOf(Mains(copies'), q)
  BY <1>1, <1>3, <1>4, <1>5, MainsHead, EntryPhotos
<1>12. CASE verdict = "again"
  <2>1. PICK e \in QueuedPhoto : e = [photo |-> p, extra |-> missing] /\ e.photo = p
    <3>1. missing \in SUBSET Photo
      BY <1>1, <1>5, <1>6 DEF Missing
    <3>2. [photo |-> p, extra |-> missing] \in QueuedPhoto
      BY <3>1 DEF QueuedPhoto
    <3> QED
      BY <3>2
  <2>2. todo' = Append(todo, e) /\ results' = results /\ again' = again \cup {p} /\ UNCHANGED <<took, aside>>
    BY <1>6, <1>7, <1>12, <2>1
  <2>3. todo' \in Seq(QueuedPhoto)
    BY <1>1, <2>2
  <2>4. TransferTypes'
    BY <1>1, <1>3, <1>8, <1>9, <2>2, <2>3 DEF TransferTypes
  <2>5. \A q : CountOf(Mains(todo'), q) = CountOf(Mains(todo), q) + (IF p = q THEN 1 ELSE 0)
    <3>1. \A q : CountOf(Mains(Append(todo, e)), q) = CountOf(Mains(todo), q) + (IF e.photo = q THEN 1 ELSE 0)
      BY <1>1, MainsAppend, EntryPhotos, SMTT(30)
    <3> QED
      BY <2>1, <2>2, <3>1
  <2>6. LeftNow' = LeftNow
    <3>1. \A q \in Photo : CountOf(Mains(todo'), q) \in Nat /\ CountOf(Mains(copies'), q) \in Nat
      BY <1>9, <2>3, MainsCounted, EntryPhotos
    <3>2. \A q \in Photo :
            CountOf(Mains(todo'), q) + CountOf(Mains(same), q) + CountOf(Mains(copies'), q)
              = CountOf(Mains(todo), q) + CountOf(Mains(same), q) + CountOf(Mains(copies), q)
      BY <1>10, <1>11, <2>5, <3>1
    <3> QED
      BY <1>3, <3>2 DEF LeftNow, Left
  <2>7. /\ <<>> \in Seq(PhotoOutcome) /\ results \o <<>> = results
        /\ Reported(LeftNow, <<>>, LeftNow, took, took) /\ ReportedTruly(<<>>, took, aside, took, aside)
    BY <1>2, NoneAnswered
  <2>8. LeftNow[p] > 0
    <3>1. CountOf(Mains(copies'), p) \in Nat
      BY <1>9, MainsCounted, EntryPhotos
    <3> QED
      BY <1>10, <1>11, <3>1
  <2>9. \A q \in Photo : SentOnceMore(q, LeftNow, LeftNow', sends, again, sends', again')
    BY <1>7, <1>8, <1>12, <2>2, <2>6, <2>8 DEF SentOnceMore
  <2>10. again \subseteq again'
    BY <2>2
  <2> QED
    BY <1>3, <2>2, <2>4, <2>6, <2>7, <2>9, <2>10, BookGoesOn
<1>13. CASE verdict # "again"
  <2>1. PICK o \in PhotoOutcome : o = [photo |-> p, result |-> verdict]
    <3>1. [photo |-> p, result |-> verdict] \in PhotoOutcome
      BY <1>7, <1>13 DEF PhotoOutcome
    <3> QED
      BY <3>1
  <2>2. o.photo = p /\ o.result = verdict
    BY <2>1
  <2>3. results' = Append(results, o) /\ again' = again /\ todo' = todo
    BY <1>6, <1>13, <2>1
  <2>4. results' = results \o <<o>> /\ results' \in Seq(PhotoOutcome)
    BY <1>1, <2>3, AppendIsConcat
  <2>5. TransferTypes'
    BY <1>1, <1>3, <1>8, <1>9, <2>3, <2>4 DEF TransferTypes
  <2>6. PICK left2, in2, ex2 : left2 = LeftNow' /\ in2 = took' /\ ex2 = aside'
    OBVIOUS
  <2>7. /\ left2 \in [Photo -> Nat]
        /\ \A q \in Photo :
             /\ left2[q] = CountOf(Mains(todo), q) + CountOf(Mains(same), q) + CountOf(Mains(copies'), q)
             /\ CountOf(Mains(copies'), q) \in Nat
    <3>1. left2 = Left(todo, same, copies')
      BY <1>3, <2>3, <2>6 DEF LeftNow
    <3>2. PICK rest \in Seq(PhotoPayload) : rest = copies'
      BY <1>9
    <3>3. left2 = Left(todo, same, rest)
      BY <3>1, <3>2
    <3>4. todo \in Seq(QueuedPhoto) /\ same \in Seq(PhotoPayload)
      BY <1>1
    <3> QED
      BY <3>2, <3>3, <3>4, LeftIs, SMTT(60)
  <2>8. \A q \in Photo : LeftNow[q] = (IF o.photo = q THEN 1 ELSE 0) + left2[q]
    BY <1>10, <1>11, <2>2, <2>7
  <2>9. /\ took \subseteq in2 /\ (o.result = "ok" => o.photo \in in2)
        /\ \A q \in in2 \ ex2 : q \in took \ aside \/ (q = o.photo /\ o.result = "ok")
    BY <1>6, <1>7, <2>2, <2>6
  <2>10. /\ <<o>> \in Seq(PhotoOutcome)
         /\ Reported(LeftNow, <<o>>, left2, took, in2)
         /\ NoneTwice(given) => ReportedTruly(<<o>>, took, aside, in2, ex2)
         /\ CountOf(given, o.photo) <= 1 => left2[o.photo] = 0
         /\ LeftNow[o.photo] > 0
    BY <1>2, <2>7, <2>8, <2>9, OneAnswered
  <2>11. \A q \in Photo :
            CountOf(given, q) <= 1 => SentOnceMore(q, LeftNow, left2, sends, again, sends', again')
    BY <1>8, <2>2, <2>10 DEF SentOnceMore
  <2>12. again \subseteq again'
    BY <2>3
  <2> QED
    BY <1>3, <2>4, <2>5, <2>6, <2>10, <2>11, <2>12, BookGoesOn
<1> QED
  BY <1>12, <1>13

\* A batch that goes out was left to be answered for.
LEMMA BatchLeft ==
    ASSUME TransferInv, same # <<>>, NEW p \in Photo
    PROVE  /\ CountOf(Mains(Sent), p) \in Nat /\ CountOf(Mains(Unsent), p) \in Nat
           /\ CountOf(Mains(RestOf), p) \in Nat /\ CountOf(Mains(todo), p) \in Nat
           /\ CountOf(Mains(copies), p) \in Nat
           /\ LeftNow[p] = CountOf(Mains(todo), p) + CountOf(Mains(Sent), p) + CountOf(Mains(Unsent), p)
                           + CountOf(Mains(RestOf), p) + CountOf(Mains(copies), p)
<1>1. TransferTypes
  BY DEF TransferInv
<1>2. /\ Sent \in Seq(PhotoPayload) /\ Unsent \in Seq(PhotoPayload) /\ RestOf \in Seq(PhotoPayload)
      /\ CountOf(Mains(same), p) =
            CountOf(Mains(Sent), p) + CountOf(Mains(Unsent), p) + CountOf(Mains(RestOf), p)
  BY <1>1, BatchSplit
<1>3. /\ CountOf(Mains(Sent), p) \in Nat /\ CountOf(Mains(Unsent), p) \in Nat
      /\ CountOf(Mains(RestOf), p) \in Nat
  BY <1>2, MainsCounted, EntryPhotos
<1>4. /\ LeftNow[p] = CountOf(Mains(todo), p) + CountOf(Mains(same), p) + CountOf(Mains(copies), p)
      /\ CountOf(Mains(todo), p) \in Nat /\ CountOf(Mains(copies), p) \in Nat
  BY <1>1, LeftIs DEF TransferTypes, LeftNow
<1> QED
  BY <1>2, <1>3, <1>4

LEMMA SendsCounted ==
    ASSUME TransferInv, same # <<>>
    PROVE  /\ SendsWith(Sent) \in [Photo -> Nat]
           /\ \A p \in Photo : \/ SendsWith(Sent)[p] = sends[p] /\ CountOf(Mains(Sent), p) = 0
                               \/ SendsWith(Sent)[p] = sends[p] + 1 /\ CountOf(Mains(Sent), p) > 0
<1>1. TransferTypes
  BY DEF TransferInv
<1>2. sends \in [Photo -> Nat]
  BY <1>1 DEF TransferTypes
<1>3. Sent \in Seq(PhotoPayload)
  BY <1>1, BatchSplit
<1>4. PICK m, z : m = Members(Mains(Sent)) /\ z = SendsWith(Sent)
  OBVIOUS
<1>5. \A p : CountOf(Mains(Sent), p) \in Nat /\ (p \in m <=> CountOf(Mains(Sent), p) > 0)
  BY <1>3, <1>4, MainsCounted, EntryPhotos
<1>6. z = [p \in Photo |-> IF p \in m THEN sends[p] + 1 ELSE sends[p]]
  BY <1>4 DEF SendsWith
<1>7. z \in [Photo -> Nat] /\ \A p \in Photo : z[p] = IF p \in m THEN sends[p] + 1 ELSE sends[p]
  BY <1>2, <1>6
<1> QED
  BY <1>4, <1>5, <1>7

LEMMA BatchMissed == ASSUME TransferInv, BatchLost PROVE TransferInv'
<1>1. /\ given \in Seq(Photo) /\ group \in [Photo -> SUBSET Photo]
      /\ timeline \cup album \in SUBSET Photo
  BY DEF TransferInv, TransferTypes
<1>2. Book(given, results, LeftNow, took, aside, sends, again)
  BY DEF TransferInv, Transferring, BatchLost
<1>3. /\ same # <<>> /\ given' = given /\ group' = group /\ sends' = SendsWith(Sent)
      /\ goal' = "lost" /\ apc' = "idle"
      /\ results' = <<>> /\ same' = <<>> /\ copies' = <<>> /\ todo' = <<>>
  BY DEF BatchLost
<1>4. timeline' \cup album' \in SUBSET Photo
  <2>1. Present \in SUBSET Photo
    BY <1>1, PhotosAssumption DEF Present
  <2>2. PICK taken \in SUBSET Present :
           timeline' \in {timeline, timeline \cup taken} /\ album' \in {album, album \cup taken}
    BY BatchComesIn DEF ComesIn
  <2> QED
    BY <1>1, <2>1, <2>2
<1>5. sends' \in [Photo -> Nat]
  BY <1>3, SendsCounted
<1>6. /\ todo' \in Seq(QueuedPhoto) /\ same' \in Seq(PhotoPayload) /\ copies' \in Seq(PhotoPayload)
      /\ results' \in Seq(PhotoOutcome)
  BY <1>3
<1>7. TransferTypes'
  BY <1>1, <1>3, <1>4, <1>5, <1>6 DEF TransferTypes
<1>8. ~Transferred' /\ ~Transferring'
  BY <1>3 DEF Transferred, Transferring
<1>9. AllAnswered'
  BY <1>3 DEF AllAnswered
<1>10. ASSUME NEW p \in Photo, CountOf(given, p) <= 1 PROVE sends'[p] <= 2
  <2>1. sends[p] \in Nat /\ sends[p] <= 2 /\ (LeftNow[p] > 0 => sends[p] <= 1)
    BY <1>2, <1>10 DEF Book, SentAtMostTwice
  <2>2. CountOf(Mains(Sent), p) > 0 => LeftNow[p] > 0
    BY <1>3, BatchLeft
  <2>3. \/ sends'[p] = sends[p]
        \/ sends'[p] = sends[p] + 1 /\ CountOf(Mains(Sent), p) > 0
    BY <1>3, SendsCounted
  <2> QED
    BY <2>1, <2>2, <2>3
<1> QED
  BY <1>3, <1>7, <1>8, <1>9, <1>10 DEF TransferInv

-----------------------------------------------------------------------------
(* A batch is sent.                                                        *)

\* What is queued again, and what is reported.
AskedFor(sent, turned) == Picked(Requeued(sent), Asked(sent, turned))
Settled(sent, turned) == Picked(Verdicts(sent, turned), (1 .. Len(sent)) \ Asked(sent, turned))

LEMMA RequeuedIs ==
    ASSUME group \in [Photo -> SUBSET Photo], NEW sent \in Seq(PhotoPayload)
    PROVE  /\ Requeued(sent) \in Seq(QueuedPhoto) /\ Len(Requeued(sent)) = Len(sent)
           /\ \A i \in 1 .. Len(sent) : Requeued(sent)[i].photo = sent[i].photo
<1>1. PICK n \in Nat : n = Len(sent)
  OBVIOUS
<1>2. PICK q : q = Requeued(sent)
  OBVIOUS
<1>3. q = [i \in 1 .. n |-> [photo |-> sent[i].photo, extra |-> Missing(sent[i])]]
  BY <1>1, <1>2 DEF Requeued
<1>4. ASSUME NEW i \in 1 .. n
      PROVE  [photo |-> sent[i].photo, extra |-> Missing(sent[i])] \in QueuedPhoto
  <2>1. sent[i].photo \in Photo
    BY <1>1, EntryPhotos
  <2>2. Missing(sent[i]) \in SUBSET Photo
    BY <2>1 DEF Missing
  <2> QED
    BY <2>1, <2>2 DEF QueuedPhoto
<1>5. q \in [1 .. n -> QueuedPhoto] /\ \A i \in 1 .. n : q[i].photo = sent[i].photo
  BY <1>3, <1>4
<1>6. q \in Seq(QueuedPhoto) /\ Len(q) = n
  BY <1>1, <1>5, IsASeq, LenProperties
<1> QED
  BY <1>1, <1>2, <1>5, <1>6

LEMMA VerdictPhotos == \A e \in Verdict : e.photo \in Photo
  BY DEF Verdict

\* Every photo sent is queued again or reported.
LEMMA SentAnswered ==
    ASSUME group \in [Photo -> SUBSET Photo], NEW sent \in Seq(PhotoPayload), NEW turned
    PROVE  /\ AskedFor(sent, turned) \in Seq(QueuedPhoto)
           /\ \A p : CountOf(Mains(sent), p) =
                        CountOf(Mains(AskedFor(sent, turned)), p) + CountOf(Mains(Settled(sent, turned)), p)
           /\ \A p : CountOf(Mains(AskedFor(sent, turned)), p) > 0 =>
                        p \notin again /\ p \in {sent[i].photo : i \in Asked(sent, turned)}
<1>1. PICK n \in Nat : n = Len(sent)
  OBVIOUS
<1>2. PICK q \in Seq(QueuedPhoto) : q = Requeued(sent)
  BY RequeuedIs
<1>3. Len(q) = n /\ \A i \in 1 .. n : q[i].photo = sent[i].photo
  BY <1>1, <1>2, RequeuedIs
<1>4. PICK v \in Seq(Verdict) : v = Verdicts(sent, turned)
  BY VerdictsAre
<1>5. Len(v) = n
  BY <1>1, <1>4, VerdictsAre
<1>6. \A i \in 1 .. n : v[i] \in Verdict /\ RepliedAs(sent, turned, v, i)
  BY <1>1, <1>4, VerdictIs
<1>7. PICK A \in SUBSET (1 .. n) : A = Asked(sent, turned)
  BY <1>1 DEF Asked
<1>8. PICK m \in Seq(Photo) :
        m = Mains(sent) /\ Len(m) = n /\ \A i \in 1 .. n : m[i] = sent[i].photo
  BY <1>1, MainsIs, EntryPhotos
<1>9. Mains(q) = m
  <2>1. Mains(q) \in Seq(Photo) /\ Len(Mains(q)) = n /\ \A i \in 1 .. n : Mains(q)[i] = q[i].photo
    BY <1>3, MainsIs, EntryPhotos
  <2>2. \A i \in 1 .. n : Mains(q)[i] = m[i]
    BY <1>3, <1>8, <2>1
  <2> QED
    BY <1>8, <2>1, <2>2, MainsSame
<1>10. Mains(v) = m
  <2>1. Mains(v) \in Seq(Photo) /\ Len(Mains(v)) = n /\ \A i \in 1 .. n : Mains(v)[i] = v[i].photo
    BY <1>5, MainsIs, VerdictPhotos
  <2>2. \A i \in 1 .. n : Mains(v)[i] = m[i]
    BY <1>6, <1>8, <2>1 DEF RepliedAs
  <2> QED
    BY <1>8, <2>1, <2>2, MainsSame
<1>11. A \in SUBSET (1 .. Len(q)) /\ (1 .. n) \ A \in SUBSET (1 .. Len(v))
  BY <1>3, <1>5
<1>12. PICK back, out : back = AskedFor(sent, turned) /\ out = Settled(sent, turned)
  OBVIOUS
<1>13. back = Picked(q, A) /\ out = Picked(v, (1 .. n) \ A)
  BY <1>1, <1>2, <1>4, <1>7, <1>12 DEF AskedFor, Settled
<1>14. back \in Seq(QueuedPhoto) /\ \A p : CountOf(Mains(back), p) = Cardinality(Spots(m, A, p))
  BY <1>9, <1>11, <1>13, MainsPicked, EntryPhotos
<1>15. \A p : CountOf(Mains(out), p) = Cardinality(Spots(m, (1 .. n) \ A, p))
  BY <1>10, <1>11, <1>13, MainsPicked, VerdictPhotos
<1>16. \A p : CountOf(m, p) = Cardinality(Spots(m, A, p)) + Cardinality(Spots(m, (1 .. n) \ A, p))
  BY <1>8, SpotsSplit, SMTT(30)
<1>17. ASSUME NEW p, CountOf(Mains(back), p) > 0
       PROVE  p \notin again /\ p \in {sent[i].photo : i \in A}
  <2>1. PICK S : S = Spots(m, A, p)
    OBVIOUS
  <2>2. S # {}
    <3>1. Cardinality({}) = 0
      BY FS_EmptySet
    <3>2. Cardinality(S) > 0
      BY <1>14, <1>17, <2>1
    <3>3. Cardinality(S) = 0 => FALSE
      BY <3>2
    <3>4. S = {} => Cardinality(S) = 0
      BY <3>1, Zenon
    <3> QED
      BY <3>3, <3>4
  <2>3. PICK i \in A : m[i] = p
    BY <2>1, <2>2 DEF Spots
  <2>4. i \in 1 .. n /\ v[i].result = "again"
    BY <1>1, <1>4, <1>7, <2>3 DEF Asked
  <2> QED
    BY <1>6, <1>8, <2>3, <2>4 DEF RepliedAs
<1> QED
  BY <1>7, <1>8, <1>12, <1>14, <1>15, <1>16, <1>17

\* What is reported of a batch is the verdict on some payload of it.
LEMMA SettledAre ==
    ASSUME NEW sent \in Seq(PhotoPayload), NEW turned
    PROVE  /\ Settled(sent, turned) \in Seq(PhotoOutcome)
           /\ \A k \in 1 .. Len(Settled(sent, turned)) :
                \E i \in 1 .. Len(sent) : Settled(sent, turned)[k] = Verdicts(sent, turned)[i]
           /\ \A i \in 1 .. Len(sent) :
                Verdicts(sent, turned)[i].result # "again" => CountOf(Mains(Settled(sent, turned)), sent[i].photo) > 0
<1>1. PICK n \in Nat : n = Len(sent)
  OBVIOUS
<1>2. PICK v \in Seq(Verdict) : v = Verdicts(sent, turned)
  BY VerdictsAre
<1>3. Len(v) = n
  BY <1>1, <1>2, VerdictsAre
<1>4. \A i \in 1 .. n : v[i] \in Verdict /\ v[i].photo = sent[i].photo
  BY <1>1, <1>2, VerdictIs DEF RepliedAs
<1>5. PICK B \in SUBSET (1 .. n) : B = (1 .. n) \ Asked(sent, turned)
  OBVIOUS
<1>6. \A i \in 1 .. n : i \in B <=> v[i].result # "again"
  BY <1>1, <1>2, <1>5 DEF Asked
<1>7. PICK out : out = Settled(sent, turned)
  OBVIOUS
<1>8. out = Picked(v, B)
  BY <1>1, <1>2, <1>5, <1>7 DEF Settled
<1>9. B \in SUBSET (1 .. Len(v))
  BY <1>3
<1>10. out \in Seq(Verdict)
  BY <1>8, <1>9, PickedIs
<1>11. PICK f : PickedBy(f, out, v, B)
  BY <1>8, <1>9, PickedHas
<1>12. PICK k \in Nat : k = Len(out)
  BY <1>10
<1>13. /\ \A a \in 1 .. k : f[a] \in B /\ out[a] = v[f[a]]
       /\ \A i \in B : \E a \in 1 .. k : f[a] = i
  BY <1>11, <1>12 DEF PickedBy
<1>14. \A a \in 1 .. k : out[a] \in PhotoOutcome
  <2> SUFFICES ASSUME NEW a \in 1 .. k PROVE out[a] \in PhotoOutcome
    OBVIOUS
  <2>1. PICK i \in 1 .. n : i = f[a] /\ out[a] = v[i]
    BY <1>13
  <2>2. v[i] \in Verdict /\ v[i].result # "again"
    BY <1>4, <1>6, <1>13, <2>1
  <2> QED
    BY <2>1, <2>2 DEF Verdict, PhotoOutcome
<1>15. out \in Seq(PhotoOutcome)
  <2>1. out \in [1 .. k -> Verdict]
    BY <1>10, <1>12
  <2>2. out \in [1 .. k -> PhotoOutcome]
    BY <1>14, <2>1
  <2> QED
    BY <2>2, IsASeq
<1>16. \A a \in 1 .. k : \E i \in 1 .. n : out[a] = v[i]
  BY <1>13
<1>17. ASSUME NEW i \in 1 .. n, v[i].result # "again"
       PROVE  CountOf(Mains(out), sent[i].photo) > 0
  <2>1. PICK a \in 1 .. k : f[a] = i
    BY <1>6, <1>13, <1>17
  <2>2. out[a].photo = sent[i].photo
    BY <1>4, <1>13, <2>1
  <2> QED
    BY <1>12, <1>15, <2>2, MainsCounted, EntryPhotos
<1> QED
  BY <1>1, <1>2, <1>7, <1>12, <1>15, <1>16, <1>17

\* With no photo given twice, a photo of the batch is in it once and was not brought in
\* before: so it is reported ok if the server took it.
LEMMA BatchTruthful ==
    ASSUME TransferInv, apc = "send", same # <<>>, NoneTwice(given), NEW carried, NEW turned,
           NEW in2, in2 = took \cup BroughtIn(Sent) \cup carried,
           NEW ex2, ex2 = aside \cup carried \cup turned
    PROVE  /\ Truthful(Refusals(Mains(Unsent)), in2, ex2)
           /\ Truthful(Settled(Sent, turned), in2, ex2)
           /\ \A p \in Photo :
                p \in BroughtIn(Sent) \ turned => CountOf(Mains(Settled(Sent, turned)), p) > 0
<1>1. Book(given, results, LeftNow, took, aside, sends, again)
  BY DEF TransferInv, Transferring
<1>2. PICK sent \in Seq(PhotoPayload), unsent \in Seq(PhotoPayload) : sent = Sent /\ unsent = Unsent
  BY BatchSplit DEF TransferInv
<1>3. ASSUME NEW p \in Photo
      PROVE  /\ CountOf(Mains(sent), p) \in Nat /\ CountOf(Mains(unsent), p) \in Nat
             /\ CountOf(Mains(sent), p) + CountOf(Mains(unsent), p) <= 1
             /\ CountOf(Mains(sent), p) + CountOf(Mains(unsent), p) > 0 => p \notin took \ aside
  <2>1. /\ LeftNow[p] \in Nat /\ CountOf(Mains(results), p) \in Nat
        /\ CountOf(given, p) = CountOf(Mains(results), p) + LeftNow[p]
        /\ LeftNow[p] > 0 => p \notin took \ aside
    BY <1>1, LeftOnce
  <2>2. CountOf(given, p) <= 1
    BY DEF NoneTwice
  <2>3. /\ CountOf(Mains(Sent), p) \in Nat /\ CountOf(Mains(Unsent), p) \in Nat
        /\ CountOf(Mains(RestOf), p) \in Nat /\ CountOf(Mains(todo), p) \in Nat
        /\ CountOf(Mains(copies), p) \in Nat
        /\ LeftNow[p] = CountOf(Mains(todo), p) + CountOf(Mains(Sent), p) + CountOf(Mains(Unsent), p)
                        + CountOf(Mains(RestOf), p) + CountOf(Mains(copies), p)
    BY BatchLeft
  <2> QED
    BY <1>2, <2>1, <2>2, <2>3
<1>4. PICK n \in Nat : n = Len(sent)
  OBVIOUS
<1>5. ASSUME NEW i \in 1 .. n
      PROVE  /\ sent[i].photo \in Photo /\ sent[i].photo \notin took \ aside
             /\ CountOf(Mains(unsent), sent[i].photo) = 0
             /\ \A j \in 1 .. n : sent[j].photo = sent[i].photo => j = i
  <2>1. PICK p \in Photo : p = sent[i].photo
    BY <1>4, EntryPhotos
  <2>2. /\ CountOf(Mains(sent), p) \in Nat /\ CountOf(Mains(unsent), p) \in Nat
        /\ CountOf(Mains(sent), p) + CountOf(Mains(unsent), p) <= 1
        /\ CountOf(Mains(sent), p) + CountOf(Mains(unsent), p) > 0 => p \notin took \ aside
    BY <1>3
  <2>3. CountOf(Mains(sent), p) > 0
    BY <1>4, <2>1, MainsCounted, EntryPhotos
  <2>4. CountOf(Mains(sent), p) <= 1 /\ CountOf(Mains(unsent), p) = 0 /\ p \notin took \ aside
    BY <2>2, <2>3
  <2>5. \A j \in 1 .. n : sent[j].photo = p => j = i
    BY <1>4, <2>1, <2>4, MainsCounted, EntryPhotos
  <2> QED
    BY <2>1, <2>4, <2>5
<1>6. in2 = took \cup BroughtIn(sent) \cup carried
  BY <1>2
<1>7. \A p : p \in BroughtIn(sent) <=> \E j \in 1 .. n : Answer(sent[j]) = "taken" /\ p = sent[j].photo
  BY <1>4 DEF BroughtIn
<1>8. ASSUME NEW i \in 1 .. n
      PROVE  /\ Answer(sent[i]) = "taken" => sent[i].photo \in in2
             /\ sent[i].photo \in in2 \ ex2 => ReplyTo(sent, turned, i) = "taken"
             /\ ReplyTo(sent, turned, i) = "taken" <=>
                    Answer(sent[i]) = "taken" /\ sent[i].photo \notin turned
  <2>1. FirstOf(sent, i)
    <3>1. \A j \in 1 .. i - 1 : j \in 1 .. n /\ j # i
      OBVIOUS
    <3> QED
      BY <1>5, <3>1 DEF FirstOf
  <2>2. sent[i].photo \in BroughtIn(sent) <=> Answer(sent[i]) = "taken"
    <3>1. ASSUME NEW j \in 1 .. n, sent[i].photo = sent[j].photo PROVE j = i
      BY <1>5, <3>1
    <3> QED
      BY <1>7, <3>1
  <2>3. sent[i].photo \notin took \ aside
    BY <1>5
  <2> QED
    BY <1>6, <2>1, <2>2, <2>3 DEF ReplyTo
<1>9. PICK v : v = Verdicts(sent, turned)
  OBVIOUS
<1>10. ASSUME NEW i \in 1 .. n
       PROVE  /\ v[i].photo = sent[i].photo
              /\ v[i].result = "ok" <=> ReplyTo(sent, turned, i) = "taken"
  <2>1. RepliedAs(sent, turned, v, i)
    BY <1>4, <1>9, VerdictIs
  <2> QED
    BY <2>1 DEF RepliedAs
<1>11. \A i \in 1 .. n :
         /\ v[i].result = "ok" => v[i].photo \in in2
         /\ v[i].photo \in in2 \ ex2 => v[i].result = "ok"
  <2> SUFFICES ASSUME NEW i \in 1 .. n
               PROVE  /\ v[i].result = "ok" => v[i].photo \in in2
                      /\ v[i].photo \in in2 \ ex2 => v[i].result = "ok"
    OBVIOUS
  <2>1. /\ Answer(sent[i]) = "taken" => sent[i].photo \in in2
        /\ sent[i].photo \in in2 \ ex2 => ReplyTo(sent, turned, i) = "taken"
        /\ ReplyTo(sent, turned, i) = "taken" => Answer(sent[i]) = "taken"
    BY <1>8
  <2>2. v[i].photo = sent[i].photo /\ (v[i].result = "ok" <=> ReplyTo(sent, turned, i) = "taken")
    BY <1>10
  <2> QED
    BY <2>1, <2>2
<1>12. Truthful(Settled(sent, turned), in2, ex2)
  <2>1. \A k \in 1 .. Len(Settled(sent, turned)) : \E i \in 1 .. n : Settled(sent, turned)[k] = v[i]
    BY <1>4, <1>9, SettledAre
  <2>2. ASSUME NEW k \in 1 .. Len(Settled(sent, turned))
        PROVE  /\ Settled(sent, turned)[k].result = "ok" => Settled(sent, turned)[k].photo \in in2
               /\ Settled(sent, turned)[k].photo \in in2 \ ex2 => Settled(sent, turned)[k].result = "ok"
    <3>1. PICK i \in 1 .. n : Settled(sent, turned)[k] = v[i]
      BY <2>1
    <3>2. (v[i].result = "ok" => v[i].photo \in in2) /\ (v[i].photo \in in2 \ ex2 => v[i].result = "ok")
      BY <1>11
    <3> QED
      BY <3>1, <3>2
  <2> QED
    BY <2>2 DEF Truthful
<1>13. ASSUME NEW p \in Photo, p \in BroughtIn(sent) \ turned
       PROVE  CountOf(Mains(Settled(sent, turned)), p) > 0
  <2>1. PICK j \in 1 .. n : Answer(sent[j]) = "taken" /\ p = sent[j].photo
    BY <1>7, <1>13
  <2>2. v[j].result # "again"
    BY <1>8, <1>10, <1>13, <2>1
  <2> QED
    BY <1>4, <1>9, <2>1, <2>2, SettledAre
<1>14. Truthful(Refusals(Mains(unsent)), in2, ex2)
  <2>1. PICK m \in Seq(Photo) : m = Mains(unsent) /\ Len(m) = Len(unsent)
    BY MainsIs, EntryPhotos
  <2>2. PICK x : x = Refusals(m)
    OBVIOUS
  <2>3. Len(x) = Len(m) /\ \A i \in 1 .. Len(m) : x[i].result = "refused" /\ x[i].photo = m[i]
    BY <2>2, RefusalsAre
  <2>4. ASSUME NEW i \in 1 .. Len(m) PROVE m[i] \notin in2 \ ex2
    <3>1. PICK p \in Photo : p = m[i]
      BY <2>1
    <3>2. CountOf(m, p) # 0 /\ CountOf(m, p) \in Nat
      BY <2>1, <3>1, CountZero, CountType
    <3>3. p \notin took \ aside /\ CountOf(Mains(unsent), p) # 0
      BY <1>3, <2>1, <3>2
    <3>4. p \notin BroughtIn(sent)
      BY <1>5, <1>7, <3>3
    <3> QED
      BY <1>6, <3>1, <3>3, <3>4
  <2> QED
    BY <2>1, <2>2, <2>3, <2>4 DEF Truthful
<1> QED
  BY <1>2, <1>6, <1>12, <1>13, <1>14

LEMMA BatchSent == ASSUME TransferInv, SendBatch PROVE TransferInv'
<1>1. /\ given \in Seq(Photo) /\ todo \in Seq(QueuedPhoto) /\ same \in Seq(PhotoPayload)
      /\ copies \in Seq(PhotoPayload) /\ results \in Seq(PhotoOutcome)
      /\ group \in [Photo -> SUBSET Photo] /\ sends \in [Photo -> Nat]
      /\ timeline \cup album \in SUBSET Photo /\ TransferTypes
  BY DEF TransferInv, TransferTypes
<1>2. Book(given, results, LeftNow, took, aside, sends, again)
  BY DEF TransferInv, Transferring, SendBatch
<1>3. PICK sent \in Seq(PhotoPayload), unsent \in Seq(PhotoPayload), rest \in Seq(PhotoPayload) :
        sent = Sent /\ unsent = Unsent /\ rest = RestOf
  BY <1>1, BatchSplit DEF SendBatch
<1>23. PICK carried, turned :
         /\ same' = SubSeq(same, BatchSize + 1, Len(same))
         /\ ComeIn(BroughtIn(Sent) \cup carried)
         /\ took' = took \cup BroughtIn(Sent) \cup carried
         /\ aside' = aside \cup carried \cup turned
         /\ sends' = SendsWith(Sent)
         /\ again' = again \cup {Sent[i].photo : i \in Asked(Sent, turned)}
         /\ todo' = todo \o Picked(Requeued(Sent), Asked(Sent, turned))
         /\ results' = results \o Refusals(Mains(Unsent))
                              \o Picked(Verdicts(Sent, turned), (1 .. Len(Sent)) \ Asked(Sent, turned))
  BY Zenon DEF SendBatch
<1>4. PICK back, out : back = AskedFor(sent, turned) /\ out = Settled(sent, turned)
  OBVIOUS
<1>5. back \in Seq(QueuedPhoto) /\ out \in Seq(PhotoOutcome)
  BY <1>1, <1>4, SentAnswered, SettledAre
<1>6. PICK refused : refused = Refusals(Mains(unsent))
  OBVIOUS
<1>7. refused \in Seq(PhotoOutcome) /\ Mains(refused) = Mains(unsent)
  <2>1. Mains(unsent) \in Seq(Photo)
    BY MainsIs, EntryPhotos
  <2> QED
    BY <1>6, <2>1, RefusalsAre
<1>8. PICK taken : taken = BroughtIn(sent)
  OBVIOUS
<1>9. /\ apc = "send" /\ same # <<>> /\ same' = rest
      /\ UNCHANGED <<apc, given, goal, copies, group>>
      /\ took' = took \cup taken \cup carried /\ sends' = SendsWith(sent)
      /\ again' = again \cup {sent[i].photo : i \in Asked(sent, turned)}
      /\ todo' = todo \o back
      /\ results' = results \o refused \o out
  BY <1>3, <1>4, <1>6, <1>8, <1>23 DEF SendBatch, RestOf, AskedFor, Settled
<1>10. PICK come \in SUBSET Present :
         timeline' \in {timeline, timeline \cup come} /\ album' \in {album, album \cup come}
  BY BatchComesIn DEF ComesIn
<1>11. PICK new : new = refused \o out
  OBVIOUS
<1>12. new \in Seq(PhotoOutcome)
  BY <1>5, <1>7, <1>11
<1>13. results' = results \o new
  <2>1. (results \o refused) \o out = results \o (refused \o out)
    BY <1>1, <1>5, <1>7, JoinedTwice
  <2> QED
    BY <1>9, <1>11, <2>1, Zenon
<1>14. \A p \in Photo :
         /\ SendsWith(sent) \in [Photo -> Nat]
         /\ \/ sends'[p] = sends[p] /\ CountOf(Mains(sent), p) = 0
            \/ sends'[p] = sends[p] + 1 /\ CountOf(Mains(sent), p) > 0
  BY <1>3, <1>9, SendsCounted
<1>15. sends' \in [Photo -> Nat]
  BY <1>3, <1>9, SendsCounted
<1>16. TransferTypes'
  <2>1. todo' \in Seq(QueuedPhoto) /\ results' \in Seq(PhotoOutcome)
    BY <1>1, <1>5, <1>9, <1>12, <1>13
  <2>2. Present \in SUBSET Photo
    BY <1>1, PhotosAssumption DEF Present
  <2>3. timeline' \cup album' \in SUBSET Photo
    BY <1>1, <1>10, <2>2
  <2> QED
    BY <1>1, <1>3, <1>9, <1>15, <2>1, <2>3 DEF TransferTypes
<1>17. PICK left2 : left2 = LeftNow'
  OBVIOUS
<1>18. ASSUME NEW p \in Photo
       PROVE  /\ CountOf(Mains(sent), p) \in Nat /\ CountOf(Mains(back), p) \in Nat
              /\ LeftNow[p] >= CountOf(Mains(sent), p)
              /\ left2[p] + CountOf(Mains(sent), p) <= LeftNow[p] + CountOf(Mains(back), p)
              /\ LeftNow[p] = CountOf(Mains(new), p) + left2[p] /\ left2[p] \in Nat /\ LeftNow[p] \in Nat
  <2>1. /\ CountOf(Mains(sent), p) \in Nat /\ CountOf(Mains(unsent), p) \in Nat
        /\ CountOf(Mains(rest), p) \in Nat /\ CountOf(Mains(todo), p) \in Nat
        /\ CountOf(Mains(copies), p) \in Nat
        /\ LeftNow[p] = CountOf(Mains(todo), p) + CountOf(Mains(sent), p) + CountOf(Mains(unsent), p)
                        + CountOf(Mains(rest), p) + CountOf(Mains(copies), p)
    BY <1>3, <1>9, BatchLeft
  <2>2. CountOf(Mains(sent), p) = CountOf(Mains(back), p) + CountOf(Mains(out), p)
    BY <1>1, <1>4, SentAnswered
  <2>3. CountOf(Mains(back), p) \in Nat /\ CountOf(Mains(out), p) \in Nat
    BY <1>5, MainsCounted, EntryPhotos
  <2>4. CountOf(Mains(new), p) = CountOf(Mains(refused), p) + CountOf(Mains(out), p)
    <3>1. CountOf(Mains(refused \o out), p) = CountOf(Mains(refused), p) + CountOf(Mains(out), p)
      BY <1>5, <1>7, OutcomesConcat
    <3> QED
      BY <1>11, <3>1
  <2>5. CountOf(Mains(todo \o back), p) = CountOf(Mains(todo), p) + CountOf(Mains(back), p)
    BY <1>1, <1>5, MainsConcat, EntryPhotos
  <2>6. left2[p] = CountOf(Mains(todo \o back), p) + CountOf(Mains(rest), p) + CountOf(Mains(copies), p)
    BY <1>9, <1>17 DEF LeftNow, Left
  <2>7. CountOf(Mains(refused), p) = CountOf(Mains(unsent), p)
    BY <1>7
  <2>8. PICK t \in Nat, x \in Nat, u \in Nat, r \in Nat, c \in Nat, k \in Nat, o \in Nat :
          /\ t = CountOf(Mains(todo), p) /\ x = CountOf(Mains(sent), p)
          /\ u = CountOf(Mains(unsent), p) /\ r = CountOf(Mains(rest), p)
          /\ c = CountOf(Mains(copies), p) /\ k = CountOf(Mains(back), p) /\ o = CountOf(Mains(out), p)
    BY <2>1, <2>3
  <2>9. LeftNow[p] = t + x + u + r + c
    BY <2>1, <2>8
  <2>10. x = k + o
    BY <2>2, <2>8
  <2>11. CountOf(Mains(new), p) = u + o
    BY <2>4, <2>7, <2>8
  <2>12. left2[p] = t + k + r + c
    BY <2>5, <2>6, <2>8
  <2>13. PICK l, l2, w : l = LeftNow[p] /\ l2 = left2[p] /\ w = CountOf(Mains(new), p)
    OBVIOUS
  <2>14. l = t + x + u + r + c /\ l2 = t + k + r + c /\ w = u + o
    BY <2>9, <2>11, <2>12, <2>13
  <2>15. l >= x /\ l2 + x <= l + k /\ l = w + l2 /\ l2 \in Nat /\ l \in Nat
    BY <2>10, <2>14
  <2> QED
    BY <2>8, <2>13, <2>15
<1>19. Reported(LeftNow, new, left2, took, took')
  BY <1>9, <1>18 DEF Reported
<1>20. ASSUME NoneTwice(given) PROVE ReportedTruly(new, took, aside, took', aside')
  <2>4. PICK in2, ex2 : in2 = took' /\ ex2 = aside'
    OBVIOUS
  <2>5. in2 = took \cup BroughtIn(Sent) \cup carried /\ ex2 = aside \cup carried \cup turned
    BY <1>3, <1>23, <2>4
  <2>6. /\ Truthful(Refusals(Mains(Unsent)), in2, ex2) /\ Truthful(Settled(Sent, turned), in2, ex2)
        /\ \A p \in Photo :
             p \in BroughtIn(Sent) \ turned => CountOf(Mains(Settled(Sent, turned)), p) > 0
    BY <1>9, <1>20, <2>5, BatchTruthful
  <2>1. /\ Truthful(refused, in2, ex2) /\ Truthful(out, in2, ex2)
        /\ \A p \in Photo : p \in taken \ turned => CountOf(Mains(out), p) > 0
    BY <1>3, <1>4, <1>6, <1>8, <2>6
  <2>2. Truthful(new, in2, ex2)
    BY <1>5, <1>7, <1>11, <2>1, TruthJoined
  <2>3. ASSUME NEW p \in Photo, p \in in2 \ ex2, p \notin took \ aside PROVE CountOf(Mains(new), p) > 0
    <3>1. CountOf(Mains(out), p) > 0
      BY <1>3, <1>8, <2>1, <2>3, <2>5
    <3>2. CountOf(Mains(new), p) = CountOf(Mains(refused), p) + CountOf(Mains(out), p)
      <4>1. CountOf(Mains(refused \o out), p) = CountOf(Mains(refused), p) + CountOf(Mains(out), p)
        BY <1>5, <1>7, OutcomesConcat
      <4> QED
        BY <1>11, <4>1
    <3>3. CountOf(Mains(refused), p) \in Nat /\ CountOf(Mains(out), p) \in Nat
      BY <1>5, <1>7, MainsCounted, EntryPhotos
    <3> QED
      BY <3>1, <3>2, <3>3
  <2> QED
    BY <2>2, <2>3, <2>4 DEF ReportedTruly
<1>21. ASSUME NEW p \in Photo, CountOf(given, p) <= 1
       PROVE  SentOnceMore(p, LeftNow, left2, sends, again, sends', again')
  <2>1. CASE sends'[p] = sends[p]
    BY <2>1 DEF SentOnceMore
  <2>2. CASE sends'[p] = sends[p] + 1 /\ CountOf(Mains(sent), p) > 0
    <3>1. LeftNow[p] > 0
      BY <1>18, <2>2
    <3>2. LeftNow[p] <= 1
      <4>1. /\ LeftNow[p] \in Nat /\ CountOf(Mains(results), p) \in Nat
            /\ CountOf(given, p) = CountOf(Mains(results), p) + LeftNow[p]
        BY <1>2, LeftOnce
      <4> QED
        BY <1>21, <4>1
    <3>3. ASSUME left2[p] > 0 PROVE p \notin again /\ p \in again'
      <4>1. CountOf(Mains(back), p) > 0
        BY <1>18, <2>2, <3>2, <3>3
      <4>2. p \notin again /\ p \in {sent[i].photo : i \in Asked(sent, turned)}
        BY <1>1, <1>4, <4>1, SentAnswered
      <4> QED
        BY <1>9, <4>2
    <3> QED
      BY <2>2, <3>1, <3>3 DEF SentOnceMore
  <2> QED
    BY <1>14, <2>1, <2>2
<1>22. again \subseteq again'
  BY <1>9
<1> QED
  BY <1>9, <1>12, <1>13, <1>16, <1>17, <1>19, <1>20, <1>21, <1>22, BookGoesOn

-----------------------------------------------------------------------------
LEMMA TransferStart == AlbumInit => TransferInv
<1> SUFFICES ASSUME AlbumInit PROVE TransferInv
  OBVIOUS
<1>1. /\ given = <<>> /\ todo = <<>> /\ same = <<>> /\ copies = <<>> /\ results = <<>> /\ apc = "idle"
      /\ group = [p \in Photo |-> {}] /\ sends = [p \in Photo |-> 0]
      /\ timeline \in SUBSET Own /\ album \in SUBSET Own
  BY DEF AlbumInit
<1>2. given \in Seq(Photo) /\ todo \in Seq(QueuedPhoto) /\ results \in Seq(PhotoOutcome)
  BY <1>1
<1>3. same \in Seq(PhotoPayload) /\ copies \in Seq(PhotoPayload)
  BY <1>1
<1>4. group \in [Photo -> SUBSET Photo] /\ sends \in [Photo -> Nat] /\ \A p \in Photo : sends[p] <= 2
  BY <1>1
<1>5. timeline \cup album \in SUBSET Photo
  BY <1>1 DEF Own
<1>6. ~Transferred /\ ~Transferring
  BY <1>1 DEF Transferred, Transferring
<1> QED
  BY <1>1, <1>2, <1>3, <1>4, <1>5, <1>6 DEF TransferInv, TransferTypes, AllAnswered

LEMMA TransferStep == TransferInv /\ [AlbumNext]_albumVars => TransferInv'
<1> SUFFICES ASSUME TransferInv, [AlbumNext]_albumVars PROVE TransferInv'
  OBVIOUS
<1>1. CASE UNCHANGED albumVars
  <2>1. /\ UNCHANGED <<given, todo, same, copies, again, results, sends, took, aside, goal, apc>>
        /\ UNCHANGED <<group, timeline, album>>
    BY <1>1 DEF albumVars
  <2>2. group \in [Photo -> SUBSET Photo] /\ timeline \cup album \in SUBSET Photo
    BY DEF TransferInv, TransferTypes
  <2> QED
    BY <2>1, <2>2, BooksUntouched
<1>2. CASE AlbumNext
  <2>1. CASE \E photos \in Requests :
                \/ AddPhotosToAlbum(photos) \/ SavePhotosToTimeline(photos)
                \/ RemovePhotos(photos) \/ UpdatePhotos(photos)
    BY <2>1, CallsOpen
  <2>2. CASE LoadPayload
    BY <2>2, PayloadLoads
  <2>3. CASE SendBatch
    BY <2>3, BatchSent
  <2>4. CASE BatchLost
    BY <2>4, BatchMissed
  <2>5. CASE CopyPhoto
    BY <2>5, PhotoCopied
  <2>6. CASE \/ RoundLoaded \/ RoundDone \/ DeleteAgain \/ Meddle
             \/ \E withPhotos \in BOOLEAN : DeleteAlbum(withPhotos)
    BY <2>6, OthersMove
  <2>7. CASE DeleteSaving
    BY <2>7, OthersMove, CallsOpen
  <2>8. CASE \/ CreateAlbum \/ \E p \in Photo : SetAlbumCover(p)
             \/ RemoveBatch \/ TagPhoto \/ UpdatePhotosStreaming
    BY <2>8, OtherCalls
  <2> QED
    BY <1>2, <2>1, <2>2, <2>3, <2>4, <2>5, <2>6, <2>7, <2>8, Zenon DEF AlbumNext
<1> QED
  BY <1>1, <1>2

LEMMA TransferSound == TransferInv => TransferReported
<1> SUFFICES ASSUME TransferInv PROVE TransferReported
  OBVIOUS
<1>1. ASSUME Transferred
      PROVE  /\ \A p \in Photo : CountOf(Mains(results), p) = CountOf(given, p)
             /\ (\A p \in Photo : CountOf(given, p) <= 1) =>
                   \A i \in 1 .. Len(results) :
                      /\ results[i].result = "ok" => results[i].photo \in took
                      /\ results[i].photo \in took \ aside => results[i].result = "ok"
  <2>1. Book(given, results, LeftNow, took, aside, sends, again)
    BY <1>1 DEF TransferInv, Transferring
  <2>2. todo = <<>> /\ same = <<>> /\ copies = <<>>
    BY <1>1 DEF TransferInv, AllAnswered
  <2>3. \A p : CountOf(Mains(<<>>), p) = 0
    BY MainsEmpty
  <2>4. ASSUME NEW p \in Photo PROVE CountOf(Mains(results), p) = CountOf(given, p)
    <3>1. LeftNow[p] = 0
      BY <2>2, <2>3 DEF LeftNow, Left
    <3>2. /\ CountOf(Mains(results), p) \in Nat
          /\ CountOf(given, p) = CountOf(Mains(results), p) + LeftNow[p]
      BY <2>1, LeftOnce
    <3> QED
      BY <3>1, <3>2
  <2>5. ASSUME NoneTwice(given), NEW i \in 1 .. Len(results)
        PROVE  /\ results[i].result = "ok" => results[i].photo \in took
               /\ results[i].photo \in took \ aside => results[i].result = "ok"
    BY <2>1, <2>5 DEF Book, Truthful
  <2> QED
    BY <2>4, <2>5 DEF NoneTwice
<1>2. \A p \in Photo : CountOf(given, p) <= 1 => sends[p] <= 2
  BY DEF TransferInv
<1> QED
  BY <1>1, <1>2 DEF TransferReported

\* A transfer that ends has reported every photo it was given, as often as it was
\* given, ok only if it was brought in and refused only if it was not or came in
\* beside its own answer, and has sent none more than twice (transfer_photos).
THEOREM TransfersAlwaysReported == AlbumSpec => []TransferReported
<1>1. TransferInv => TransferReported
  BY TransferSound
<1> QED
  BY <1>1, TransferStart, TransferStep, PTL DEF AlbumSpec

-----------------------------------------------------------------------------
(* Device names.                                                           *)

DeviceRec == [there : BOOLEAN, typed : BOOLEAN, deprecated : BOOLEAN, packet : Nat, data : Nat,
              name : DeviceName \cup {NoName}]
Listing == UNION {[D -> DeviceName \cup {NoName}] : D \in SUBSET Device}
CallStates == {"rest", "list", "find", "names", "listed", "clear", "read", "put", "renamed", "failed"}
DeviceCallRec == [at : CallStates, device : Device \cup {NoName}, name : DeviceName \cup {NoName},
                  todo : SUBSET Device, read : DeviceRec, listed : Listing]

\* A rename that is under way has found its device, which was registered, and puts
\* the name under the session key in the packet the server has.
RenameSound(c) ==
    /\ c.at \in {"find", "clear", "read", "put"} => c.device \in Device /\ c.name \in DeviceName
    /\ c.at \in {"clear", "read", "put"} => devices[c.device].name # NoName
    /\ c.at = "put" => c.read.packet = devices[c.device].packet

DeviceInv ==
    /\ devices \in [Device -> DeviceRec] /\ sessionKeys \in Nat
    /\ deviceCall \in [Machine -> DeviceCallRec]
    /\ \A d \in Device : Opens(d) /\ (devices[d].there => devices[d].name # NoName)
    /\ \A m \in Machine : RenameSound(deviceCall[m])

\* What a step may do to the server's devices: the packet of a device stays.
DevicesKept ==
    /\ devices' \in [Device -> DeviceRec]
    /\ \A d \in Device :
          /\ Opens(d)' /\ (devices'[d].there => devices'[d].name # NoName)
          /\ devices[d].name # NoName =>
                devices'[d].name # NoName /\ devices'[d].packet = devices[d].packet

LEMMA DeviceKept ==
    ASSUME DeviceInv, DevicesKept, sessionKeys' \in Nat, NEW m \in Machine, NEW c \in DeviceCallRec,
           deviceCall' = [deviceCall EXCEPT ![m] = c], RenameSound(c)'
    PROVE  DeviceInv'
<1>1. /\ deviceCall' \in [Machine -> DeviceCallRec] /\ deviceCall'[m] = c
      /\ \A n \in Machine \ {m} : deviceCall'[n] = deviceCall[n]
  BY DEF DeviceInv
<1>2. ASSUME NEW k, RenameSound(k) PROVE RenameSound(k)'
  BY <1>2 DEF RenameSound, DevicesKept
<1>3. ASSUME NEW n \in Machine PROVE RenameSound(deviceCall[n])'
  <2>1. PICK k : k = deviceCall'[n]
    OBVIOUS
  <2>2. CASE n = m
    BY <1>1, <2>2
  <2>3. CASE n # m
    <3>1. RenameSound(k)
      BY <1>1, <2>1, <2>3 DEF DeviceInv
    <3>2. RenameSound(k)'
      BY <1>2, <3>1
    <3> QED
      BY <2>1, <3>2
  <2> QED
    BY <2>2, <2>3
<1> QED
  BY <1>1, <1>3 DEF DeviceInv, DevicesKept

\* A step of a call that leaves the server alone.
LEMMA CallKept ==
    ASSUME DeviceInv, devices' = devices, sessionKeys' = sessionKeys, NEW m \in Machine,
           NEW c \in DeviceCallRec, deviceCall' = [deviceCall EXCEPT ![m] = c], RenameSound(c)
    PROVE  DeviceInv'
<1>1. DevicesKept
  BY DEF DeviceInv, DevicesKept, Opens
<1>2. RenameSound(c)' /\ sessionKeys' \in Nat
  BY DEF RenameSound, DeviceInv
<1> QED
  BY <1>1, <1>2, DeviceKept

LEMMA RestTyped == NoDevice \in DeviceRec /\ AtRest \in DeviceCallRec /\ NoDevice.name = NoName
<1>1. NoDevice \in DeviceRec /\ NoDevice.name = NoName
  BY DEF NoDevice, DeviceRec
<1>2. [d \in {} |-> NoName] \in Listing
  BY DEF Listing
<1> QED
  BY <1>1, <1>2 DEF AtRest, DeviceCallRec, CallStates

LEMMA Begun ==
    ASSUME DeviceInv, NEW m \in Machine, NEW c \in DeviceCallRec, BeginDeviceCall(m, c), RenameSound(c)
    PROVE  DeviceInv'
BY CallKept DEF BeginDeviceCall

LEMMA MetadataRead == ASSUME DeviceInv, NEW m \in Machine, DeviceMetadata(m) PROVE DeviceInv'
<1>1. PICK c \in DeviceCallRec : c = deviceCall[m]
  BY DEF DeviceInv
<1>2. c.at \in {"list", "find"} /\ RenameSound(c)
  BY <1>1 DEF DeviceInv, DeviceMetadata
<1>3. /\ devices' = devices /\ sessionKeys' = sessionKeys
      /\ Becomes(m,
          IF \E d \in There : ~devices[d].typed THEN [c EXCEPT !.at = "failed"]
          ELSE IF c.at = "list" THEN [c EXCEPT !.at = "names", !.todo = There]
          ELSE IF c.device \notin There THEN [c EXCEPT !.at = "failed"]
          ELSE [c EXCEPT !.at = IF devices[c.device].deprecated THEN "clear" ELSE "read"])
  BY <1>1 DEF DeviceMetadata
<1>4. There \in SUBSET Device /\ \A d \in There : devices[d].name # NoName
  BY DEF There, DeviceInv
<1>5. CASE Becomes(m, [c EXCEPT !.at = "failed"])
  <2>1. [c EXCEPT !.at = "failed"] \in DeviceCallRec /\ RenameSound([c EXCEPT !.at = "failed"])
    BY DEF DeviceCallRec, CallStates, RenameSound
  <2> QED
    BY <1>3, <1>5, <2>1, CallKept DEF Becomes
<1>6. CASE Becomes(m, [c EXCEPT !.at = "names", !.todo = There])
  <2>1. PICK k : k = [c EXCEPT !.at = "names", !.todo = There]
    OBVIOUS
  <2>2. k \in DeviceCallRec /\ RenameSound(k)
    BY <1>4, <2>1 DEF DeviceCallRec, CallStates, RenameSound
  <2> QED
    BY <1>3, <1>6, <2>1, <2>2, CallKept DEF Becomes
<1>7. ASSUME NEW label \in {"clear", "read"}, c.device \in There, c.at = "find",
             Becomes(m, [c EXCEPT !.at = label])
      PROVE  DeviceInv'
  <2>1. [c EXCEPT !.at = label] \in DeviceCallRec
    BY DEF DeviceCallRec, CallStates
  <2>2. RenameSound([c EXCEPT !.at = label])
    BY <1>2, <1>4, <1>7 DEF RenameSound, DeviceCallRec
  <2> QED
    BY <1>3, <1>7, <2>1, <2>2, CallKept DEF Becomes
<1>8. (IF devices[c.device].deprecated THEN "clear" ELSE "read") \in {"clear", "read"}
  OBVIOUS
<1> QED
  BY <1>2, <1>3, <1>5, <1>6, <1>7, <1>8

LEMMA NameListed == ASSUME DeviceInv, NEW m \in Machine, NEW d \in Device, DeviceRootFolderName(m, d)
                    PROVE  DeviceInv'
<1>1. PICK c \in DeviceCallRec : c = deviceCall[m]
  BY DEF DeviceInv
<1> DEFINE named(n) == [deviceCall[m] EXCEPT
             !.todo = @ \ {d},
             !.listed = [e \in DOMAIN @ \cup {d} |-> IF e = d THEN n ELSE @[e]]]
<1>2. PICK n \in DeviceName \cup {NoName} : deviceCall' = [deviceCall EXCEPT ![m] = named(n)]
  <2>1. devices[d].name \in DeviceName \cup {NoName}
    BY DEF DeviceInv, DeviceRec
  <2> HIDE DEF named
  <2>2. \/ deviceCall' = [deviceCall EXCEPT ![m] = named(devices[d].name)]
        \/ deviceCall' = [deviceCall EXCEPT ![m] = named(NoName)]
    BY DEF DeviceRootFolderName, Becomes, named
  <2> QED
    BY <2>1, <2>2
<1>3. c.at = "names" /\ devices' = devices /\ sessionKeys' = sessionKeys
  BY <1>1 DEF DeviceRootFolderName
<1>4. PICK l : l = [e \in DOMAIN c.listed \cup {d} |-> IF e = d THEN n ELSE c.listed[e]]
  OBVIOUS
<1>5. PICK D \in SUBSET Device : c.listed \in [D -> DeviceName \cup {NoName}]
  BY DEF DeviceCallRec, Listing
<1>6. l \in [D \cup {d} -> DeviceName \cup {NoName}] /\ D \cup {d} \in SUBSET Device
  BY <1>4, <1>5
<1>7. l \in Listing
  BY <1>6 DEF Listing
<1>8. named(n) = [c EXCEPT !.todo = @ \ {d}, !.listed = l]
  BY <1>1, <1>4
<1>9. PICK k : k = [c EXCEPT !.todo = @ \ {d}, !.listed = l]
  OBVIOUS
<1>10. k \in DeviceCallRec /\ k.at = "names"
  BY <1>3, <1>7, <1>9 DEF DeviceCallRec
<1>11. RenameSound(k)
  BY <1>10 DEF RenameSound
<1> QED
  BY <1>2, <1>3, <1>8, <1>9, <1>10, <1>11, CallKept

LEMMA NamesListed == ASSUME DeviceInv, NEW m \in Machine, DevicesListed(m) PROVE DeviceInv'
<1>1. PICK c \in DeviceCallRec : c = deviceCall[m]
  BY DEF DeviceInv
<1>2. [c EXCEPT !.at = "listed"] \in DeviceCallRec /\ RenameSound([c EXCEPT !.at = "listed"])
  BY DEF DeviceCallRec, CallStates, RenameSound
<1> QED
  BY <1>1, <1>2, CallKept DEF DevicesListed, Becomes

LEMMA Created ==
    ASSUME DeviceInv, NEW m \in Machine, NEW d \in Device, NEW n \in DeviceName, CreateDevice(m, d, n)
    PROVE  DeviceInv'
<1>1. devices \in [Device -> DeviceRec] /\ sessionKeys \in Nat /\ devices[d].name = NoName
  BY RestTyped DEF DeviceInv, CreateDevice
<1>2. PICK r : r = [there |-> TRUE, typed |-> TRUE, deprecated |-> FALSE,
                    packet |-> sessionKeys', data |-> sessionKeys', name |-> n]
  OBVIOUS
<1>3. /\ devices' = [devices EXCEPT ![d] = r] /\ sessionKeys' \in Nat /\ deviceCall' = deviceCall
  BY <1>1, <1>2 DEF CreateDevice
<1>4. r \in DeviceRec /\ r.packet = r.data /\ r.name # NoName
  BY <1>2, <1>3, DevicesAssumption DEF DeviceRec
<1>5. devices' \in [Device -> DeviceRec] /\ devices'[d] = r
      /\ \A e \in Device \ {d} : devices'[e] = devices[e]
  BY <1>1, <1>3, <1>4
<1>6. DevicesKept
  BY <1>1, <1>4, <1>5 DEF DevicesKept, Opens, DeviceInv
<1>7. PICK c \in DeviceCallRec : c = deviceCall[m]
  BY DEF DeviceInv
<1>8. RenameSound(c)
  BY <1>7 DEF DeviceInv
<1>9. RenameSound(c)'
  BY <1>6, <1>8 DEF RenameSound, DevicesKept
<1>10. deviceCall' = [deviceCall EXCEPT ![m] = c]
  BY <1>3, <1>7 DEF DeviceInv
<1> QED
  BY <1>3, <1>6, <1>9, <1>10, DeviceKept

LEMMA Deleted == ASSUME DeviceInv, NEW m \in Machine, NEW d \in Device, DeleteDevice(m, d)
                 PROVE  DeviceInv'
<1>1. devices \in [Device -> DeviceRec] /\ sessionKeys \in Nat
  BY DEF DeviceInv
<1>2. devices' = [devices EXCEPT ![d].there = FALSE] /\ sessionKeys' \in Nat /\ deviceCall' = deviceCall
  BY <1>1 DEF DeleteDevice
<1>3. /\ devices' \in [Device -> DeviceRec] /\ \A e \in Device \ {d} : devices'[e] = devices[e]
      /\ devices'[d].packet = devices[d].packet /\ devices'[d].data = devices[d].data
      /\ devices'[d].name = devices[d].name /\ ~devices'[d].there
  BY <1>1, <1>2 DEF DeviceRec
<1>4. DevicesKept
  BY <1>3 DEF DevicesKept, Opens, DeviceInv
<1>5. PICK c \in DeviceCallRec : c = deviceCall[m]
  BY DEF DeviceInv
<1>6. RenameSound(c)
  BY <1>5 DEF DeviceInv
<1>7. RenameSound(c)'
  BY <1>4, <1>6 DEF RenameSound, DevicesKept
<1>8. deviceCall' = [deviceCall EXCEPT ![m] = c]
  BY <1>2, <1>5 DEF DeviceInv
<1> QED
  BY <1>2, <1>4, <1>7, <1>8, DeviceKept

LEMMA Cleared == ASSUME DeviceInv, NEW m \in Machine, ClearDeprecatedName(m) PROVE DeviceInv'
<1>1. PICK c \in DeviceCallRec : c = deviceCall[m]
  BY DEF DeviceInv
<1>2. c.at = "clear" /\ RenameSound(c) /\ c.device \in Device
  BY <1>1 DEF DeviceInv, ClearDeprecatedName, RenameSound
<1>3. PICK k : k = [c EXCEPT !.at = "read"]
  OBVIOUS
<1>4. k \in DeviceCallRec /\ k.at = "read" /\ k.device = c.device /\ k.name = c.name
  BY <1>3 DEF DeviceCallRec, CallStates
<1>5. deviceCall' = [deviceCall EXCEPT ![m] = k] /\ sessionKeys' = sessionKeys
  BY <1>1, <1>3 DEF ClearDeprecatedName, Becomes
<1>6. devices' = devices \/ devices' = [devices EXCEPT ![c.device].deprecated = FALSE]
  BY <1>1 DEF ClearDeprecatedName
<1>7. devices \in [Device -> DeviceRec] /\ sessionKeys \in Nat
  BY DEF DeviceInv
<1>8. /\ devices' \in [Device -> DeviceRec]
      /\ \A e \in Device : /\ devices'[e].packet = devices[e].packet /\ devices'[e].data = devices[e].data
                           /\ devices'[e].name = devices[e].name /\ (devices'[e].there => devices[e].there)
  <2>1. CASE devices' = devices
    BY <1>7, <2>1
  <2>2. CASE devices' = [devices EXCEPT ![c.device].deprecated = FALSE]
    <3>1. /\ devices' \in [Device -> DeviceRec]
          /\ \A e \in Device \ {c.device} : devices'[e] = devices[e]
      BY <1>2, <1>7, <2>2 DEF DeviceRec
    <3>2. devices'[c.device] = [devices[c.device] EXCEPT !.deprecated = FALSE]
      BY <1>2, <1>7, <2>2
    <3>3. PICK r \in DeviceRec : r = devices[c.device]
      BY <1>2, <1>7
    <3>4. /\ [r EXCEPT !.deprecated = FALSE].packet = r.packet /\ [r EXCEPT !.deprecated = FALSE].data = r.data
          /\ [r EXCEPT !.deprecated = FALSE].name = r.name
          /\ ([r EXCEPT !.deprecated = FALSE].there => r.there)
      BY DEF DeviceRec
    <3> QED
      BY <3>1, <3>2, <3>3, <3>4
  <2> QED
    BY <1>6, <2>1, <2>2
<1>9. DevicesKept
  BY <1>8 DEF DevicesKept, Opens, DeviceInv
<1>10. RenameSound(k)'
  BY <1>2, <1>4, <1>8 DEF RenameSound
<1> QED
  BY <1>4, <1>5, <1>7, <1>9, <1>10, DeviceKept

LEMMA NameRead == ASSUME DeviceInv, NEW m \in Machine, ReadCurrentName(m) PROVE DeviceInv'
<1>1. PICK c \in DeviceCallRec : c = deviceCall[m]
  BY DEF DeviceInv
<1>2. c.at = "read" /\ RenameSound(c) /\ c.device \in Device
  BY <1>1 DEF DeviceInv, ReadCurrentName, RenameSound
<1>3. devices' = devices /\ sessionKeys' = sessionKeys
  BY DEF ReadCurrentName
<1>4. devices[c.device] \in DeviceRec
  BY <1>2 DEF DeviceInv
<1>5. PICK k \in {[c EXCEPT !.at = "put", !.read = devices[c.device]], [c EXCEPT !.at = "failed"]} :
         deviceCall' = [deviceCall EXCEPT ![m] = k]
  BY <1>1 DEF ReadCurrentName, Becomes
<1>6. k \in DeviceCallRec /\ RenameSound(k)
  BY <1>2, <1>4, <1>5 DEF RenameSound, DeviceCallRec, CallStates
<1> QED
  BY <1>3, <1>5, <1>6, CallKept

LEMMA NamePut == ASSUME DeviceInv, NEW m \in Machine, PutName(m) PROVE DeviceInv'
<1>1. PICK c \in DeviceCallRec : c = deviceCall[m]
  BY DEF DeviceInv
<1>2. /\ c.at = "put" /\ RenameSound(c) /\ c.device \in Device /\ c.name \in DeviceName
      /\ c.read.packet = devices[c.device].packet /\ devices[c.device].name # NoName
  BY <1>1 DEF DeviceInv, PutName, RenameSound
<1>3. PICK k \in {[c EXCEPT !.at = "renamed"], [c EXCEPT !.at = "failed"]} :
         deviceCall' = [deviceCall EXCEPT ![m] = k]
  BY <1>1 DEF PutName, Becomes
<1>4. k \in DeviceCallRec /\ k.at \in {"renamed", "failed"}
  BY <1>3 DEF DeviceCallRec, CallStates
<1>5. RenameSound(k)'
  BY <1>4 DEF RenameSound
<1>6. devices \in [Device -> DeviceRec] /\ sessionKeys \in Nat /\ sessionKeys' = sessionKeys
  BY DEF DeviceInv, PutName
<1>7. \/ devices' = devices
      \/ devices' = [devices EXCEPT ![c.device].data = c.read.packet, ![c.device].name = c.name]
  BY <1>1 DEF PutName, NameSessionKey
<1>8. CASE devices' = devices
  <2>1. DevicesKept
    BY <1>8 DEF DeviceInv, DevicesKept, Opens
  <2> QED
    BY <1>3, <1>4, <1>5, <1>6, <2>1, DeviceKept
<1>9. CASE devices' = [devices EXCEPT ![c.device].data = c.read.packet, ![c.device].name = c.name]
  <2>1. c.read.packet \in Nat
    BY <1>2, <1>6 DEF DeviceRec
  <2>2. /\ devices' \in [Device -> DeviceRec]
        /\ \A e \in Device \ {c.device} : devices'[e] = devices[e]
        /\ devices'[c.device].packet = devices[c.device].packet
        /\ devices'[c.device].data = c.read.packet /\ devices'[c.device].name = c.name
    BY <1>2, <1>6, <1>9, <2>1 DEF DeviceRec
  <2>3. c.name # NoName
    BY <1>2, DevicesAssumption
  <2>4. DevicesKept
    BY <1>2, <2>2, <2>3 DEF DevicesKept, Opens, DeviceInv
  <2> QED
    BY <1>3, <1>4, <1>5, <1>6, <2>4, DeviceKept
<1> QED
  BY <1>7, <1>8, <1>9

LEMMA DeviceInitially == DevicesInit => DeviceInv
<1> SUFFICES ASSUME DevicesInit PROVE DeviceInv
  OBVIOUS
<1>1. deviceCall \in [Machine -> DeviceCallRec] /\ \A m \in Machine : deviceCall[m].at = "rest"
  BY RestTyped DEF DevicesInit, AtRest
<1> DEFINE registered == [there : {TRUE}, typed : BOOLEAN, deprecated : BOOLEAN, packet : {1},
                          data : {1}, name : DeviceName]
<1>2. devices \in [Device -> DeviceRec]
  <2>1. {TRUE} \subseteq BOOLEAN /\ {1} \subseteq Nat
    OBVIOUS
  <2>2. registered \subseteq DeviceRec
    BY <2>1, Zenon DEF DeviceRec
  <2> QED
    BY <2>2, RestTyped DEF DevicesInit
<1>3. \A d \in Device : Opens(d) /\ (devices[d].there => devices[d].name # NoName)
  <2>1. \A r \in registered : r.packet = r.data /\ r.name # NoName
    BY DevicesAssumption
  <2>2. NoDevice.packet = NoDevice.data /\ ~NoDevice.there
    BY DEF NoDevice
  <2>3. \A d \in Device : devices[d] = NoDevice \/ devices[d] \in registered
    BY DEF DevicesInit
  <2> HIDE DEF registered
  <2> QED
    BY <2>1, <2>2, <2>3 DEF Opens
<1> QED
  BY <1>1, <1>2, <1>3 DEF DevicesInit, DeviceInv, RenameSound

LEMMA DeviceStep == DeviceInv /\ [DeviceNext]_deviceVars => DeviceInv'
<1> SUFFICES ASSUME DeviceInv, [DeviceNext]_deviceVars PROVE DeviceInv'
  OBVIOUS
<1>1. CASE UNCHANGED deviceVars
  BY <1>1 DEF deviceVars, DeviceInv, RenameSound, Opens
<1>2. ASSUME NEW m \in Machine, EnumerateDevices(m) PROVE DeviceInv'
  <2>1. PICK c : c = [AtRest EXCEPT !.at = "list"]
    OBVIOUS
  <2>2. c \in DeviceCallRec /\ RenameSound(c)
    BY <2>1, RestTyped DEF DeviceCallRec, CallStates, RenameSound
  <2> QED
    BY <1>2, <2>1, <2>2, Begun DEF EnumerateDevices
<1>3. ASSUME NEW m \in Machine, NEW d \in Device, NEW n \in DeviceName, RenameDevice(m, d, n)
      PROVE  DeviceInv'
  <2>1. PICK c : c = [AtRest EXCEPT !.at = "find", !.device = d, !.name = n]
    OBVIOUS
  <2>2. c \in DeviceCallRec /\ RenameSound(c)
    BY <2>1, RestTyped DEF DeviceCallRec, CallStates, RenameSound
  <2> QED
    BY <1>3, <2>1, <2>2, Begun DEF RenameDevice
<1> QED
  BY <1>1, <1>2, <1>3, MetadataRead, NamesListed, Cleared, NameRead, NamePut, NameListed, Deleted,
     Created DEF DeviceNext

\* However clients of the account create, rename and delete a device side by side,
\* its name stays readable: rename_device puts it under the session key of the key
\* packet that the server keeps.
THEOREM DeviceNamesAlwaysOpen == DeviceSpec => []DeviceNamesOpen
<1>1. DeviceInv => DeviceNamesOpen
  BY DEF DeviceInv, DeviceNamesOpen, There
<1> QED
  BY <1>1, DeviceInitially, DeviceStep, PTL DEF DeviceSpec

-----------------------------------------------------------------------------
(* Sharing.                                                                *)

UrlRec == [id : Nat, gen : Nat]
LinkRec == [id : Nat, gen : Nat, legacy : BOOLEAN, addr : {HomeAddress, OtherAddress}, keyOf : Nat]
EntryRec == [id : Nat, email : Email, kind : {"proton", "external"}, joined : BOOLEAN, since : Nat,
             routed : BOOLEAN, slipped : BOOLEAN]

\* What is left to read of the lists.
NoneLeft == <<>>
MembersLeft == <<"member">>
InvitedLeft == <<"proton", "member">>
AllLeft == <<"external", "proton", "member">>
ListsLeft == {NoneLeft, MembersLeft, InvitedLeft, AllLeft}
NamedIn(lists) ==
    IF lists = AllLeft THEN {"external", "proton", "member"}
    ELSE IF lists = InvitedLeft THEN {"proton", "member"}
    ELSE IF lists = MembersLeft THEN {"member"} ELSE {}

ShareCallRec ==
    [at : {"idle", "look", "route", "create", "list", "post", "get", "seal"},
     kind : {"none", "proton", "external", "link", "update", "get"},
     todo : Seq(Email), proton : Seq(Email), external : Seq(Email), share : Nat,
     already : SUBSET Email, since : Nat, signer : {HomeAddress, OtherAddress}, lists : ListsLeft,
     link : LinkRec \cup {NoLink}, routed : BOOLEAN, slipped : BOOLEAN]

ShareTypes ==
    /\ context \in {HomeAddress, OtherAddress}
    /\ share \in Nat /\ shares \in Nat /\ entryCount \in Nat /\ linkCount \in Nat
    /\ link \in LinkRec \cup {NoLink} /\ entries \subseteq EntryRec /\ handed \subseteq UrlRec

\* The link is on the share, its number was given out, and the URLs handed out for it
\* carry its password.
LinkGood ==
    /\ link # NoLink => link.keyOf = share /\ share # 0 /\ link.id <= linkCount
    /\ \A u \in handed :
          u.id <= linkCount /\ (link # NoLink /\ u.id = link.id => u.gen = link.gen)

\* An update under way: if the link it read is still there, so is its password, and
\* the share the call has is the one the link is on.
UpdateGood(c) ==
    /\ c.at \in {"look", "create"} => c.kind \in {"proton", "external", "link", "update"}
    /\ c.at = "seal" => c.share # 0
    /\ c.kind = "update" /\ c.at \in {"look", "create", "seal"} =>
          /\ c.link \in LinkRec /\ c.link.id <= linkCount
          /\ link # NoLink /\ link.id = c.link.id =>
                c.link.gen = link.gen /\ (c.at = "seal" => c.share = share)

\* The list an entry is in.
ListOf(x) == IF x.joined THEN "member" ELSE x.kind

\* What a call that invites knows: each entry from before its first list was read is
\* among those it has noted, or in a list it has yet to read.
Noted(c, y) ==
    \/ Lower[y.email] \in c.already
    \/ ListOf(y) \in NamedIn(c.lists)
    \/ y.kind = "external" /\ c.kind = "proton"
NotedAll(c) == c.since <= entryCount /\ \A y \in entries : y.id <= c.since => Noted(c, y)
ListsGood(c) ==
    /\ c.at \in {"list", "post"} => c.kind \in {"proton", "external"}
    /\ c.at = "list" =>
          /\ c.lists # NoneLeft /\ (c.kind = "proton" => c.lists # AllLeft)
          /\ c.lists # ListingOrder(c.kind) => NotedAll(c)
    /\ c.at = "post" => c.lists = NoneLeft /\ NotedAll(c)

EntriesGood == (\A x \in entries : x.id <= entryCount) /\ InviteesAreNew

SharingInv ==
    /\ ShareTypes /\ LinkGood /\ EntriesGood /\ call \in [Owner -> ShareCallRec]
    /\ \A o \in Owner : UpdateGood(call[o]) /\ ListsGood(call[o])

\* What a step may do to the link: a link with an old number is the old one, with its
\* password, on its share.
LinkStays ==
    /\ linkCount <= linkCount'
    /\ link' # NoLink =>
          \/ link'.id > linkCount
          \/ link # NoLink /\ link'.id = link.id /\ link'.gen = link.gen /\ share' = share

\* ... and to the entries: new ones have new numbers, old ones may have joined.
EntriesStay ==
    /\ entryCount <= entryCount'
    /\ \A y \in entries' :
          \/ y.id > entryCount
          \/ \E z \in entries : /\ z.id = y.id /\ z.email = y.email /\ z.kind = y.kind
                                /\ ListOf(y) \in {ListOf(z), "member"}
                                /\ z.since = y.since

LEMMA ListFacts ==
    /\ Len(NoneLeft) = 0 /\ Len(MembersLeft) = 1 /\ Len(InvitedLeft) = 2 /\ Len(AllLeft) = 3
    /\ NoneLeft # MembersLeft /\ NoneLeft # InvitedLeft /\ NoneLeft # AllLeft
    /\ MembersLeft # InvitedLeft /\ MembersLeft # AllLeft /\ InvitedLeft # AllLeft
    /\ Head(MembersLeft) = "member" /\ Tail(MembersLeft) = NoneLeft
    /\ Head(InvitedLeft) = "proton" /\ Tail(InvitedLeft) = MembersLeft
    /\ Head(AllLeft) = "external" /\ Tail(AllLeft) = InvitedLeft
    /\ ListingOrder("external") = AllLeft /\ ListingOrder("proton") = InvitedLeft
<1>1. Len(NoneLeft) = 0 /\ Len(MembersLeft) = 1 /\ Len(InvitedLeft) = 2 /\ Len(AllLeft) = 3
  BY DEF NoneLeft, MembersLeft, InvitedLeft, AllLeft
<1>2. Head(MembersLeft) = "member" /\ Head(InvitedLeft) = "proton" /\ Head(AllLeft) = "external"
  BY DEF MembersLeft, InvitedLeft, AllLeft
<1>3. Tail(MembersLeft) = NoneLeft
  BY DEF MembersLeft, NoneLeft
<1>4. Tail(InvitedLeft) = MembersLeft
  BY DEF InvitedLeft, MembersLeft
<1>5. Tail(AllLeft) = InvitedLeft
  BY DEF AllLeft, InvitedLeft
<1>6. ListingOrder("external") = AllLeft /\ ListingOrder("proton") = InvitedLeft
  BY DEF ListingOrder, AllLeft, InvitedLeft
<1>7. /\ NoneLeft # MembersLeft /\ NoneLeft # InvitedLeft /\ NoneLeft # AllLeft
      /\ MembersLeft # InvitedLeft /\ MembersLeft # AllLeft /\ InvitedLeft # AllLeft
  <2>1. ASSUME NEW a, NEW b, Len(a) # Len(b) PROVE a # b
    BY <2>1
  <2>2. 0 # 1 /\ 0 # 2 /\ 0 # 3 /\ 1 # 2 /\ 1 # 3 /\ 2 # 3
    OBVIOUS
  <2> QED
    BY <1>1, <2>1, <2>2, Zenon
<1> QED
  BY <1>1, <1>2, <1>3, <1>4, <1>5, <1>6, <1>7

\* An entry that joins goes to the list that is read last.
LEMMA MemberNamed ==
    ASSUME NEW lists \in ListsLeft, NEW name \in NamedIn(lists)
    PROVE  "member" \in NamedIn(lists)
BY DEF ListsLeft, NamedIn

LEMMA UpdateStays ==
    ASSUME ShareTypes, ShareTypes', LinkStays, NEW c \in ShareCallRec, UpdateGood(c)
    PROVE  UpdateGood(c)'
<1>1. linkCount \in Nat /\ linkCount' \in Nat /\ linkCount <= linkCount'
  BY DEF ShareTypes, LinkStays
<1>2. ASSUME c.kind = "update", c.at \in {"look", "create", "seal"}
      PROVE  /\ c.link \in LinkRec /\ c.link.id <= linkCount'
             /\ link' # NoLink /\ link'.id = c.link.id =>
                   c.link.gen = link'.gen /\ (c.at = "seal" => c.share = share')
  <2>1. c.link \in LinkRec /\ c.link.id \in Nat /\ c.link.id <= linkCount
    BY <1>2 DEF UpdateGood, LinkRec
  <2>2. ASSUME link' # NoLink, link'.id = c.link.id
        PROVE  c.link.gen = link'.gen /\ (c.at = "seal" => c.share = share')
    <3>1. ~(link'.id > linkCount)
      BY <1>1, <2>1, <2>2
    <3>2. link # NoLink /\ link'.id = link.id /\ link'.gen = link.gen /\ share' = share
      BY <2>2, <3>1 DEF LinkStays
    <3> QED
      BY <1>2, <2>2, <3>2 DEF UpdateGood
  <2> QED
    BY <1>1, <2>1, <2>2
<1> QED
  BY <1>2 DEF UpdateGood

LEMMA NotedStays ==
    ASSUME ShareTypes, ShareTypes', EntriesStay, NEW c \in ShareCallRec, NotedAll(c)
    PROVE  NotedAll(c)'
<1>1. entryCount \in Nat /\ entryCount' \in Nat /\ entryCount <= entryCount' /\ c.since \in Nat
      /\ c.since <= entryCount /\ c.lists \in ListsLeft
  BY DEF ShareTypes, EntriesStay, ShareCallRec, NotedAll
<1>2. ASSUME NEW y \in entries', y.id <= c.since PROVE Noted(c, y)
  <2>1. y.id \in Nat
    BY DEF ShareTypes, EntryRec
  <2>2. ~(y.id > entryCount)
    BY <1>1, <1>2, <2>1
  <2>3. PICK z \in entries : /\ z.id = y.id /\ z.email = y.email /\ z.kind = y.kind
                             /\ ListOf(y) \in {ListOf(z), "member"}
    BY <2>2 DEF EntriesStay
  <2>4. Noted(c, z)
    BY <1>2, <2>3 DEF NotedAll
  <2>5. CASE ListOf(z) \in NamedIn(c.lists)
    BY <1>1, <2>3, <2>5, MemberNamed DEF Noted
  <2>6. CASE ListOf(z) \notin NamedIn(c.lists)
    BY <2>3, <2>4, <2>6 DEF Noted
  <2> QED
    BY <2>5, <2>6
<1>3. c.since <= entryCount'
  BY <1>1
<1> QED
  BY <1>2, <1>3 DEF NotedAll, Noted, ListOf

LEMMA ListsStay ==
    ASSUME ShareTypes, ShareTypes', EntriesStay, NEW c \in ShareCallRec, ListsGood(c)
    PROVE  ListsGood(c)'
BY NotedStays DEF ListsGood

\* A step of the call o, and one of nobody's call.
LEMMA CallMoved ==
    ASSUME SharingInv, ShareTypes', LinkGood', EntriesGood', LinkStays, EntriesStay,
           NEW o \in Owner, NEW c \in ShareCallRec, call' = [call EXCEPT ![o] = c],
           UpdateGood(c)', ListsGood(c)'
    PROVE  SharingInv'
<1>1. /\ call' \in [Owner -> ShareCallRec] /\ call'[o] = c
      /\ \A n \in Owner \ {o} : call'[n] = call[n]
  BY DEF SharingInv
<1>2. ASSUME NEW n \in Owner PROVE UpdateGood(call[n])' /\ ListsGood(call[n])'
  <2>1. PICK k : k = call'[n]
    OBVIOUS
  <2>2. UpdateGood(k)' /\ ListsGood(k)'
    <3>1. CASE n = o
      BY <1>1, <2>1, <3>1
    <3>2. CASE n # o
      <4>1. UpdateGood(k) /\ ListsGood(k) /\ k \in ShareCallRec /\ ShareTypes
        BY <1>1, <2>1, <3>2 DEF SharingInv
      <4> QED
        BY <4>1, UpdateStays, ListsStay
    <3> QED
      BY <3>1, <3>2
  <2> QED
    BY <2>1, <2>2
<1> QED
  BY <1>1, <1>2 DEF SharingInv

LEMMA ServerMoved ==
    ASSUME SharingInv, ShareTypes', LinkGood', EntriesGood', LinkStays, EntriesStay, call' = call
    PROVE  SharingInv'
<1>1. ASSUME NEW n \in Owner PROVE UpdateGood(call[n])' /\ ListsGood(call[n])'
  <2>1. PICK k : k = call'[n]
    OBVIOUS
  <2>2. UpdateGood(k) /\ ListsGood(k) /\ k \in ShareCallRec /\ ShareTypes
    BY <2>1 DEF SharingInv
  <2>3. UpdateGood(k)' /\ ListsGood(k)'
    BY <2>2, UpdateStays, ListsStay
  <2> QED
    BY <2>1, <2>3
<1> QED
  BY <1>1 DEF SharingInv

\* The link, or the entries, are left alone.
LinkAlone == UNCHANGED <<share, link, linkCount, handed>>
EntriesAlone == UNCHANGED <<entries, entryCount>>

LEMMA LinkLeft ==
    ASSUME SharingInv, LinkAlone PROVE LinkGood' /\ LinkStays
<1>1. linkCount \in Nat
  BY DEF SharingInv, ShareTypes
<1>2. LinkGood'
  BY DEF SharingInv, LinkAlone, LinkGood
<1>3. LinkStays
  BY <1>1 DEF LinkAlone, LinkStays
<1> QED
  BY <1>2, <1>3

LEMMA EntriesLeft ==
    ASSUME SharingInv, EntriesAlone PROVE EntriesGood' /\ EntriesStay
<1>1. entryCount \in Nat
  BY DEF SharingInv, ShareTypes
<1>2. EntriesGood'
  BY DEF SharingInv, EntriesAlone, EntriesGood, InviteesAreNew
<1>3. EntriesStay
  BY <1>1 DEF EntriesAlone, EntriesStay
<1> QED
  BY <1>2, <1>3

\* Entries go or join.
LEMMA EntriesFewer ==
    ASSUME SharingInv, entries' \subseteq EntryRec, entryCount' = entryCount,
           \A y \in entries' : \E z \in entries :
               /\ z.id = y.id /\ z.email = y.email /\ z.kind = y.kind /\ z.since = y.since
               /\ ListOf(y) \in {ListOf(z), "member"}
    PROVE  EntriesGood' /\ EntriesStay
<1>1. entryCount \in Nat
  BY DEF SharingInv, ShareTypes
<1>2. \A x \in entries' : x.id <= entryCount'
  BY DEF SharingInv, EntriesGood
<1>3. ASSUME NEW x \in entries', NEW y \in entries', Lower[x.email] = Lower[y.email], y.id < x.id
      PROVE  y.id > x.since \/ (y.kind = "external" /\ x.kind = "proton")
  <2>1. PICK v \in entries : v.id = x.id /\ v.email = x.email /\ v.kind = x.kind /\ v.since = x.since
    OBVIOUS
  <2>2. PICK w \in entries : w.id = y.id /\ w.email = y.email /\ w.kind = y.kind /\ w.since = y.since
    OBVIOUS
  <2> QED
    BY <1>3, <2>1, <2>2 DEF SharingInv, EntriesGood, InviteesAreNew
<1>4. InviteesAreNew'
  BY <1>3 DEF InviteesAreNew
<1>5. EntriesStay
  BY <1>1 DEF EntriesStay
<1> QED
  BY <1>2, <1>4, <1>5 DEF EntriesGood

\* A step that only takes the call o on.
LEMMA CallOnly ==
    ASSUME SharingInv, context' = context, shares' = shares, LinkAlone, EntriesAlone,
           NEW o \in Owner, NEW c \in ShareCallRec, call' = [call EXCEPT ![o] = c],
           UpdateGood(c), ListsGood(c)
    PROVE  SharingInv'
<1>1. ShareTypes /\ ShareTypes'
  BY DEF SharingInv, ShareTypes, LinkAlone, EntriesAlone
<1>2. LinkGood' /\ LinkStays /\ EntriesGood' /\ EntriesStay
  BY LinkLeft, EntriesLeft
<1>3. UpdateGood(c)' /\ ListsGood(c)'
  BY <1>1, <1>2, UpdateStays, ListsStay
<1> QED
  BY <1>1, <1>2, <1>3, CallMoved

LEMMA RestingGood == Resting \in ShareCallRec /\ UpdateGood(Resting) /\ ListsGood(Resting)
<1>1. Resting \in ShareCallRec
  BY DEF Resting, ShareCallRec, ListsLeft, NoneLeft
<1>2. Resting.at = "idle"
  BY DEF Resting
<1> QED
  BY <1>1, <1>2 DEF UpdateGood, ListsGood

\* A call that is not at its lists nor at its link.
LEMMA Elsewhere ==
    ASSUME NEW c, c.at \in {"idle", "route", "get"} \/ (c.at = "look" /\ c.kind \in {"proton", "external", "link"})
    PROVE  UpdateGood(c) /\ ListsGood(c)
BY DEF UpdateGood, ListsGood

LEMMA CallEnds ==
    ASSUME SharingInv, NEW o \in Owner, Ends(o), shares' = shares, EntriesAlone,
           UNCHANGED <<share, link, linkCount>>
    PROVE  SharingInv'
BY RestingGood, CallOnly DEF Ends, Goes, LinkAlone

LEMMA CallBegins ==
    ASSUME SharingInv, NEW o \in Owner, NEW c \in ShareCallRec, Begins(o, c),
           c.at \in {"route", "get"} \/ (c.at = "look" /\ c.kind \in {"proton", "external", "link"})
    PROVE  SharingInv'
BY Elsewhere, CallOnly DEF Begins, LinkAlone, EntriesAlone

LEMMA CallsBegin ==
    ASSUME SharingInv, NEW o \in Owner,
           \/ \E emails \in Invitees :
                 \/ BeginShareNode(o, emails)
                 \/ BeginInviteExternal(o, emails)
                 \/ BeginInviteUsers(o, emails)
           \/ BeginCreateLink(o) \/ BeginUpdateLink(o) \/ BeginGetLink(o)
    PROVE  SharingInv'
<1>1. ASSUME NEW emails \in Invitees, NEW kind \in {"proton", "external"},
             Begins(o, [Resting EXCEPT !.at = "look", !.kind = kind, !.todo = emails])
      PROVE  SharingInv'
  <2>1. PICK c : c = [Resting EXCEPT !.at = "look", !.kind = kind, !.todo = emails]
    OBVIOUS
  <2>2. c \in ShareCallRec /\ c.at = "look" /\ c.kind = kind
    BY <2>1, RestingGood, SharingAssumption DEF ShareCallRec
  <2> QED
    BY <1>1, <2>1, <2>2, CallBegins
<1>2. ASSUME NEW emails \in Invitees, BeginInviteUsers(o, emails) PROVE SharingInv'
  <2>1. PICK c : c = [Resting EXCEPT !.at = "route", !.todo = emails, !.routed = TRUE]
    OBVIOUS
  <2>2. c \in ShareCallRec /\ c.at = "route"
    BY <2>1, RestingGood, SharingAssumption DEF ShareCallRec
  <2> QED
    BY <1>2, <2>1, <2>2, CallBegins DEF BeginInviteUsers
<1>3. ASSUME NEW at \in {"look", "get"}, NEW kind \in {"link", "update", "get"},
             at = "look" => kind = "link", Begins(o, [Resting EXCEPT !.at = at, !.kind = kind])
      PROVE  SharingInv'
  <2>1. PICK c : c = [Resting EXCEPT !.at = at, !.kind = kind]
    OBVIOUS
  <2>2. c \in ShareCallRec /\ c.at = at /\ c.kind = kind
    BY <2>1, RestingGood DEF ShareCallRec
  <2> QED
    BY <1>3, <2>1, <2>2, CallBegins
<1> QED
  BY <1>1, <1>2, <1>3
     DEF BeginShareNode, BeginInviteExternal, BeginCreateLink, BeginUpdateLink, BeginGetLink

LEMMA AfterRoutingGood ==
    ASSUME NEW c \in ShareCallRec
    PROVE  /\ AfterRouting(c) \in ShareCallRec
           /\ \/ AfterRouting(c).at = "idle"
              \/ AfterRouting(c).at = "look" /\ AfterRouting(c).kind \in {"proton", "external"}
<1>0. PICK none \in Seq(Email) : none = <<>>
  <2>1. \E e : e = <<>>
    OBVIOUS
  <2>2. PICK e : e = <<>>
    BY <2>1
  <2>3. e \in Seq(Email)
    BY <2>2
  <2> QED
    BY <2>2, <2>3
<1>1. CASE c.proton # <<>>
  <2>1. AfterRouting(c) = [c EXCEPT !.at = "look", !.kind = "proton", !.todo = c.proton, !.proton = none]
    BY <1>0, <1>1 DEF AfterRouting
  <2> QED
    BY <2>1 DEF ShareCallRec
<1>2. CASE c.proton = <<>> /\ c.external # <<>>
  <2>1. AfterRouting(c) =
           [c EXCEPT !.at = "look", !.kind = "external", !.todo = c.external, !.external = none]
    BY <1>0, <1>2 DEF AfterRouting
  <2> QED
    BY <2>1 DEF ShareCallRec
<1>3. CASE c.proton = <<>> /\ c.external = <<>>
  <2>1. AfterRouting(c) = Resting
    BY <1>3 DEF AfterRouting
  <2>2. Resting.at = "idle" /\ Resting.kind = "none"
    BY DEF Resting
  <2> QED
    BY <2>1, <2>2, RestingGood
<1> QED
  BY <1>1, <1>2, <1>3

LEMMA EmailRouted == ASSUME SharingInv, NEW o \in Owner, RouteEmail(o) PROVE SharingInv'
<1>1. PICK c0 \in ShareCallRec : c0 = call[o]
  BY DEF SharingInv
<1>0. PICK answer \in {Found, Absent}, failed \in BOOLEAN : \E c :
         /\ c = [call[o] EXCEPT
                   !.todo = Tail(@),
                   !.slipped = @ \/ failed,
                   !.proton = IF answer = Found THEN Append(@, Head(call[o].todo)) ELSE @,
                   !.external = IF answer = Absent THEN Append(@, Head(call[o].todo)) ELSE @]
         /\ Goes(o, IF c.todo = <<>> THEN AfterRouting(c) ELSE c)
  BY DEF RouteEmail
<1>2. PICK c :
         /\ c = [call[o] EXCEPT
                   !.todo = Tail(@),
                   !.slipped = @ \/ failed,
                   !.proton = IF answer = Found THEN Append(@, Head(call[o].todo)) ELSE @,
                   !.external = IF answer = Absent THEN Append(@, Head(call[o].todo)) ELSE @]
         /\ Goes(o, IF c.todo = <<>> THEN AfterRouting(c) ELSE c)
  BY <1>0
<1>3. c0.at = "route" /\ c0.todo # <<>> /\ c0.todo \in Seq(Email) /\ c0.proton \in Seq(Email)
      /\ c0.external \in Seq(Email) /\ c0.slipped \in BOOLEAN
  BY <1>1 DEF RouteEmail, ShareCallRec
<1>4. PICK slip \in BOOLEAN : slip = (c0.slipped \/ failed)
  BY Zenon
<1>5. PICK t, pr, ex : /\ t = Tail(c0.todo)
                       /\ pr = IF answer = Found THEN Append(c0.proton, Head(c0.todo)) ELSE c0.proton
                       /\ ex = IF answer = Absent THEN Append(c0.external, Head(c0.todo)) ELSE c0.external
  OBVIOUS
<1>6. t \in Seq(Email) /\ pr \in Seq(Email) /\ ex \in Seq(Email)
  BY <1>3, <1>5
<1>7. c = [c0 EXCEPT !.todo = t, !.slipped = slip, !.proton = pr, !.external = ex]
  BY <1>1, <1>2, <1>4, <1>5
<1>8. c \in ShareCallRec /\ c.at = "route"
  BY <1>3, <1>6, <1>7 DEF ShareCallRec
<1>9. PICK k : k = IF c.todo = <<>> THEN AfterRouting(c) ELSE c
  OBVIOUS
<1>10. k \in ShareCallRec /\ (k.at \in {"idle", "route", "get"} \/ (k.at = "look" /\ k.kind \in {"proton", "external", "link"}))
  BY <1>8, <1>9, AfterRoutingGood
<1>11. UpdateGood(k) /\ ListsGood(k)
  BY <1>10, Elsewhere
<1>12. context' = context /\ shares' = shares /\ LinkAlone /\ EntriesAlone
       /\ call' = [call EXCEPT ![o] = k]
  BY <1>2, <1>9 DEF RouteEmail, Goes, ServerKept, LinkAlone, EntriesAlone
<1> QED
  BY <1>10, <1>11, <1>12, CallOnly

\* A call that has the share begins its lists, or goes to its link.
LEMMA WithShareGood ==
    ASSUME NEW c \in ShareCallRec, c.kind \in {"proton", "external", "link", "update"},
           NEW s \in Nat, NEW signer \in {HomeAddress, OtherAddress}
    PROVE  LET k == WithShare(c, s, signer) IN
           /\ k \in ShareCallRec /\ k.share = s /\ k.link = c.link /\ k.kind = c.kind
           /\ c.kind \in {"proton", "external"} => k.at = "list" /\ k.lists = ListingOrder(c.kind)
           /\ c.kind \in {"link", "update"} => k.at = "seal"
<1>1. ListingOrder(c.kind) \in ListsLeft
  BY DEF ListingOrder, ListsLeft, AllLeft, InvitedLeft
<1> HIDE DEF ListsLeft
<1> QED
  BY <1>1 DEF WithShare, ShareCallRec

LEMMA ShareLooked == ASSUME SharingInv, NEW o \in Owner, LookShare(o) PROVE SharingInv'
<1>1. PICK c \in ShareCallRec : c = call[o]
  BY DEF SharingInv
<1>2. /\ c.at = "look" /\ UpdateGood(c) /\ c.kind \in {"proton", "external", "link", "update"}
      /\ share \in Nat
  BY <1>1 DEF LookShare, SharingInv, UpdateGood, ShareTypes
<1>3. PICK signer \in {HomeAddress, OtherAddress} :
         Goes(o, IF share # 0 THEN WithShare(c, share, signer)
                 ELSE [c EXCEPT !.at = "create", !.signer = signer])
  BY <1>1 DEF LookShare, SharingInv, ShareTypes
<1>4. context' = context /\ shares' = shares /\ LinkAlone /\ EntriesAlone
  BY <1>3 DEF LookShare, Goes, ServerKept, LinkAlone, EntriesAlone
<1>5. CASE share # 0
  <2>1. PICK k : k = WithShare(c, share, signer)
    OBVIOUS
  <2>2. /\ k \in ShareCallRec /\ k.share = share /\ k.link = c.link /\ k.kind = c.kind
        /\ c.kind \in {"proton", "external"} => k.at = "list" /\ k.lists = ListingOrder(c.kind)
        /\ c.kind \in {"link", "update"} => k.at = "seal"
    BY <1>2, <2>1, WithShareGood
  <2>3. UpdateGood(k)
    BY <1>2, <1>5, <2>2 DEF UpdateGood
  <2>4. ListsGood(k)
    BY <1>2, <2>2, ListFacts DEF ListsGood
  <2> QED
    BY <1>3, <1>4, <1>5, <2>1, <2>2, <2>3, <2>4, CallOnly DEF Goes
<1>6. CASE share = 0
  <2>1. PICK k : k = [c EXCEPT !.at = "create", !.signer = signer]
    OBVIOUS
  <2>2. k \in ShareCallRec /\ k.at = "create" /\ k.kind = c.kind /\ k.link = c.link
    BY <2>1 DEF ShareCallRec
  <2>3. UpdateGood(k) /\ ListsGood(k)
    BY <1>2, <2>2 DEF UpdateGood, ListsGood
  <2> QED
    BY <1>3, <1>4, <1>6, <2>1, <2>2, <2>3, CallOnly DEF Goes
<1> QED
  BY <1>5, <1>6

LEMMA ShareCreated == ASSUME SharingInv, NEW o \in Owner, CreateShare(o) PROVE SharingInv'
<1>1. PICK c \in ShareCallRec : c = call[o]
  BY DEF SharingInv
<1>2. /\ c.at = "create" /\ UpdateGood(c) /\ c.kind \in {"proton", "external", "link", "update"}
      /\ shares \in Nat /\ linkCount \in Nat /\ c.signer \in {HomeAddress, OtherAddress}
  BY <1>1 DEF CreateShare, SharingInv, UpdateGood, ShareTypes, ShareCallRec
<1>3. CASE Ends(o) /\ UNCHANGED <<share, shares>>
  BY <1>3, CallEnds DEF CreateShare, EntriesAlone
<1>4. CASE share = 0 /\ shares' = shares + 1 /\ share' = shares'
           /\ Goes(o, WithShare(c, share', c.signer))
  <2>1. link = NoLink /\ link' = NoLink /\ linkCount' = linkCount /\ handed' = handed /\ EntriesAlone
        /\ context' = context
    BY <1>4 DEF CreateShare, SharingInv, LinkGood, Goes, EntriesAlone
  <2>2. share' \in Nat /\ share' # 0
    BY <1>2, <1>4
  <2>3. ShareTypes'
    BY <1>4, <2>1, <2>2 DEF SharingInv, ShareTypes, EntriesAlone
  <2>4. LinkGood' /\ LinkStays
    BY <1>2, <2>1 DEF SharingInv, LinkGood, LinkStays
  <2>5. EntriesGood' /\ EntriesStay
    BY <2>1, EntriesLeft
  <2>6. PICK s \in Nat : s = share'
    BY <2>2
  <2>7. PICK k : k = WithShare(c, s, c.signer)
    OBVIOUS
  <2>8. /\ k \in ShareCallRec /\ k.share = s /\ k.link = c.link /\ k.kind = c.kind
        /\ c.kind \in {"proton", "external"} => k.at = "list" /\ k.lists = ListingOrder(c.kind)
        /\ c.kind \in {"link", "update"} => k.at = "seal"
    BY <1>2, <2>7, WithShareGood
  <2>9. UpdateGood(k)'
    BY <1>2, <2>1, <2>2, <2>6, <2>8 DEF UpdateGood
  <2>10. ListsGood(k)'
    BY <1>2, <2>8, ListFacts DEF ListsGood
  <2>11. call' = [call EXCEPT ![o] = k]
    BY <1>4, <2>6, <2>7 DEF Goes
  <2> QED
    BY <2>3, <2>4, <2>5, <2>8, <2>9, <2>10, <2>11, CallMoved
<1> QED
  BY <1>1, <1>3, <1>4 DEF CreateShare

\* Reading the first of the lists that are left.
LEMMA FirstLeft ==
    ASSUME NEW lists \in ListsLeft, lists # NoneLeft
    PROVE  /\ NamedIn(lists) = {Head(lists)} \cup NamedIn(Tail(lists)) /\ Tail(lists) \in ListsLeft
           /\ Tail(lists) # AllLeft /\ (Len(lists) = 1 <=> Tail(lists) = NoneLeft)
<1>1. CASE lists = MembersLeft
  BY <1>1, ListFacts DEF NamedIn, ListsLeft
<1>2. CASE lists = InvitedLeft
  <2>1. Tail(lists) = MembersLeft /\ Head(lists) = "proton" /\ Len(lists) = 2
    BY <1>2, ListFacts
  <2>2. NamedIn(lists) = {"proton", "member"} /\ NamedIn(Tail(lists)) = {"member"}
    BY <1>2, <2>1, ListFacts DEF NamedIn
  <2>3. Tail(lists) \in ListsLeft /\ Tail(lists) # AllLeft /\ Tail(lists) # NoneLeft
    BY <2>1, ListFacts DEF ListsLeft
  <2> QED
    BY <2>1, <2>2, <2>3
<1>3. CASE lists = AllLeft
  BY <1>3, ListFacts DEF NamedIn, ListsLeft
<1> QED
  BY <1>1, <1>2, <1>3 DEF ListsLeft

LEMMA EntriesListed == ASSUME SharingInv, NEW o \in Owner, ListEntries(o) PROVE SharingInv'
<1>1. PICK c \in ShareCallRec : c = call[o]
  BY DEF SharingInv
<1>2. c.at = "list" /\ ListsGood(c) /\ entryCount \in Nat
  BY <1>1 DEF ListEntries, SharingInv, ShareTypes
<1>3. /\ c.kind \in {"proton", "external"} /\ c.lists \in ListsLeft /\ c.lists # NoneLeft
      /\ (c.kind = "proton" => c.lists # AllLeft) /\ c.since \in Nat
      /\ (c.lists # ListingOrder(c.kind) => NotedAll(c))
  BY <1>2 DEF ListsGood, ShareCallRec
<1>4. CASE Ends(o)
  BY <1>4, CallEnds DEF ListEntries, ServerKept, EntriesAlone
<1>5. PICK here : here = Listed(Head(c.lists))
  OBVIOUS
<1>6. PICK since : since = IF c.lists = ListingOrder(c.kind) THEN entryCount ELSE c.since
  OBVIOUS
<1>7. PICK at : at = IF Len(c.lists) = 1 THEN "post" ELSE "list"
  OBVIOUS
<1>8. PICK k : k = [c EXCEPT !.already = @ \cup here, !.lists = Tail(c.lists), !.since = since, !.at = at]
  OBVIOUS
<1>9. CASE Goes(o, k)
  <2>1. here \subseteq Email
    BY <1>5, SharingAssumption DEF Listed, SharingInv, ShareTypes, EntryRec
  <2>2. /\ NamedIn(c.lists) = {Head(c.lists)} \cup NamedIn(Tail(c.lists)) /\ Tail(c.lists) \in ListsLeft
        /\ Tail(c.lists) # AllLeft /\ (Len(c.lists) = 1 <=> Tail(c.lists) = NoneLeft)
    BY <1>3, FirstLeft
  <2>3. since \in Nat /\ at \in {"post", "list"} /\ (at = "post" <=> Tail(c.lists) = NoneLeft)
    BY <1>2, <1>3, <1>6, <1>7, <2>2
  <2>4. /\ k \in ShareCallRec /\ k.already = c.already \cup here /\ k.lists = Tail(c.lists)
        /\ k.since = since /\ k.at = at /\ k.kind = c.kind
    <3> HIDE DEF ListsLeft
    <3> QED
      BY <1>8, <2>1, <2>2, <2>3 DEF ShareCallRec
  <2>5. ASSUME NEW y \in entries, y.id <= since PROVE Noted(k, y)
    <3>1. y \in EntryRec /\ ListOf(y) \in {"member", "proton", "external"}
      BY DEF SharingInv, ShareTypes, EntryRec, ListOf
    <3>2. ListOf(y) = Head(c.lists) => Lower[y.email] \in here
      BY <1>5 DEF Listed, ListOf
    <3>3. CASE c.lists = ListingOrder(c.kind)
      <4>1. ListOf(y) \in NamedIn(c.lists) \/ (y.kind = "external" /\ c.kind = "proton")
        <5>1. CASE c.kind = "external"
          BY <3>1, <3>3, <5>1, ListFacts DEF NamedIn
        <5>2. CASE c.kind = "proton"
          <6>1. NamedIn(c.lists) = {"proton", "member"}
            BY <3>3, <5>2, ListFacts DEF NamedIn
          <6> QED
            BY <3>1, <5>2, <6>1 DEF ListOf
        <5> QED
          BY <1>3, <5>1, <5>2
      <4> QED
        BY <2>2, <2>4, <3>2, <4>1 DEF Noted
    <3>4. CASE c.lists # ListingOrder(c.kind)
      <4>1. Noted(c, y)
        BY <1>3, <1>6, <2>5, <3>4 DEF NotedAll
      <4> QED
        BY <2>2, <2>4, <3>2, <4>1 DEF Noted
    <3> QED
      BY <3>3, <3>4
  <2>6. since <= entryCount
    BY <1>2, <1>3, <1>6 DEF NotedAll
  <2>7. NotedAll(k)
    BY <2>4, <2>5, <2>6 DEF NotedAll
  <2>8. ListsGood(k)
    BY <1>3, <2>2, <2>3, <2>4, <2>7 DEF ListsGood
  <2>9. UpdateGood(k)
    BY <2>3, <2>4 DEF UpdateGood
  <2>10. context' = context /\ shares' = shares /\ LinkAlone /\ EntriesAlone
         /\ call' = [call EXCEPT ![o] = k]
    BY <1>9 DEF ListEntries, Goes, ServerKept, LinkAlone, EntriesAlone
  <2> QED
    BY <2>4, <2>8, <2>9, <2>10, CallOnly
<1>10. Goes(o, k) \/ Ends(o)
  BY <1>1, <1>5, <1>6, <1>7, <1>8 DEF ListEntries
<1> QED
  BY <1>4, <1>9, <1>10

\* The call goes on to its next invitee.
LEMMA NextInvitee ==
    ASSUME SharingInv, NEW o \in Owner, call[o].at = "post", call[o].todo # <<>>
    PROVE  \E c \in ShareCallRec :
               /\ c = [call[o] EXCEPT !.todo = Tail(@)] /\ UpdateGood(c) /\ ListsGood(c)
<1>1. PICK c0 \in ShareCallRec : c0 = call[o]
  BY DEF SharingInv
<1>2. c0.at = "post" /\ c0.todo # <<>> /\ c0.todo \in Seq(Email) /\ ListsGood(c0)
  BY <1>1 DEF SharingInv, ShareCallRec
<1>3. PICK rest \in Seq(Email) : rest = Tail(c0.todo)
  <2>1. Tail(c0.todo) \in Seq(Email)
    BY <1>2
  <2> QED
    BY <2>1
<1>4. PICK c : c = [c0 EXCEPT !.todo = rest]
  OBVIOUS
<1>5. /\ c \in ShareCallRec /\ c.at = "post" /\ c.kind = c0.kind /\ c.lists = c0.lists
      /\ c.since = c0.since /\ c.already = c0.already
  BY <1>2, <1>4 DEF ShareCallRec
<1>6. ListsGood(c)
  BY <1>2, <1>5 DEF ListsGood, NotedAll, Noted
<1>7. UpdateGood(c)
  BY <1>5 DEF UpdateGood
<1>8. c = [call[o] EXCEPT !.todo = Tail(@)]
  BY <1>1, <1>3, <1>4
<1> QED
  BY <1>5, <1>6, <1>7, <1>8

LEMMA InviteeSkipped == ASSUME SharingInv, NEW o \in Owner, SkipInvitee(o) PROVE SharingInv'
<1>1. PICK c \in ShareCallRec :
         c = [call[o] EXCEPT !.todo = Tail(@)] /\ UpdateGood(c) /\ ListsGood(c)
  BY NextInvitee DEF SkipInvitee
<1>2. context' = context /\ shares' = shares /\ LinkAlone /\ EntriesAlone
      /\ call' = [call EXCEPT ![o] = c]
  BY <1>1 DEF SkipInvitee, Goes, ServerKept, LinkAlone, EntriesAlone
<1> QED
  BY <1>1, <1>2, CallOnly

LEMMA InvitationPosted == ASSUME SharingInv, NEW o \in Owner, PostInvitation(o) PROVE SharingInv'
<1>1. PICK c0 \in ShareCallRec : c0 = call[o]
  BY DEF SharingInv
<1>2. PICK e : e = Head(c0.todo)
  OBVIOUS
<1>3. /\ c0.at = "post" /\ c0.todo # <<>> /\ Lower[e] \notin c0.already
      /\ entryCount' = entryCount + 1 /\ share' = share /\ shares' = shares /\ context' = context
      /\ LinkAlone
  BY <1>1, <1>2 DEF PostInvitation, Goes, LinkAlone
<1>4. ListsGood(c0) /\ c0.todo \in Seq(Email)
  BY <1>1 DEF SharingInv, ShareCallRec
<1>5. c0.kind \in {"proton", "external"} /\ c0.lists = NoneLeft /\ NotedAll(c0)
  BY <1>3, <1>4 DEF ListsGood
<1>6. e \in Email /\ c0.since \in Nat /\ entryCount \in Nat /\ c0.routed \in BOOLEAN
      /\ c0.slipped \in BOOLEAN
  BY <1>2, <1>3, <1>4 DEF SharingInv, ShareTypes, ShareCallRec
<1>7. PICK x : x = [id |-> entryCount + 1, email |-> e, kind |-> c0.kind, joined |-> FALSE,
                    since |-> c0.since, routed |-> c0.routed, slipped |-> c0.slipped]
  OBVIOUS
<1>8. entries' = entries \cup {x}
  BY <1>1, <1>2, <1>3, <1>7 DEF PostInvitation
<1>9. x \in EntryRec /\ x.id = entryCount + 1 /\ x.email = e /\ x.kind = c0.kind /\ x.since = c0.since
  BY <1>5, <1>6, <1>7 DEF EntryRec
<1>10. ShareTypes'
  BY <1>3, <1>6, <1>8, <1>9 DEF SharingInv, ShareTypes, LinkAlone
<1>11. EntriesStay
  BY <1>3, <1>6, <1>8, <1>9 DEF EntriesStay
<1>12. \A y \in entries : y.id \in Nat /\ y.id <= entryCount
  BY DEF SharingInv, ShareTypes, EntryRec, EntriesGood
<1>13. ASSUME NEW y \in entries, Lower[x.email] = Lower[y.email]
       PROVE  y.id > x.since \/ (y.kind = "external" /\ x.kind = "proton")
  <2>1. CASE y.id <= c0.since
    <3>1. Noted(c0, y)
      BY <1>5, <2>1 DEF NotedAll
    <3>2. NamedIn(c0.lists) = {}
      BY <1>5, ListFacts DEF NamedIn
    <3> QED
      BY <1>3, <1>9, <1>13, <3>1, <3>2 DEF Noted
  <2>2. CASE ~(y.id <= c0.since)
    BY <1>6, <1>9, <1>12, <2>2
  <2> QED
    BY <2>1, <2>2
<1>14. InviteesAreNew'
  <2>1. ASSUME NEW v \in entries', NEW w \in entries', Lower[v.email] = Lower[w.email], w.id < v.id
        PROVE  w.id > v.since \/ (w.kind = "external" /\ v.kind = "proton")
    <3>1. CASE v \in entries /\ w \in entries
      BY <2>1, <3>1 DEF SharingInv, EntriesGood, InviteesAreNew
    <3>2. CASE v = x /\ w \in entries
      BY <1>13, <2>1, <3>2
    <3>3. CASE w = x
      BY <1>6, <1>8, <1>9, <1>12, <2>1, <3>3
    <3> QED
      BY <1>8, <3>1, <3>2, <3>3
  <2> QED
    BY <2>1 DEF InviteesAreNew
<1>15. EntriesGood'
  BY <1>3, <1>6, <1>8, <1>9, <1>12, <1>14 DEF EntriesGood
<1>16. LinkGood' /\ LinkStays
  BY <1>3, LinkLeft
<1>17. PICK c \in ShareCallRec :
          c = [call[o] EXCEPT !.todo = Tail(@)] /\ UpdateGood(c) /\ ListsGood(c)
  BY <1>1, <1>3, NextInvitee
<1>18. call' = [call EXCEPT ![o] = c]
  BY <1>17 DEF PostInvitation, Goes
<1>19. ShareTypes
  BY DEF SharingInv
<1>20. UpdateGood(c)' /\ ListsGood(c)'
  BY <1>10, <1>11, <1>16, <1>17, <1>19, UpdateStays, ListsStay
<1> QED
  BY <1>10, <1>11, <1>15, <1>16, <1>17, <1>18, <1>20, CallMoved

LEMMA InviteesEnd ==
    ASSUME SharingInv, NEW o \in Owner, InvitationFails(o) \/ InviteesDone(o) \/ LinkRequestFails(o)
    PROVE  SharingInv'
<1>1. CASE InvitationFails(o) \/ LinkRequestFails(o)
  BY <1>1, CallEnds DEF InvitationFails, LinkRequestFails, ServerKept, EntriesAlone
<1>2. CASE InviteesDone(o)
  <2>1. PICK c : c = AfterRouting(call[o])
    OBVIOUS
  <2>2. c \in ShareCallRec /\ UpdateGood(c) /\ ListsGood(c)
    BY <2>1, AfterRoutingGood, Elsewhere DEF SharingInv
  <2>3. context' = context /\ shares' = shares /\ LinkAlone /\ EntriesAlone
        /\ call' = [call EXCEPT ![o] = c]
    BY <1>2, <2>1 DEF InviteesDone, Goes, ServerKept, LinkAlone, EntriesAlone
  <2> QED
    BY <2>2, <2>3, CallOnly
<1> QED
  BY <1>1, <1>2

LEMMA LinkGot == ASSUME SharingInv, NEW o \in Owner, GetLink(o) PROVE SharingInv'
<1>1. PICK c0 \in ShareCallRec : c0 = call[o]
  BY DEF SharingInv
<1>2. /\ linkCount \in Nat /\ link \in LinkRec \cup {NoLink} /\ handed \subseteq UrlRec
  BY DEF SharingInv, ShareTypes
<1>3. /\ UNCHANGED <<context, share, shares, link, linkCount>> /\ EntriesAlone
      /\ handed' = handed \cup (IF link # NoLink /\ Recovered(link)
                                THEN {[id |-> link.id, gen |-> link.gen]} ELSE {})
  BY DEF GetLink, ServerKept, EntriesAlone
<1>4. EntriesGood' /\ EntriesStay
  BY <1>3, EntriesLeft
<1>5. \A u \in handed' : u \in handed \/ (link # NoLink /\ u = [id |-> link.id, gen |-> link.gen])
  BY <1>3
<1>6. \A u \in handed' : u \in handed \/
          (link # NoLink /\ u \in UrlRec /\ u.id = link.id /\ u.gen = link.gen)
  BY <1>2, <1>5 DEF LinkRec, UrlRec
<1>7. ShareTypes'
  BY <1>2, <1>3, <1>6 DEF SharingInv, ShareTypes, EntriesAlone
<1>8. LinkGood'
  BY <1>3, <1>6 DEF SharingInv, LinkGood
<1>9. LinkStays
  BY <1>2, <1>3 DEF LinkStays
<1>10. CASE c0.kind = "update" /\ link # NoLink
            /\ call' = [call EXCEPT ![o] = [c0 EXCEPT !.at = "look", !.link = link]]
  <2>1. PICK k : k = [c0 EXCEPT !.at = "look", !.link = link]
    OBVIOUS
  <2>2. k \in ShareCallRec /\ k.at = "look" /\ k.link = link /\ k.kind = "update"
    BY <1>2, <1>10, <2>1 DEF ShareCallRec
  <2>3. ListsGood(k)'
    BY <2>2 DEF ListsGood
  <2>4. UpdateGood(k)'
    BY <1>2, <1>3, <1>10, <2>2 DEF UpdateGood, SharingInv, LinkGood
  <2> QED
    BY <1>4, <1>7, <1>8, <1>9, <1>10, <2>1, <2>2, <2>3, <2>4, CallMoved
<1>11. CASE call' = [call EXCEPT ![o] = Resting]
  <2>1. UpdateGood(Resting)' /\ ListsGood(Resting)'
    BY RestingGood, <1>7, <1>9, <1>4, UpdateStays, ListsStay DEF SharingInv
  <2> QED
    BY <1>4, <1>7, <1>8, <1>9, <1>11, <2>1, RestingGood, CallMoved
<1> QED
  BY <1>1, <1>10, <1>11 DEF GetLink

LEMMA LinkPosted == ASSUME SharingInv, NEW o \in Owner, PostLink(o) PROVE SharingInv'
<1>1. PICK c0 \in ShareCallRec : c0 = call[o]
  BY DEF SharingInv
<1>2. /\ c0.at = "seal" /\ c0.kind = "link" /\ share = c0.share /\ linkCount' = linkCount + 1
      /\ UNCHANGED <<context, share, shares>> /\ EntriesAlone /\ call' = [call EXCEPT ![o] = Resting]
  BY <1>1 DEF PostLink, EntriesAlone
<1>3. linkCount \in Nat /\ share \in Nat /\ share # 0 /\ c0.signer \in {HomeAddress, OtherAddress}
  BY <1>1, <1>2 DEF SharingInv, ShareTypes, UpdateGood, ShareCallRec
<1>4. PICK n \in Nat : n = linkCount + 1 /\ n = linkCount'
  BY <1>2, <1>3
<1>5. link' = [id |-> n, gen |-> n, legacy |-> FALSE, addr |-> c0.signer, keyOf |-> c0.share]
  BY <1>1, <1>4 DEF PostLink, Settings
<1>6. link' \in LinkRec /\ link'.id = n /\ link'.gen = n /\ link'.keyOf = share
  BY <1>2, <1>3, <1>5 DEF LinkRec
<1>7. PICK url : url = [id |-> n, gen |-> n]
  OBVIOUS
<1>8. handed' = handed \cup {url} /\ url \in UrlRec /\ url.id = n /\ url.gen = n
  BY <1>4, <1>7 DEF PostLink, UrlRec
<1>9. ShareTypes /\ ShareTypes'
  BY <1>2, <1>4, <1>6, <1>8 DEF SharingInv, ShareTypes, EntriesAlone
<1>10. \A u \in handed : u.id \in Nat /\ u.id <= linkCount
  BY <1>9 DEF SharingInv, ShareTypes, UrlRec, LinkGood
<1>11. LinkGood'
  BY <1>2, <1>3, <1>4, <1>6, <1>8, <1>10 DEF LinkGood
<1>12. LinkStays
  BY <1>3, <1>4, <1>6 DEF LinkStays
<1>13. EntriesGood' /\ EntriesStay
  BY <1>2, EntriesLeft
<1>14. UpdateGood(Resting)' /\ ListsGood(Resting)'
  BY <1>9, <1>12, <1>13, RestingGood, UpdateStays, ListsStay
<1> QED
  BY <1>2, <1>9, <1>11, <1>12, <1>13, <1>14, RestingGood, CallMoved

LEMMA LinkPut == ASSUME SharingInv, NEW o \in Owner, PutLink(o) PROVE SharingInv'
<1>1. PICK c0 \in ShareCallRec : c0 = call[o]
  BY DEF SharingInv
<1>2. /\ c0.at = "seal" /\ c0.kind = "update" /\ link # NoLink /\ link.id = c0.link.id
      /\ UNCHANGED <<context, share, shares, linkCount, handed>> /\ EntriesAlone
      /\ call' = [call EXCEPT ![o] = Resting]
  BY <1>1 DEF PutLink, TargetsLink, EntriesAlone, Ends, Goes
<1>3. UpdateGood(c0) /\ linkCount \in Nat /\ c0.signer \in {HomeAddress, OtherAddress}
      /\ link \in LinkRec /\ share \in Nat
  BY <1>1, <1>2 DEF SharingInv, ShareTypes, ShareCallRec
<1>4. c0.share = share /\ c0.link.gen = link.gen
  BY <1>2, <1>3 DEF UpdateGood
<1>5. link' = [id |-> link.id, gen |-> c0.link.gen, legacy |-> FALSE, addr |-> c0.signer,
               keyOf |-> c0.share]
  BY <1>1 DEF PutLink, Settings, UpdatedFragment
<1>6. link' \in LinkRec /\ link'.id = link.id /\ link'.gen = link.gen /\ link'.keyOf = share
  BY <1>3, <1>4, <1>5 DEF LinkRec
<1>7. ShareTypes /\ ShareTypes'
  BY <1>2, <1>6 DEF SharingInv, ShareTypes, EntriesAlone
<1>8. LinkGood'
  BY <1>2, <1>6 DEF SharingInv, LinkGood
<1>9. LinkStays
  BY <1>2, <1>3, <1>6 DEF LinkStays
<1>10. EntriesGood' /\ EntriesStay
  BY <1>2, EntriesLeft
<1>11. UpdateGood(Resting)' /\ ListsGood(Resting)'
  BY <1>7, <1>9, <1>10, RestingGood, UpdateStays, ListsStay
<1> QED
  BY <1>2, <1>7, <1>8, <1>9, <1>10, <1>11, RestingGood, CallMoved

\* Invitees and other clients.
LEMMA EntryTakenOff == ASSUME SharingInv, NEW x \in entries, TakeOff(x) PROVE SharingInv'
<1>1. ShareTypes'
  BY DEF SharingInv, ShareTypes, TakeOff
<1>2. entries' \subseteq EntryRec /\ entryCount' = entryCount /\ call' = call /\ LinkAlone
  BY DEF SharingInv, ShareTypes, TakeOff, LinkAlone
<1>3. \A y \in entries' : y \in entries
  BY DEF TakeOff
<1>4. EntriesGood' /\ EntriesStay
  BY <1>2, <1>3, EntriesFewer
<1> QED
  BY <1>1, <1>2, <1>4, LinkLeft, ServerMoved

LEMMA InvitationAccepted == ASSUME SharingInv, NEW x \in entries, AcceptInvitation(x) PROVE SharingInv'
<1>1. x \in EntryRec
  BY DEF SharingInv, ShareTypes
<1>2. PICK j : j = [x EXCEPT !.joined = TRUE]
  OBVIOUS
<1>3. /\ j \in EntryRec /\ j.id = x.id /\ j.email = x.email /\ j.kind = x.kind /\ j.since = x.since
      /\ j.joined
  BY <1>1, <1>2 DEF EntryRec
<1>4. entries' = (entries \ {x}) \cup {j} /\ entryCount' = entryCount /\ call' = call /\ LinkAlone
  BY <1>2 DEF AcceptInvitation, LinkAlone
<1>5. ShareTypes' /\ entries' \subseteq EntryRec
  BY <1>3, <1>4 DEF SharingInv, ShareTypes, AcceptInvitation
<1>6. ListOf(j) = "member"
  BY <1>3 DEF ListOf
<1>7. ASSUME NEW y \in entries'
      PROVE  \E z \in entries :
               /\ z.id = y.id /\ z.email = y.email /\ z.kind = y.kind /\ z.since = y.since
               /\ ListOf(y) \in {ListOf(z), "member"}
  <2>1. CASE y = j
    BY <1>3, <1>6, <2>1
  <2>2. CASE y \in entries
    BY <2>2
  <2> QED
    BY <1>4, <2>1, <2>2
<1>8. EntriesGood' /\ EntriesStay
  BY <1>4, <1>5, <1>7, EntriesFewer
<1> QED
  BY <1>4, <1>5, <1>8, LinkLeft, ServerMoved

LEMMA Unshared == ASSUME SharingInv, Unshare PROVE SharingInv'
<1>1. ShareTypes'
  BY DEF SharingInv, ShareTypes, Unshare
<1>2. linkCount \in Nat /\ entries' \subseteq EntryRec /\ entries' = {}
  BY DEF SharingInv, ShareTypes, Unshare
<1>3. LinkGood' /\ LinkStays
  BY <1>2 DEF SharingInv, LinkGood, LinkStays, Unshare
<1>4. EntriesGood' /\ EntriesStay
  BY <1>2, EntriesFewer DEF Unshare
<1> QED
  BY <1>1, <1>3, <1>4, ServerMoved DEF Unshare

LEMMA LinkRemoved == ASSUME SharingInv, RemoveLink PROVE SharingInv'
<1>1. ShareTypes' /\ linkCount \in Nat
  BY DEF SharingInv, ShareTypes, RemoveLink
<1>2. LinkGood' /\ LinkStays
  BY <1>1 DEF SharingInv, LinkGood, LinkStays, RemoveLink
<1>3. EntriesGood' /\ EntriesStay
  BY EntriesLeft DEF RemoveLink, EntriesAlone
<1> QED
  BY <1>1, <1>2, <1>3, ServerMoved DEF RemoveLink

LEMMA SharingInitially == SharingInit => SharingInv
<1> SUFFICES ASSUME SharingInit PROVE SharingInv
  OBVIOUS
<1>1. /\ shares = 1 /\ share \in {0, 1} /\ entries = {} /\ entryCount = 0 /\ linkCount = 0
      /\ handed = {} /\ context \in {HomeAddress, OtherAddress}
      /\ call = [o \in Owner |-> Resting]
  BY DEF SharingInit
<1>2. link = NoLink \/
         (share = 1 /\ link = [id |-> 0, gen |-> 0, legacy |-> TRUE, addr |-> context, keyOf |-> share])
  BY <1>1 DEF SharingInit
<1>3. link = NoLink \/ (link \in LinkRec /\ link.id = 0 /\ link.keyOf = share /\ share # 0)
  <2> SUFFICES ASSUME link # NoLink
               PROVE  link \in LinkRec /\ link.id = 0 /\ link.keyOf = share /\ share # 0
    OBVIOUS
  <2>1. share \in Nat /\ share # 0 /\ context \in {HomeAddress, OtherAddress}
    BY <1>1, <1>2
  <2>2. link = [id |-> 0, gen |-> 0, legacy |-> TRUE, addr |-> context, keyOf |-> share]
    BY <1>2
  <2>3. link \in LinkRec
    BY <2>1, <2>2 DEF LinkRec
  <2>4. link.id = 0 /\ link.keyOf = share
    BY <2>2
  <2> QED
    BY <2>1, <2>3, <2>4
<1>4. ShareTypes /\ LinkGood /\ EntriesGood
  BY <1>1, <1>3 DEF ShareTypes, LinkGood, EntriesGood, InviteesAreNew
<1>5. call \in [Owner -> ShareCallRec] /\ \A o \in Owner : call[o] = Resting
  BY <1>1, RestingGood
<1> QED
  BY <1>4, <1>5, RestingGood DEF SharingInv

LEMMA SharingStep == SharingInv /\ [SharingNext]_sharingVars => SharingInv'
<1> SUFFICES ASSUME SharingInv, [SharingNext]_sharingVars PROVE SharingInv'
  OBVIOUS
<1>1. CASE UNCHANGED sharingVars
  <2>1. ShareTypes' /\ LinkAlone /\ EntriesAlone /\ call' = call
    BY <1>1 DEF sharingVars, SharingInv, ShareTypes, LinkAlone, EntriesAlone
  <2> QED
    BY <2>1, LinkLeft, EntriesLeft, ServerMoved
<1>2. ASSUME NEW o \in Owner, CallStep(o) PROVE SharingInv'
  BY <1>2, EmailRouted, ShareLooked, ShareCreated, EntriesListed, InviteeSkipped, InvitationPosted,
     InviteesEnd, LinkGot, LinkPosted, LinkPut DEF CallStep
<1>3. ASSUME NEW x \in entries,
             \/ AcceptInvitation(x) \/ RejectInvitation(x) \/ RemoveMember(x) \/ LeaveSharedNode(x)
             \/ DeleteInvitation(x) \/ DeleteExternalInvitation(x)
      PROVE  SharingInv'
  BY <1>3, InvitationAccepted, EntryTakenOff
     DEF RejectInvitation, RemoveMember, LeaveSharedNode, DeleteInvitation, DeleteExternalInvitation
<1> QED
  BY <1>1, <1>2, <1>3, CallsBegin, Unshared, LinkRemoved DEF SharingNext

\* Nobody who is on the share is invited again, in whatever order calls of the account
\* read their lists and post while invitees accept, leave or are taken off
\* (share_node, invite_external_users, invite_users).
THEOREM InviteesAlwaysNew == SharingSpec => []InviteesAreNew
<1>1. SharingInv => InviteesAreNew
  BY DEF SharingInv, EntriesGood
<1> QED
  BY <1>1, SharingInitially, SharingStep, PTL DEF SharingSpec

\* A URL that was handed out opens its link for as long as the link is there, and what
\* it opens is the key of the share the link is on, however create_public_link,
\* update_public_link and remove_public_link overlap and the share is made anew.
THEOREM HandedUrlsAlwaysOpen == SharingSpec => []HandedUrlsOpen
<1>1. SharingInv => HandedUrlsOpen
  BY DEF SharingInv, LinkGood, HandedUrlsOpen
<1> QED
  BY <1>1, SharingInitially, SharingStep, PTL DEF SharingSpec

-----------------------------------------------------------------------------
(* Renames and moves.                                                      *)

Spot == [folder : Folder, name : Name]
NameHash == {NoHash} \cup (Folder \X Name)
Prep == [node : Item, from : Spot, original : NameHash, name : Name,
         keeps : BOOLEAN, anonymous : BOOLEAN, retried : BOOLEAN]
Code == {"ok", "wrong hash", "refused", "no response"}
Outcome == Code \cup {"none", "not found", "failed", "out of sync"}
Reply == [item : Prep, code : Code]
Acting == {"trash", "restore", "delete"}
NodeTypes ==
    /\ place \in [Item -> Spot] /\ remembered \in [Item -> NameHash]
    /\ outcome \in [Item -> Outcome] /\ applied \subseteq Item /\ asked \subseteq Item
    /\ mpc \in Acting \cup {"idle", "single", "batches"}
QueueTypes ==
    /\ mpc \in {"single", "batches"} => dest \in Folder /\ queue \in Seq(Prep)
    /\ mpc = "batches" => replies \in Seq(Reply)
    /\ mpc \in Acting => queue \in Seq(Seq(Item))
MoveTypes == NodeTypes /\ QueueTypes

\* A name that is kept is the one the node had; the retry sends the hash of what
\* was prepared.
Sane(p) == /\ p.keeps => p.name = p.from.name
           /\ p.retried => p.original = Hash(p.from.folder, p.from.name)
SaneItems == mpc = "batches" => /\ \A i \in 1 .. Len(queue) : Sane(queue[i])
                                /\ \A i \in 1 .. Len(replies) : Sane(replies[i].item)
Distinct(q) == \A i, j \in 1 .. Len(q) : q[i].node = q[j].node => i = j

\* A node is waiting, or answered, once.
OnePerNode == mpc = "batches" =>
    /\ Distinct(queue)
    /\ \A i, j \in 1 .. Len(replies) : replies[i].item.node = replies[j].item.node => i = j
    /\ \A i \in 1 .. Len(queue), j \in 1 .. Len(replies) : queue[i].node # replies[j].item.node

\* What is to be sent has had no effect that could be known of; an answer is true.
Honest == mpc = "batches" =>
    /\ \A i \in 1 .. Len(queue) : queue[i].node \in applied => queue[i].node \in unsure
    /\ \A j \in 1 .. Len(replies) : replies[j].code = "ok" => replies[j].item.node \in applied
    /\ \A j \in 1 .. Len(replies) :
          replies[j].code # "ok" /\ replies[j].item.node \in applied => replies[j].item.node \in unsure

\* What is not reported is on its way.
Queued(n) == \E i \in 1 .. Len(queue) : queue[i].node = n
Answered(n) == \E j \in 1 .. Len(replies) : replies[j].item.node = n
GivenOk(n) == \E j \in 1 .. Len(replies) : replies[j].item.node = n /\ replies[j].code = "ok"
Truth == \A n \in Item :
    /\ outcome[n] = "ok" => n \in applied
    /\ n \in applied => outcome[n] = "ok" \/ n \in unsure \/ (mpc = "batches" /\ GivenOk(n))
    /\ n \in asked => outcome[n] # "none" \/ (mpc = "batches" /\ (Queued(n) \/ Answered(n)))

SingleFresh == mpc = "single" =>
    Len(queue) = 1 /\ applied = {} /\ asked = {} /\ \A n \in Item : outcome[n] = "none"

\* The batches of a trash, restore or delete have no node in common, and those to
\* come have had no effect.
Apart == mpc \in Acting =>
    /\ asked = {}
    /\ \A i \in 1 .. Len(queue) : \A a \in 1 .. Len(queue[i]) : queue[i][a] \notin applied
    /\ \A i, j \in 1 .. Len(queue) :
          i # j => \A a \in 1 .. Len(queue[i]), b \in 1 .. Len(queue[j]) : queue[i][a] # queue[j][b]

MoveInv == MoveTypes /\ SaneItems /\ OnePerNode /\ Honest /\ Truth /\ SingleFresh /\ Apart

\* b and r are q, with no node in both.
CutIn(q, b, r) ==
    /\ b \in Seq(Prep) /\ r \in Seq(Prep) /\ Distinct(b) /\ Distinct(r)
    /\ \A i \in 1 .. Len(b) : \E j \in 1 .. Len(q) : b[i] = q[j]
    /\ \A i \in 1 .. Len(r) : \E j \in 1 .. Len(q) : r[i] = q[j]
    /\ \A j \in 1 .. Len(q) : \/ \E i \in 1 .. Len(b) : b[i] = q[j]
                              \/ \E i \in 1 .. Len(r) : r[i] = q[j]
    /\ \A i \in 1 .. Len(b), j \in 1 .. Len(r) : b[i].node # r[j].node

\* A batch and what is left of the queue are the queue.
LEMMA TakeIs ==
    ASSUME NEW q \in Seq(Prep), Distinct(q), q # <<>>
    PROVE  CutIn(q, TakeBatch(q).batch, TakeBatch(q).rest)
<1>a. PICK b : b = TakeBatch(q).batch
  OBVIOUS
<1>b. PICK r : r = TakeBatch(q).rest
  OBVIOUS
<1> DEFINE alikes == {i \in 1 .. Len(q) : q[i].anonymous = Head(q).anonymous}
<1>1. PICK alike : alike = Picked(q, alikes)
  OBVIOUS
<1>2. alikes \in SUBSET (1 .. Len(q))
  OBVIOUS
<1> HIDE DEF alikes
<1>3. /\ alike \in Seq(Prep)
      /\ \E f \in [1 .. Len(alike) -> alikes] :
            /\ \A a, c \in 1 .. Len(alike) : f[a] = f[c] => a = c
            /\ \A a \in 1 .. Len(alike) : alike[a] = q[f[a]]
  BY <1>1, <1>2, PickedIs
<1>4. PICK f \in [1 .. Len(alike) -> alikes] :
            /\ \A a, c \in 1 .. Len(alike) : f[a] = f[c] => a = c
            /\ \A a \in 1 .. Len(alike) : alike[a] = q[f[a]]
  BY <1>3
<1>5. PICK n \in Nat : n = (IF Len(alike) < MaxPerBatch THEN Len(alike) ELSE MaxPerBatch) /\ n <= Len(alike)
  BY <1>3, ItemsAssumption
<1> DEFINE others == {i \in 1 .. Len(q) : \A j \in 1 .. Len(b) : b[j] # q[i]}
<1>6. b = SubSeq(alike, 1, n) /\ r = Picked(q, others)
  BY <1>a, <1>b, <1>1, <1>5 DEF TakeBatch, alikes
<1>7. b \in Seq(Prep) /\ Len(b) = n /\ \A i \in 1 .. n : b[i] = alike[i]
  <2>1. 1 \in 1 .. Len(alike) + 1 /\ n \in 1 - 1 .. Len(alike)
    BY <1>3, <1>5
  <2>2. /\ SubSeq(alike, 1, n) \in Seq(Prep) /\ Len(SubSeq(alike, 1, n)) = n - 1 + 1
        /\ \A i \in 1 .. n - 1 + 1 : SubSeq(alike, 1, n)[i] = alike[1 + i - 1]
    BY <1>3, <2>1, SubSeqProperties
  <2>3. n - 1 + 1 = n /\ \A i \in 1 .. n : 1 + i - 1 = i
    BY <1>5
  <2> QED
    BY <1>6, <2>2, <2>3
<1>8. others \in SUBSET (1 .. Len(q))
  OBVIOUS
<1>9. /\ r \in Seq(Prep)
      /\ \E g \in [1 .. Len(r) -> others] :
            /\ \A a, c \in 1 .. Len(r) : g[a] = g[c] => a = c
            /\ \A id \in others : \E a \in 1 .. Len(r) : g[a] = id
            /\ \A a \in 1 .. Len(r) : r[a] = q[g[a]]
  <2> HIDE DEF others
  <2>1. PICK ids \in SUBSET (1 .. Len(q)) : ids = others
    BY <1>8
  <2>2. r = Picked(q, ids)
    BY <1>6, <2>1
  <2>3. r \in Seq(Prep)
    BY <2>1, <2>2, PickedIs
  <2>4. \E g : PickedBy(g, r, q, ids)
    BY <2>1, <2>2, PickedHas
  <2> QED
    BY <2>1, <2>3, <2>4, Zenon DEF PickedBy
<1>10. PICK g \in [1 .. Len(r) -> others] :
            /\ \A a, c \in 1 .. Len(r) : g[a] = g[c] => a = c
            /\ \A id \in others : \E a \in 1 .. Len(r) : g[a] = id
            /\ \A a \in 1 .. Len(r) : r[a] = q[g[a]]
  BY <1>9
<1>11. \A i \in 1 .. Len(b) : i \in 1 .. Len(alike) /\ f[i] \in 1 .. Len(q) /\ b[i] = q[f[i]]
  <2> SUFFICES ASSUME NEW i \in 1 .. Len(b)
               PROVE  i \in 1 .. Len(alike) /\ f[i] \in 1 .. Len(q) /\ b[i] = q[f[i]]
    OBVIOUS
  <2>1. i \in 1 .. Len(alike) /\ i \in 1 .. n
    BY <1>3, <1>5, <1>7
  <2>2. f[i] \in alikes
    BY <1>4, <2>1
  <2> QED
    BY <1>2, <1>4, <1>7, <2>1, <2>2
<1>12. \A i \in 1 .. Len(r) : g[i] \in 1 .. Len(q) /\ r[i] = q[g[i]] /\ \A j \in 1 .. Len(b) : b[j] # r[i]
  <2> SUFFICES ASSUME NEW i \in 1 .. Len(r)
               PROVE  g[i] \in 1 .. Len(q) /\ r[i] = q[g[i]] /\ \A j \in 1 .. Len(b) : b[j] # r[i]
    OBVIOUS
  <2>1. PICK v \in others : v = g[i]
    BY <1>10
  <2> QED
    BY <1>10, <2>1
<1> HIDE DEF others
<1>0. \A i, j \in 1 .. Len(q) : q[i].node = q[j].node => i = j
  BY DEF Distinct
<1>13. Distinct(b)
  <2> SUFFICES ASSUME NEW i \in 1 .. Len(b), NEW j \in 1 .. Len(b), b[i].node = b[j].node
               PROVE  i = j
    BY DEF Distinct
  <2>1. PICK u \in 1 .. Len(q) : u = f[i] /\ b[i] = q[u]
    BY <1>11
  <2>2. PICK v \in 1 .. Len(q) : v = f[j] /\ b[j] = q[v]
    BY <1>11
  <2>3. u = v
    BY <1>0, <2>1, <2>2
  <2>4. i \in 1 .. Len(alike) /\ j \in 1 .. Len(alike)
    BY <1>11
  <2>5. f[i] = f[j]
    BY <2>1, <2>2, <2>3
  <2> QED
    BY <1>4, <2>4, <2>5
<1>14. Distinct(r)
  <2> SUFFICES ASSUME NEW i \in 1 .. Len(r), NEW j \in 1 .. Len(r), r[i].node = r[j].node
               PROVE  i = j
    BY DEF Distinct
  <2>1. g[i] = g[j]
    BY <1>0, <1>12
  <2> QED
    BY <1>10, <2>1
<1>16. ASSUME NEW i \in 1 .. Len(b), NEW j \in 1 .. Len(r), b[i].node = r[j].node
       PROVE  FALSE
  <2>1. PICK u \in 1 .. Len(q) : b[i] = q[u]
    BY <1>11
  <2>2. PICK v \in 1 .. Len(q) : r[j] = q[v] /\ b[i] # r[j]
    BY <1>12
  <2>3. u = v
    BY <1>0, <1>16, <2>1, <2>2
  <2> QED
    BY <2>1, <2>2, <2>3
<1>17. \A i \in 1 .. Len(b) : \E j \in 1 .. Len(q) : b[i] = q[j]
  BY <1>11
<1>18. \A i \in 1 .. Len(r) : \E j \in 1 .. Len(q) : r[i] = q[j]
  BY <1>12
<1>19. \A j \in 1 .. Len(q) : \/ \E i \in 1 .. Len(b) : b[i] = q[j]
                              \/ \E i \in 1 .. Len(r) : r[i] = q[j]
  <2> TAKE j \in 1 .. Len(q)
  <2>1. CASE \E i \in 1 .. Len(b) : b[i] = q[j]
    BY <2>1
  <2>2. CASE \A i \in 1 .. Len(b) : b[i] # q[j]
    <3>1. j \in others
      BY <2>2 DEF others
    <3>2. PICK a \in 1 .. Len(r) : g[a] = j
      BY <1>10, <3>1
    <3>3. r[a] = q[j]
      BY <1>12, <3>2
    <3> QED
      BY <3>3
  <2> QED
    BY <2>1, <2>2
<1>20. \A i \in 1 .. Len(b), j \in 1 .. Len(r) : b[i].node # r[j].node
  BY <1>16
<1>21. CutIn(q, b, r)
  BY <1>7, <1>9, <1>13, <1>14, <1>17, <1>18, <1>19, <1>20 DEF CutIn
<1> QED
  BY <1>21, <1>a, <1>b

LEMMA MoveStart == MoveInit => MoveInv
<1> SUFFICES ASSUME MoveInit PROVE MoveInv
  OBVIOUS
<1>1. NodeTypes
  BY StartAssumption DEF MoveInit, NodeTypes, Spot, NameHash, Outcome
<1>2. QueueTypes /\ SaneItems /\ OnePerNode /\ Honest /\ SingleFresh /\ Apart
  BY DEF MoveInit, QueueTypes, SaneItems, OnePerNode, Honest, SingleFresh, Apart, Acting
<1>3. Truth
  BY DEF MoveInit, Truth
<1> QED
  BY <1>1, <1>2, <1>3 DEF MoveInv, MoveTypes

\* A step that leaves the call alone.
LEMMA CallStays ==
    ASSUME MoveInv, UNCHANGED <<mpc, dest, queue, replies, asked, outcome, applied, unsure>>,
           place' \in [Item -> Spot], remembered' \in [Item -> NameHash]
    PROVE  MoveInv'
<1>1. NodeTypes' /\ QueueTypes'
  BY DEF MoveInv, MoveTypes, NodeTypes, QueueTypes
<1>2. SaneItems'
  BY DEF MoveInv, SaneItems
<1>3. OnePerNode' /\ Honest'
  BY DEF MoveInv, OnePerNode, Honest
<1>4. Truth'
  BY DEF MoveInv, Truth, GivenOk, Queued, Answered
<1>5. SingleFresh' /\ Apart'
  BY DEF MoveInv, SingleFresh, Apart
<1> QED
  BY <1>1, <1>2, <1>3, <1>4, <1>5 DEF MoveInv, MoveTypes

\* What the server has of a node has its type.
LEMMA CurrentHashIs ==
    ASSUME MoveInv, NEW n \in Item
    PROVE  CurrentHash(n) \in NameHash /\ place[n] \in Spot /\ place[n].folder \in Folder /\ place[n].name \in Name
BY DEF MoveInv, MoveTypes, NodeTypes, CurrentHash, Hash, NameHash, Spot

LEMMA ReadKeeps ==
    ASSUME MoveInv, NEW n \in Item, ReadNode(n) \/ EventArrives(n)
    PROVE  MoveInv'
<1>1. PICK h \in NameHash : remembered' = [remembered EXCEPT ![n] = h]
  <2>1. NoHash \in NameHash
    BY DEF NameHash
  <2> QED
    BY <2>1, CurrentHashIs DEF ReadNode, EventArrives
<1>2. remembered' \in [Item -> NameHash]
  BY <1>1 DEF MoveInv, MoveTypes, NodeTypes
<1>3. UNCHANGED <<place, mpc, dest, queue, replies, asked, outcome, applied, unsure>>
  BY DEF ReadNode, EventArrives
<1> QED
  BY <1>2, <1>3, CallStays DEF MoveInv, MoveTypes, NodeTypes

LEMMA RivalKeeps ==
    ASSUME MoveInv, NEW n \in Item, NEW f \in Folder, NEW name \in Name, RivalChange(n, f, name)
    PROVE  MoveInv'
<1>1. PICK spot \in Spot : place' = [place EXCEPT ![n] = spot]
  <2>1. [folder |-> f, name |-> name] \in Spot
    BY DEF Spot
  <2> QED
    BY <2>1 DEF RivalChange
<1>2. place' \in [Item -> Spot]
  BY <1>1 DEF MoveInv, MoveTypes, NodeTypes
<1>3. UNCHANGED <<remembered, mpc, dest, queue, replies, asked, outcome, applied, unsure>>
  BY DEF RivalChange
<1> QED
  BY <1>2, <1>3, CallStays DEF MoveInv, MoveTypes, NodeTypes

\* A call that starts anew, or is over at once.
LEMMA ResetKeeps ==
    ASSUME MoveInv, Reset, UNCHANGED <<place, remembered>>,
           \/ mpc' = "idle"
           \/ mpc' = "single" /\ dest' \in Folder /\ queue' \in Seq(Prep) /\ Len(queue') = 1
           \/ /\ mpc' \in Acting /\ queue' \in Seq(Seq(Item))
              /\ \A i, j \in 1 .. Len(queue') :
                    i # j => \A a \in 1 .. Len(queue'[i]), b \in 1 .. Len(queue'[j]) :
                                queue'[i][a] # queue'[j][b]
    PROVE  MoveInv'
<1>1. NodeTypes'
  BY DEF Reset, MoveInv, MoveTypes, NodeTypes, Outcome
<1>2. QueueTypes'
  BY DEF QueueTypes, Acting
<1>3. SaneItems' /\ OnePerNode' /\ Honest'
  BY DEF SaneItems, OnePerNode, Honest, Acting
<1>4. Truth'
  BY DEF Reset, Truth
<1>5. SingleFresh'
  BY DEF Reset, SingleFresh, Acting
<1>6. Apart'
  BY DEF Reset, Apart, Acting
<1> QED
  BY <1>1, <1>2, <1>3, <1>4, <1>5, <1>6 DEF MoveInv, MoveTypes

LEMMA AtOnceKeeps ==
    ASSUME MoveInv, EmptyTrash \/ \E n \in Item : CopyNode(n)
    PROVE  MoveInv'
<1>1. Reset /\ UNCHANGED <<place, remembered>> /\ mpc' = "idle"
  BY DEF EmptyTrash, CopyNode
<1> QED
  BY <1>1, ResetKeeps

\* A fetched move is of its node, and a name that is kept is the one it had.
LEMMA FetchedIs ==
    ASSUME MoveInv, NEW n \in Item, NEW target \in {<<>>} \cup {<<a>> : a \in Name}
    PROVE  /\ Fetched(n, target) \in Prep /\ Fetched(n, target).node = n
           /\ Sane(Fetched(n, target))
<1>1. PICK name \in Name : /\ name = (IF target = <<>> THEN place[n].name ELSE target[1])
                           /\ target = <<>> => name = place[n].name
  <2>1. CASE target = <<>>
    BY <2>1, CurrentHashIs
  <2>2. CASE target # <<>>
    <3>1. PICK a \in Name : target = <<a>>
      BY <2>2
    <3> QED
      BY <2>2, <3>1
  <2> QED
    BY <2>1, <2>2
<1>2. PICK h \in NameHash : h = NoHash
  BY DEF NameHash
<1>3. PICK keeps \in BOOLEAN : keeps = (target = <<>>)
  BY Zenon
<1>4. PICK anonymous \in BOOLEAN : anonymous = (n \in Anonymous)
  <2>1. (n \in Anonymous) \in BOOLEAN
    OBVIOUS
  <2> QED
    BY <2>1, Zenon
<1>5. PICK p : p = [node |-> n, from |-> place[n], original |-> h, name |-> name,
                    keeps |-> keeps, anonymous |-> anonymous, retried |-> FALSE]
  OBVIOUS
<1>6. p = Fetched(n, target)
  BY <1>1, <1>2, <1>3, <1>4, <1>5 DEF Fetched
<1>7. place[n] \in Spot
  BY CurrentHashIs
<1>8. p \in Prep
  BY <1>1, <1>2, <1>3, <1>4, <1>5, <1>7 DEF Prep
<1>9. p.node = n /\ p.name = name /\ p.from = place[n]
  BY <1>5
<1>10. (p.keeps => target = <<>>) /\ ~p.retried
  <2>1. p.keeps = keeps /\ p.retried = FALSE
    BY <1>5
  <2> QED
    BY <1>3, <2>1, Zenon
<1>11. Sane(p)
  BY <1>1, <1>9, <1>10 DEF Sane
<1> QED
  BY <1>6, <1>8, <1>9, <1>11

LEMMA BeginSingleKeeps ==
    ASSUME MoveInv, NEW n \in Item,
           \/ \E name \in Name : BeginRename(n, name)
           \/ \E f \in Folder : BeginMove(n, f)
    PROVE  MoveInv'
<1>1. PICK target \in {<<>>} \cup {<<a>> : a \in Name} : queue' = <<Fetched(n, target)>>
  BY DEF BeginRename, BeginMove
<1>2. PICK p \in Prep : queue' = <<p>>
  BY <1>1, FetchedIs
<1>3. queue' \in Seq(Prep) /\ Len(queue') = 1
  BY <1>2
<1>4. Reset /\ UNCHANGED <<place, remembered>> /\ mpc' = "single" /\ dest' \in Folder
  BY CurrentHashIs DEF BeginRename, BeginMove
<1> QED
  BY <1>3, <1>4, ResetKeeps

LEMMA SingleKeeps ==
    ASSUME MoveInv, SingleAnswered
    PROVE  MoveInv'
<1>1. /\ mpc = "single" /\ mpc' = "idle" /\ UNCHANGED <<remembered, asked, unsure>>
      /\ dest \in Folder /\ queue \in Seq(Prep) /\ Len(queue) = 1
      /\ applied = {} /\ asked = {} /\ \A n \in Item : outcome[n] = "none"
  BY DEF SingleAnswered, MoveInv, MoveTypes, QueueTypes, SingleFresh
<1>2. PICK p \in Prep : p = Head(queue)
  BY <1>1
<1>3. p.node \in Item /\ p.name \in Name
  BY <1>2 DEF Prep
<1>4. PICK f \in Folder : f = Target(p)
  BY <1>1, <1>3, CurrentHashIs DEF Target
<1>5. \/ /\ place' = [place EXCEPT ![p.node] = [folder |-> f, name |-> p.name]]
         /\ outcome' = [outcome EXCEPT ![p.node] = "ok"] /\ applied' = {p.node}
      \/ /\ place' = place /\ applied' = {}
         /\ \E o \in {"refused", "wrong hash"} : outcome' = [outcome EXCEPT ![p.node] = o]
  <2>1. CASE Takes(p, Target(p))
    BY <1>2, <1>4, <2>1 DEF SingleAnswered
  <2>2. CASE ~Takes(p, Target(p))
    BY <1>1, <1>2, <2>2 DEF SingleAnswered
  <2> QED
    BY <2>1, <2>2
<1>6. place \in [Item -> Spot] /\ outcome \in [Item -> Outcome] /\ remembered \in [Item -> NameHash]
  BY DEF MoveInv, MoveTypes, NodeTypes
<1>7. NodeTypes'
  <2>1. [folder |-> f, name |-> p.name] \in Spot
    BY <1>3 DEF Spot
  <2>2. place' \in [Item -> Spot]
    BY <1>5, <1>6, <2>1
  <2>3. outcome' \in [Item -> Outcome]
    BY <1>5, <1>6 DEF Outcome, Code
  <2>4. applied' \subseteq Item
    BY <1>3, <1>5
  <2> QED
    BY <1>1, <1>6, <2>2, <2>3, <2>4 DEF NodeTypes
<1>8. Truth'
  <2> SUFFICES ASSUME NEW n \in Item
               PROVE  (outcome'[n] = "ok" => n \in applied') /\ (n \in applied' => outcome'[n] = "ok")
    BY <1>1 DEF Truth
  <2>1. CASE n = p.node
    BY <1>5, <1>6, <2>1
  <2>2. CASE n # p.node
    BY <1>1, <1>5, <1>6, <2>2
  <2> QED
    BY <2>1, <2>2
<1>9. QueueTypes' /\ SaneItems' /\ OnePerNode' /\ Honest' /\ SingleFresh' /\ Apart'
  BY <1>1 DEF QueueTypes, SaneItems, OnePerNode, Honest, SingleFresh, Apart, Acting
<1> QED
  BY <1>7, <1>8, <1>9 DEF MoveInv, MoveTypes

\* The hash of a fetched move is one the cache kept or that of the link.
LEMMA BuildKeeps ==
    ASSUME MoveInv, BuildParts
    PROVE  MoveInv'
<1>1. /\ mpc \in {"single", "batches"} /\ queue \in Seq(Prep)
      /\ UNCHANGED <<place, remembered, mpc, dest, asked, replies, outcome, applied, unsure>>
  BY DEF BuildParts, MoveInv, MoveTypes, QueueTypes
<1>2. PICK i \in 1 .. Len(queue) :
         Unbuilt(i) /\ queue' = [queue EXCEPT ![i].original = OriginalHash(queue[i])]
  BY DEF BuildParts
<1>3. PICK p \in Prep : p = queue[i]
  BY <1>1
<1>4. p.node \in Item /\ p.from \in Spot /\ p.original = NoHash
  BY <1>2, <1>3 DEF Prep, Unbuilt
<1>5. PICK h \in NameHash : h = OriginalHash(p)
  <2>1. remembered[p.node] \in NameHash
    BY <1>4 DEF MoveInv, MoveTypes, NodeTypes
  <2>2. Hash(p.from.folder, p.from.name) \in NameHash
    BY <1>4 DEF Hash, NameHash, Spot
  <2> QED
    BY <2>1, <2>2 DEF OriginalHash
<1>6. PICK b \in Prep : b = [p EXCEPT !.original = h]
  BY DEF Prep
<1>7. /\ b.node = p.node /\ b.name = p.name /\ b.from = p.from
      /\ b.keeps = p.keeps /\ b.retried = p.retried
  BY <1>6 DEF Prep
<1>8. queue' = [queue EXCEPT ![i] = b]
  BY <1>2, <1>3, <1>5, <1>6
<1>9. queue' \in Seq(Prep) /\ Len(queue') = Len(queue)
  BY <1>1, <1>8, ExceptSeq
<1>10. \A k \in 1 .. Len(queue) : /\ queue'[k].node = queue[k].node
                                  /\ k # i => queue'[k] = queue[k]
  <2> TAKE k \in 1 .. Len(queue)
  <2>1. k # i => queue'[k] = queue[k]
    BY <1>1, <1>8
  <2>2. queue'[i] = b
    BY <1>1, <1>8
  <2> QED
    BY <1>3, <1>7, <2>1, <2>2
<1>11. NodeTypes' /\ QueueTypes'
  <2>1. NodeTypes'
    BY <1>1 DEF MoveInv, MoveTypes, NodeTypes
  <2>2. QueueTypes'
    BY <1>1, <1>9 DEF MoveInv, MoveTypes, QueueTypes, Acting
  <2> QED
    BY <2>1, <2>2
<1>12. SaneItems'
  <2> SUFFICES ASSUME mpc = "batches"
               PROVE  /\ \A k \in 1 .. Len(queue') : Sane(queue'[k])
                      /\ \A j \in 1 .. Len(replies') : Sane(replies'[j].item)
    BY <1>1 DEF SaneItems
  <2>1. Sane(p)
    BY <1>3 DEF MoveInv, SaneItems
  <2>2. ~p.retried
    BY <1>4, <2>1 DEF Sane, Hash, NoHash
  <2>3. Sane(b)
    <3>1. b.keeps => b.name = b.from.name
      BY <1>7, <2>1, Zenon DEF Sane
    <3>2. ~b.retried
      BY <1>7, <2>2, Zenon
    <3> QED
      BY <3>1, <3>2 DEF Sane
  <2>4. queue'[i] = b
    BY <1>1, <1>8
  <2>5. \A k \in 1 .. Len(queue) : Sane(queue[k])
    BY DEF MoveInv, SaneItems
  <2>6. \A k \in 1 .. Len(queue') : Sane(queue'[k])
    BY <1>9, <1>10, <2>3, <2>4, <2>5
  <2> QED
    BY <1>1, <2>6 DEF MoveInv, SaneItems
<1>13. OnePerNode' /\ Honest'
  <2>1. OnePerNode'
    BY <1>1, <1>9, <1>10 DEF MoveInv, OnePerNode, Distinct
  <2>2. Honest'
    BY <1>1, <1>9, <1>10 DEF MoveInv, Honest
  <2> QED
    BY <2>1, <2>2
<1>14. Truth'
  <2>1. \A n : /\ Queued(n) => Queued(n)'
              /\ (Answered(n) => Answered(n)') /\ (GivenOk(n) => GivenOk(n)')
    BY <1>1, <1>9, <1>10 DEF Queued, Answered, GivenOk
  <2> QED
    BY <1>1, <2>1 DEF MoveInv, Truth
<1>15. SingleFresh' /\ Apart'
  BY <1>1, <1>9 DEF MoveInv, SingleFresh, Apart, Acting
<1> QED
  BY <1>11, <1>12, <1>13, <1>14, <1>15 DEF MoveInv, MoveTypes

\* A move that cannot be built is reported and waits no longer.
LEMMA PartsFailKeeps ==
    ASSUME MoveInv, PartsFail
    PROVE  MoveInv'
<1>1. /\ mpc \in {"single", "batches"} /\ queue \in Seq(Prep)
      /\ UNCHANGED <<place, remembered, dest, asked, replies, applied, unsure>>
      /\ mpc' = IF mpc = "single" THEN "idle" ELSE mpc
      /\ outcome \in [Item -> Outcome]
  BY DEF PartsFail, MoveInv, MoveTypes, NodeTypes, QueueTypes
<1>2. PICK i \in 1 .. Len(queue) :
         /\ Unbuilt(i) /\ queue' = Picked(queue, (1 .. Len(queue)) \ {i})
         /\ outcome' = [outcome EXCEPT ![queue[i].node] = "failed"]
  BY DEF PartsFail
<1>3. PICK p \in Prep : p = queue[i]
  BY <1>1
<1>4. p.node \in Item /\ outcome' = [outcome EXCEPT ![p.node] = "failed"]
  BY <1>2, <1>3 DEF Prep
<1>5. PICK ids \in SUBSET (1 .. Len(queue)) : ids = (1 .. Len(queue)) \ {i}
  OBVIOUS
<1>6. queue' \in Seq(Prep)
  BY <1>1, <1>2, <1>5, PickedIs
<1>7. PICK g : PickedBy(g, queue', queue, ids)
  <2>1. PICK q : q = queue'
    OBVIOUS
  <2>2. \E g : PickedBy(g, q, queue, ids)
    BY <1>1, <1>2, <1>5, <2>1, PickedHas
  <2> QED
    BY <2>1, <2>2
<1>8. /\ \A a, c \in 1 .. Len(queue') : g[a] = g[c] => a = c
      /\ \A id \in ids : \E a \in 1 .. Len(queue') : g[a] = id
      /\ \A a \in 1 .. Len(queue') : g[a] \in ids /\ queue'[a] = queue[g[a]]
  BY <1>7, Zenon DEF PickedBy
<1>9. NodeTypes'
  <2>1. outcome' \in [Item -> Outcome]
    BY <1>1, <1>4 DEF Outcome
  <2> QED
    BY <1>1, <2>1 DEF MoveInv, MoveTypes, NodeTypes
<1>10. CASE mpc = "single"
  <2>1. mpc' = "idle" /\ applied = {} /\ asked = {} /\ \A n \in Item : outcome[n] = "none"
    BY <1>1, <1>10 DEF MoveInv, SingleFresh
  <2>2. QueueTypes' /\ SaneItems' /\ OnePerNode' /\ Honest' /\ SingleFresh' /\ Apart'
    BY <2>1 DEF QueueTypes, SaneItems, OnePerNode, Honest, SingleFresh, Apart, Acting
  <2>3. \A n \in Item : outcome'[n] # "ok"
    BY <1>1, <1>4, <2>1
  <2>4. Truth'
    BY <1>1, <2>1, <2>3 DEF Truth
  <2> QED
    BY <1>9, <2>2, <2>4 DEF MoveInv, MoveTypes
<1>11. CASE mpc = "batches"
  <2>1. mpc' = "batches" /\ dest \in Folder /\ replies \in Seq(Reply)
    BY <1>1, <1>11 DEF MoveInv, MoveTypes, QueueTypes
  <2>2. QueueTypes'
    BY <1>1, <1>6, <2>1 DEF QueueTypes, Acting
  <2>0. /\ \A k \in 1 .. Len(queue), j \in 1 .. Len(replies) : queue[k].node # replies[j].item.node
        /\ \A j, k \in 1 .. Len(queue) : queue[j].node = queue[k].node => j = k
    BY <1>11 DEF MoveInv, OnePerNode, Distinct
  <2>3. \A k \in 1 .. Len(queue) : /\ Sane(queue[k])
                                   /\ queue[k].node \in applied => queue[k].node \in unsure
    BY <1>11 DEF MoveInv, SaneItems, Honest
  <2>4. \A a \in 1 .. Len(queue') : g[a] \in 1 .. Len(queue) /\ queue'[a] = queue[g[a]]
    BY <1>5, <1>8
  <2>5. SaneItems'
    BY <1>1, <1>11, <2>1, <2>3, <2>4 DEF MoveInv, SaneItems
  <2>6. OnePerNode'
    <3>1. Distinct(queue')
      <4> SUFFICES ASSUME NEW a \in 1 .. Len(queue'), NEW c \in 1 .. Len(queue'),
                          queue'[a].node = queue'[c].node
                   PROVE  a = c
        BY DEF Distinct
      <4>1. g[a] = g[c]
        BY <2>0, <2>4
      <4> QED
        BY <1>8, <4>1
    <3>2. \A a \in 1 .. Len(queue'), j \in 1 .. Len(replies') : queue'[a].node # replies'[j].item.node
      BY <1>1, <2>0, <2>4
    <3> QED
      BY <1>1, <1>11, <3>1, <3>2 DEF MoveInv, OnePerNode
  <2>7. Honest'
    <3>1. \A a \in 1 .. Len(queue') : queue'[a].node \in applied' => queue'[a].node \in unsure'
      BY <1>1, <2>3, <2>4
    <3> QED
      BY <1>1, <1>11, <3>1 DEF MoveInv, Honest
  <2>8. Truth'
    <3> SUFFICES ASSUME NEW n \in Item
                 PROVE  /\ outcome'[n] = "ok" => n \in applied
                        /\ n \in applied => outcome'[n] = "ok" \/ n \in unsure \/ GivenOk(n)'
                        /\ n \in asked => outcome'[n] # "none" \/ Queued(n)' \/ Answered(n)'
      BY <1>1, <2>1 DEF Truth
    <3>1. CASE n = p.node
      <4>1. outcome'[n] = "failed"
        BY <1>1, <1>4, <3>1
      <4>2. n \in applied => n \in unsure
        BY <1>3, <2>3, <3>1
      <4> QED
        BY <4>1, <4>2
    <3>2. CASE n # p.node
      <4>1. outcome'[n] = outcome[n]
        BY <1>1, <1>4, <3>2
      <4>2. (GivenOk(n) => GivenOk(n)') /\ (Answered(n) => Answered(n)')
        BY <1>1 DEF GivenOk, Answered
      <4>3. ASSUME Queued(n) PROVE Queued(n)'
        <5>1. PICK k \in 1 .. Len(queue) : queue[k].node = n
          BY <4>3 DEF Queued
        <5>2. k \in ids
          BY <1>3, <1>5, <3>2, <5>1
        <5>3. PICK a \in 1 .. Len(queue') : g[a] = k
          BY <1>8, <5>2
        <5>4. queue'[a].node = n
          BY <2>4, <5>1, <5>3
        <5> QED
          BY <5>4 DEF Queued
      <4> QED
        BY <1>11, <4>1, <4>2, <4>3 DEF MoveInv, Truth
    <3> QED
      BY <3>1, <3>2
  <2>9. SingleFresh' /\ Apart'
    BY <2>1 DEF SingleFresh, Apart, Acting
  <2> QED
    BY <1>9, <2>2, <2>5, <2>6, <2>7, <2>8, <2>9 DEF MoveInv, MoveTypes
<1> QED
  BY <1>1, <1>10, <1>11

\* A call ends with nothing under way.
LEMMA DoneKeeps ==
    ASSUME MoveInv, MovesDone \/ ActDone
    PROVE  MoveInv'
<1>1. /\ mpc' = "idle" /\ queue = <<>> /\ (mpc = "batches" => replies = <<>>)
      /\ UNCHANGED <<place, remembered, outcome, applied, asked, unsure>>
  BY DEF MovesDone, ActDone
<1>2. NodeTypes'
  BY <1>1 DEF MoveInv, MoveTypes, NodeTypes
<1>3. QueueTypes' /\ SaneItems' /\ OnePerNode' /\ Honest' /\ SingleFresh' /\ Apart'
  BY <1>1 DEF QueueTypes, SaneItems, OnePerNode, Honest, SingleFresh, Apart, Acting
<1>4. Truth'
  <2>1. \A n : mpc = "batches" => ~GivenOk(n) /\ ~Queued(n) /\ ~Answered(n)
    BY <1>1 DEF GivenOk, Queued, Answered
  <2> QED
    BY <1>1, <2>1 DEF MoveInv, Truth
<1> QED
  BY <1>2, <1>3, <1>4 DEF MoveInv, MoveTypes

\* A call is given a sequence without repetition.
LEMMA OrdersAre ==
    ASSUME NEW nodes \in Orders
    PROVE  nodes \in Seq(Item) /\ \A i, j \in 1 .. Len(nodes) : nodes[i] = nodes[j] => i = j
<1>1. PICK k \in 1 .. Cardinality(Item) : nodes \in [1 .. k -> Item]
  BY DEF Orders
<1>2. k \in Nat /\ \A i, j \in DOMAIN nodes : nodes[i] = nodes[j] => i = j
  BY DEF Orders
<1>3. nodes \in Seq(Item) /\ Len(nodes) = k /\ DOMAIN nodes = 1 .. k
  BY <1>1, <1>2, IsASeq, LenProperties
<1> QED
  BY <1>2, <1>3

\* prepare_moves: every node is queued or has its outcome.
LEMMA PrepareKeeps ==
    ASSUME MoveInv, NEW nodes \in Orders, NEW f \in Folder, NEW target \in Renamings,
           PrepareMoves(nodes, f, target)
    PROVE  MoveInv'
<1>1. nodes \in Seq(Item) /\ \A i, j \in 1 .. Len(nodes) : nodes[i] = nodes[j] => i = j
  BY OrdersAre
<1> DEFINE ids == {i \in 1 .. Len(nodes) : life[nodes[i]] # "gone"}
<1>2. ids \in SUBSET (1 .. Len(nodes))
  OBVIOUS
<1>3. PICK found : found = Picked(nodes, ids)
  OBVIOUS
<1>4. /\ mpc' = "batches" /\ dest' = f /\ asked' = {nodes[i] : i \in 1 .. Len(nodes)}
      /\ queue' = [i \in 1 .. Len(found) |-> Fetched(found[i], target[found[i]])]
      /\ outcome' = [n \in Item |->
                      IF \E i \in 1 .. Len(nodes) : nodes[i] = n /\ life[n] = "gone"
                      THEN "not found" ELSE "none"]
      /\ applied' = {} /\ unsure' = {} /\ replies' = <<>> /\ UNCHANGED <<place, remembered>>
  BY <1>3 DEF PrepareMoves
<1>5. /\ found \in Seq(Item)
      /\ \E g \in [1 .. Len(found) -> ids] :
            /\ \A a, b \in 1 .. Len(found) : g[a] = g[b] => a = b
            /\ \A id \in ids : \E a \in 1 .. Len(found) : g[a] = id
            /\ \A a \in 1 .. Len(found) : found[a] = nodes[g[a]]
  <2> HIDE DEF ids
  <2>1. found \in Seq(Item)
    BY <1>1, <1>2, <1>3, PickedIs
  <2>2. \E g : PickedBy(g, found, nodes, ids)
    BY <1>1, <1>2, <1>3, PickedHas
  <2> QED
    BY <2>1, <2>2, Zenon DEF PickedBy
<1> HIDE DEF ids
<1>6. PICK g \in [1 .. Len(found) -> ids] :
            /\ \A a, b \in 1 .. Len(found) : g[a] = g[b] => a = b
            /\ \A id \in ids : \E a \in 1 .. Len(found) : g[a] = id
            /\ \A a \in 1 .. Len(found) : found[a] = nodes[g[a]]
  BY <1>5
<1>7. \A i \in 1 .. Len(found) :
         /\ found[i] \in Item /\ queue'[i] = Fetched(found[i], target[found[i]])
         /\ queue'[i] \in Prep /\ queue'[i].node = found[i] /\ Sane(queue'[i])
  <2> SUFFICES ASSUME NEW i \in 1 .. Len(found)
               PROVE  /\ found[i] \in Item /\ queue'[i] = Fetched(found[i], target[found[i]])
                      /\ queue'[i] \in Prep /\ queue'[i].node = found[i] /\ Sane(queue'[i])
    OBVIOUS
  <2>1. found[i] \in Item
    BY <1>5
  <2>2. target[found[i]] \in {<<>>} \cup {<<a>> : a \in Name}
    BY <2>1, StartAssumption
  <2>3. queue'[i] = Fetched(found[i], target[found[i]])
    BY <1>4
  <2>4. PICK n \in Item, t \in {<<>>} \cup {<<a>> : a \in Name} : n = found[i] /\ t = target[found[i]]
    BY <2>1, <2>2
  <2>5. Fetched(n, t) \in Prep /\ Fetched(n, t).node = n /\ Sane(Fetched(n, t))
    BY FetchedIs
  <2> QED
    BY <2>3, <2>4, <2>5
<1>8. queue' \in Seq(Prep) /\ Len(queue') = Len(found)
  <2>1. Len(found) \in Nat
    BY <1>5
  <2>2. queue' \in [1 .. Len(found) -> Prep]
    BY <1>4, <1>7
  <2> QED
    BY <2>1, <2>2, IsASeq, LenProperties
<1>9. Distinct(queue')
  <2> SUFFICES ASSUME NEW i \in 1 .. Len(found), NEW j \in 1 .. Len(found), queue'[i].node = queue'[j].node
               PROVE  i = j
    BY <1>8 DEF Distinct
  <2>1. found[i] = found[j]
    BY <1>7
  <2>2. PICK u \in 1 .. Len(nodes) : u = g[i] /\ nodes[u] = found[i]
    BY <1>2, <1>6
  <2>3. PICK v \in 1 .. Len(nodes) : v = g[j] /\ nodes[v] = found[j]
    BY <1>2, <1>6
  <2>4. u = v
    BY <1>1, <2>1, <2>2, <2>3
  <2>5. g[i] = g[j]
    BY <2>2, <2>3, <2>4
  <2>6. \A a, b \in 1 .. Len(found) : g[a] = g[b] => a = b
    BY <1>6
  <2> QED
    BY <2>5, <2>6
<1>10. NodeTypes' /\ QueueTypes'
  <2>1. outcome' \in [Item -> Outcome]
    BY <1>4 DEF Outcome
  <2>2. asked' \subseteq Item
    <3> SUFFICES ASSUME NEW e \in asked' PROVE e \in Item
      OBVIOUS
    <3>1. PICK i \in 1 .. Len(nodes) : e = nodes[i]
      BY <1>4
    <3> QED
      BY <1>1, <3>1
  <2>3. NodeTypes'
    BY <1>4, <2>1, <2>2 DEF MoveInv, MoveTypes, NodeTypes
  <2>4. replies' \in Seq(Reply)
    <3>1. <<>> \in Seq(Reply)
      OBVIOUS
    <3> QED
      BY <1>4, <3>1, Zenon
  <2>5. QueueTypes'
    BY <1>4, <1>8, <2>4 DEF QueueTypes, Acting
  <2> QED
    BY <2>3, <2>5
<1>11. SaneItems' /\ OnePerNode' /\ Honest'
  <2>1. \A j \in 1 .. Len(replies') : FALSE
    <3>1. replies' = <<>>
      BY <1>4
    <3>2. Len(replies') = 0
      BY <3>1
    <3> QED
      BY <3>2
  <2>2. SaneItems'
    <3>1. \A i \in 1 .. Len(queue') : Sane(queue'[i])
      BY <1>7, <1>8
    <3> QED
      BY <2>1, <3>1 DEF SaneItems
  <2>3. OnePerNode'
    BY <1>9, <2>1 DEF OnePerNode
  <2>4. Honest'
    BY <1>4, <2>1 DEF Honest
  <2> QED
    BY <2>2, <2>3, <2>4
<1>12. Truth'
  <2> SUFFICES ASSUME NEW n \in Item
               PROVE  /\ outcome'[n] # "ok"
                      /\ n \in asked' => outcome'[n] # "none" \/ Queued(n)'
    BY <1>4 DEF Truth
  <2>1. outcome'[n] # "ok"
    BY <1>4
  <2>2. ASSUME n \in asked', outcome'[n] = "none" PROVE Queued(n)'
    <3>1. PICK i \in 1 .. Len(nodes) : nodes[i] = n
      BY <1>4, <2>2
    <3>2. life[n] # "gone"
      BY <1>4, <2>2, <3>1
    <3>3. i \in ids
      BY <3>1, <3>2 DEF ids
    <3>4. PICK a \in 1 .. Len(found) : g[a] = i
      BY <1>6, <3>3
    <3>5. found[a] = n
      BY <1>6, <3>1, <3>4
    <3>6. queue'[a].node = n /\ a \in 1 .. Len(queue')
      BY <1>7, <1>8, <3>5
    <3> QED
      BY <3>6 DEF Queued
  <2> QED
    BY <2>1, <2>2
<1>13. SingleFresh' /\ Apart'
  BY <1>4 DEF SingleFresh, Apart, Acting
<1> QED
  BY <1>10, <1>11, <1>12, <1>13 DEF MoveInv, MoveTypes

\* What was waiting is in the batch b or still waiting, in r.
Taken(b, r) ==
    /\ b \in Seq(Prep) /\ r \in Seq(Prep) /\ Distinct(b) /\ Distinct(r)
    /\ \A i \in 1 .. Len(b) : b[i] \in Prep /\ b[i].node \in Item /\ Sane(b[i])
    /\ \A i \in 1 .. Len(r) : r[i] \in Prep /\ r[i].node \in Item /\ Sane(r[i])
    /\ \A i \in 1 .. Len(b) : b[i].node \in applied => b[i].node \in unsure
    /\ \A i \in 1 .. Len(r) : r[i].node \in applied => r[i].node \in unsure
    /\ \A n : Queued(n) => \/ \E i \in 1 .. Len(b) : b[i].node = n
                           \/ \E i \in 1 .. Len(r) : r[i].node = n
    /\ \A i \in 1 .. Len(b), j \in 1 .. Len(r) : b[i].node # r[j].node

LEMMA TakenIs ==
    ASSUME MoveInv, mpc = "batches", queue # <<>>
    PROVE  Taken(TakeBatch(queue).batch, TakeBatch(queue).rest)
<1>a. PICK b : b = TakeBatch(queue).batch
  OBVIOUS
<1>b. PICK r : r = TakeBatch(queue).rest
  OBVIOUS
<1>1. queue \in Seq(Prep) /\ Distinct(queue)
  BY DEF MoveInv, MoveTypes, QueueTypes, OnePerNode
<1>2. /\ b \in Seq(Prep) /\ r \in Seq(Prep) /\ Distinct(b) /\ Distinct(r)
      /\ \A i \in 1 .. Len(b) : \E j \in 1 .. Len(queue) : b[i] = queue[j]
      /\ \A i \in 1 .. Len(r) : \E j \in 1 .. Len(queue) : r[i] = queue[j]
      /\ \A j \in 1 .. Len(queue) : \/ \E i \in 1 .. Len(b) : b[i] = queue[j]
                                    \/ \E i \in 1 .. Len(r) : r[i] = queue[j]
      /\ \A i \in 1 .. Len(b), j \in 1 .. Len(r) : b[i].node # r[j].node
  <2>1. CutIn(queue, b, r)
    BY <1>a, <1>b, <1>1, TakeIs
  <2> QED
    BY <2>1 DEF CutIn
<1>3. \A j \in 1 .. Len(queue) : /\ queue[j] \in Prep /\ queue[j].node \in Item /\ Sane(queue[j])
                                 /\ queue[j].node \in applied => queue[j].node \in unsure
  <2> SUFFICES ASSUME NEW j \in 1 .. Len(queue)
               PROVE  /\ queue[j] \in Prep /\ queue[j].node \in Item /\ Sane(queue[j])
                      /\ queue[j].node \in applied => queue[j].node \in unsure
    OBVIOUS
  <2>1. queue[j] \in Prep
    BY <1>1
  <2>2. queue[j].node \in Item
    BY <2>1 DEF Prep
  <2>3. Sane(queue[j])
    BY DEF MoveInv, SaneItems
  <2>4. queue[j].node \in applied => queue[j].node \in unsure
    BY DEF MoveInv, Honest
  <2> QED
    BY <2>1, <2>2, <2>3, <2>4
<1>4. \A i \in 1 .. Len(b) : /\ b[i] \in Prep /\ b[i].node \in Item /\ Sane(b[i])
                             /\ b[i].node \in applied => b[i].node \in unsure
  BY <1>2, <1>3
<1>5. \A i \in 1 .. Len(r) : /\ r[i] \in Prep /\ r[i].node \in Item /\ Sane(r[i])
                             /\ r[i].node \in applied => r[i].node \in unsure
  BY <1>2, <1>3
<1>6. ASSUME NEW n, Queued(n)
      PROVE  (\E i \in 1 .. Len(b) : b[i].node = n) \/ (\E i \in 1 .. Len(r) : r[i].node = n)
  <2>1. PICK j \in 1 .. Len(queue) : queue[j].node = n
    BY <1>6 DEF Queued
  <2> QED
    BY <1>2, <2>1
<1>7. Taken(b, r)
  BY <1>2, <1>4, <1>5, <1>6 DEF Taken
<1> QED
  BY <1>a, <1>b, <1>7

\* The server stays typed.
LEMMA MovedIs ==
    ASSUME place \in [Item -> Spot], dest \in Folder, NEW b \in Seq(Prep),
           NEW granted \in SUBSET (1 .. Len(b))
    PROVE  Moved(b, granted) \in [Item -> Spot]
<1> SUFFICES ASSUME NEW n \in Item
             PROVE  (IF \E i \in granted : b[i].node = n
                     THEN [folder |-> dest, name |-> b[CHOOSE i \in granted : b[i].node = n].name]
                     ELSE place[n]) \in Spot
  BY DEF Moved
<1>1. CASE \E i \in granted : b[i].node = n
  <2>1. PICK c \in granted : c = CHOOSE i \in granted : b[i].node = n
    BY <1>1
  <2>2. b[c] \in Prep
    OBVIOUS
  <2>3. b[c].name \in Name
    BY <2>2 DEF Prep
  <2>4. [folder |-> dest, name |-> b[c].name] \in Spot
    BY <2>3 DEF Spot
  <2> QED
    BY <1>1, <2>1, <2>4
<1>2. CASE ~\E i \in granted : b[i].node = n
  BY <1>2
<1> QED
  BY <1>1, <1>2

\* A batch that is answered: each node is in the answer, and an answer that says
\* no of what took effect is known to be unsure.
LEMMA AnswerKeeps ==
    ASSUME MoveInv, mpc = "batches", replies = <<>>, queue # <<>>,
           NEW b, NEW r, b = TakeBatch(queue).batch, r = TakeBatch(queue).rest,
           NEW granted \in SUBSET (1 .. Len(b)), NEW codes \in [1 .. Len(b) -> Code],
           place' = Moved(b, granted), applied' = applied \cup {b[i].node : i \in granted},
           queue' = r, UNCHANGED <<remembered, mpc, dest, asked, outcome>>,
           unsure \subseteq unsure',
           replies' = [i \in 1 .. Len(b) |-> [item |-> b[i], code |-> codes[i]]],
           \A i \in 1 .. Len(b) : /\ codes[i] = "ok" => i \in granted
                                  /\ i \in granted => codes[i] = "ok" \/ b[i].node \in unsure'
    PROVE  MoveInv'
<1>1. /\ b \in Seq(Prep) /\ r \in Seq(Prep) /\ Distinct(b) /\ Distinct(r)
      /\ \A i \in 1 .. Len(b) : b[i] \in Prep /\ b[i].node \in Item /\ Sane(b[i])
      /\ \A i \in 1 .. Len(r) : r[i] \in Prep /\ r[i].node \in Item /\ Sane(r[i])
      /\ \A i \in 1 .. Len(b) : b[i].node \in applied => b[i].node \in unsure
      /\ \A i \in 1 .. Len(r) : r[i].node \in applied => r[i].node \in unsure
      /\ \A n : Queued(n) => \/ \E i \in 1 .. Len(b) : b[i].node = n
                             \/ \E i \in 1 .. Len(r) : r[i].node = n
      /\ \A i \in 1 .. Len(b), j \in 1 .. Len(r) : b[i].node # r[j].node
  <2>1. Taken(b, r)
    BY TakenIs
  <2> QED
    BY <2>1 DEF Taken
<1>2. /\ replies' \in Seq(Reply) /\ Len(replies') = Len(b)
      /\ \A i \in 1 .. Len(b) : replies'[i].item = b[i] /\ replies'[i].code = codes[i]
  <2>1. \A i \in 1 .. Len(b) : [item |-> b[i], code |-> codes[i]] \in Reply
    BY <1>1 DEF Reply
  <2>2. replies' \in [1 .. Len(b) -> Reply]
    BY <2>1
  <2>3. Len(b) \in Nat
    BY <1>1
  <2>4. replies' \in Seq(Reply) /\ Len(replies') = Len(b)
    BY <2>2, <2>3, IsASeq, LenProperties
  <2> QED
    BY <2>4
<1>3. \A n \in applied' : n \in applied \/ \E i \in granted : n = b[i].node
  OBVIOUS
<1>4. \A i \in granted : i \in 1 .. Len(b) /\ b[i].node \in applied'
  OBVIOUS
<1>5. applied \subseteq applied'
  OBVIOUS
<1>6. NodeTypes'
  <2>1. place \in [Item -> Spot] /\ dest \in Folder
    BY DEF MoveInv, MoveTypes, NodeTypes, QueueTypes
  <2>2. place' \in [Item -> Spot]
    BY <1>1, <2>1, MovedIs
  <2>3. applied' \subseteq Item
    <3>1. applied \subseteq Item
      BY DEF MoveInv, MoveTypes, NodeTypes
    <3> QED
      BY <1>1, <1>3, <1>4, <3>1
  <2> QED
    BY <2>2, <2>3 DEF MoveInv, MoveTypes, NodeTypes
<1>7. QueueTypes'
  BY <1>1, <1>2 DEF MoveInv, MoveTypes, QueueTypes, Acting
<1>8. SaneItems'
  <2>1. \A i \in 1 .. Len(queue') : Sane(queue'[i])
    BY <1>1
  <2>2. \A i \in 1 .. Len(replies') : Sane(replies'[i].item)
    BY <1>1, <1>2
  <2> QED
    BY <2>1, <2>2 DEF SaneItems
<1>9. OnePerNode'
  <2>1. Distinct(queue')
    BY <1>1
  <2>2. \A i, j \in 1 .. Len(replies') : replies'[i].item.node = replies'[j].item.node => i = j
    BY <1>1, <1>2 DEF Distinct
  <2>3. \A i \in 1 .. Len(queue'), j \in 1 .. Len(replies') : queue'[i].node # replies'[j].item.node
    BY <1>1, <1>2
  <2> QED
    BY <2>1, <2>2, <2>3 DEF OnePerNode
<1>10. Honest'
  <2>1. ASSUME NEW i \in 1 .. Len(r), r[i].node \in applied' PROVE r[i].node \in unsure'
    <3>1. r[i].node \in applied
      BY <1>1, <1>3, <1>4, <2>1
    <3> QED
      BY <1>1, <3>1
  <2>2. \A j \in 1 .. Len(b) : codes[j] = "ok" => b[j].node \in applied'
    BY <1>4
  <2>3. ASSUME NEW j \in 1 .. Len(b), codes[j] # "ok", b[j].node \in applied' PROVE b[j].node \in unsure'
    <3>1. CASE b[j].node \in applied
      BY <1>1, <3>1
    <3>2. CASE \E i \in granted : b[j].node = b[i].node
      <4>1. PICK i \in granted : b[j].node = b[i].node
        BY <3>2
      <4>2. i = j
        BY <1>1, <1>4, <4>1 DEF Distinct
      <4> QED
        BY <2>3, <4>2
    <3> QED
      BY <1>3, <2>3, <3>1, <3>2
  <2> QED
    BY <1>2, <2>1, <2>2, <2>3 DEF Honest
<1>11. Truth'
  <2> SUFFICES ASSUME NEW n \in Item
               PROVE  /\ outcome'[n] = "ok" => n \in applied'
                      /\ n \in applied' => outcome'[n] = "ok" \/ n \in unsure' \/ GivenOk(n)'
                      /\ n \in asked' => outcome'[n] # "none" \/ Queued(n)' \/ Answered(n)'
    BY DEF Truth
  <2>0. ~GivenOk(n) /\ ~Answered(n)
    BY DEF GivenOk, Answered
  <2>1. /\ outcome[n] = "ok" => n \in applied
        /\ n \in applied => outcome[n] = "ok" \/ n \in unsure
        /\ n \in asked => outcome[n] # "none" \/ Queued(n)
    BY <2>0 DEF MoveInv, Truth
  <2>2. outcome'[n] = "ok" => n \in applied'
    BY <1>5, <2>1
  <2>3. ASSUME NEW i \in granted, n = b[i].node PROVE n \in unsure' \/ GivenOk(n)'
    BY <1>2, <1>4, <2>3 DEF GivenOk
  <2>4. n \in applied' => outcome'[n] = "ok" \/ n \in unsure' \/ GivenOk(n)'
    BY <1>3, <2>1, <2>3
  <2>5. ASSUME Queued(n) PROVE Queued(n)' \/ Answered(n)'
    <3>1. CASE \E i \in 1 .. Len(b) : b[i].node = n
      <4>1. PICK i \in 1 .. Len(b) : b[i].node = n
        BY <3>1
      <4>2. i \in 1 .. Len(replies') /\ replies'[i].item.node = n
        BY <1>2, <4>1
      <4> QED
        BY <4>2 DEF Answered
    <3>2. CASE \E i \in 1 .. Len(r) : r[i].node = n
      BY <3>2 DEF Queued
    <3> QED
      BY <1>1, <2>5, <3>1, <3>2
  <2> QED
    BY <2>1, <2>2, <2>4, <2>5
<1>12. SingleFresh' /\ Apart'
  BY DEF SingleFresh, Apart, Acting
<1> QED
  BY <1>6, <1>7, <1>8, <1>9, <1>10, <1>11, <1>12 DEF MoveInv, MoveTypes

LEMMA SubmitKeeps ==
    ASSUME MoveInv, SubmitBatch
    PROVE  MoveInv'
<1>1. PICK b : b = TakeBatch(queue).batch
  OBVIOUS
<1>2. PICK r : r = TakeBatch(queue).rest
  OBVIOUS
<1>3. PICK granted \in SUBSET (1 .. Len(b)), silent \in SUBSET (1 .. Len(b)) :
         /\ place' = Moved(b, granted) /\ applied' = applied \cup {b[i].node : i \in granted}
         /\ unsure' = unsure \cup {b[i].node : i \in silent}
         /\ replies' = Answers(b, granted, silent)
  BY <1>1 DEF SubmitBatch
<1>4. granted \in SUBSET (1 .. Len(b))
  OBVIOUS
<1>5. /\ mpc = "batches" /\ replies = <<>> /\ queue # <<>>
      /\ queue' = r /\ UNCHANGED <<remembered, mpc, dest, asked, outcome>> /\ unsure \subseteq unsure'
  BY <1>2, <1>3 DEF SubmitBatch
<1>6. PICK codes : codes = [i \in 1 .. Len(b) |->
                       IF i \in silent THEN "no response"
                       ELSE IF i \in granted THEN "ok"
                       ELSE IF b[i].original # CurrentHash(b[i].node) THEN "wrong hash" ELSE "refused"]
  OBVIOUS
<1>7. codes \in [1 .. Len(b) -> Code]
  BY <1>6 DEF Code
<1>8. \A i \in 1 .. Len(b) : /\ codes[i] = "ok" => i \in granted
                             /\ i \in granted => codes[i] = "ok" \/ b[i].node \in unsure'
  BY <1>3, <1>6
<1>9. replies' = [i \in 1 .. Len(b) |-> [item |-> b[i], code |-> codes[i]]]
  BY <1>3, <1>6 DEF Answers
<1>10. place' = Moved(b, granted) /\ applied' = applied \cup {b[i].node : i \in granted}
  BY <1>3
<1> QED
  BY <1>1, <1>2, <1>4, <1>5, <1>7, <1>8, <1>9, <1>10, AnswerKeeps

\* A copy of the request whose answer is lost: what it did is unsure.
LEMMA ResentKeeps ==
    ASSUME MoveInv, BatchResent
    PROVE  MoveInv'
<1>1. PICK b : b = TakeBatch(queue).batch
  OBVIOUS
<1>2. PICK granted : granted = Granted(b)
  OBVIOUS
<1>3. granted \in SUBSET (1 .. Len(b))
  BY <1>2 DEF Granted
<1>4. /\ mpc = "batches" /\ replies = <<>> /\ queue # <<>>
      /\ place' = Moved(b, granted) /\ applied' = applied \cup {b[i].node : i \in granted}
      /\ unsure' = unsure \cup NodesOf(b)
      /\ UNCHANGED <<remembered, mpc, dest, asked, queue, replies, outcome>>
  BY <1>1, <1>2 DEF BatchResent
<1>5. b \in Seq(Prep) /\ \A i \in 1 .. Len(b) : b[i].node \in Item
  <2>1. Taken(b, TakeBatch(queue).rest)
    BY <1>1, <1>4, TakenIs
  <2> QED
    BY <2>1 DEF Taken
<1>6. \A n \in applied' : n \in applied \/ n \in unsure'
  BY <1>3, <1>4 DEF NodesOf
<1>7. NodeTypes'
  <2>1. place \in [Item -> Spot] /\ dest \in Folder
    BY <1>4 DEF MoveInv, MoveTypes, NodeTypes, QueueTypes
  <2>2. place' \in [Item -> Spot]
    BY <1>3, <1>4, <1>5, <2>1, MovedIs
  <2>3. applied' \subseteq Item
    <3>1. applied \subseteq Item
      BY DEF MoveInv, MoveTypes, NodeTypes
    <3> QED
      BY <1>3, <1>4, <1>5, <3>1
  <2> QED
    BY <1>4, <2>2, <2>3 DEF MoveInv, MoveTypes, NodeTypes
<1>8. QueueTypes' /\ SaneItems' /\ OnePerNode'
  BY <1>4 DEF MoveInv, MoveTypes, QueueTypes, SaneItems, OnePerNode, Acting
<1>9. \A j \in 1 .. Len(replies') : FALSE
  <2>1. replies' = <<>>
    BY <1>4
  <2>2. Len(replies') = 0
    BY <2>1
  <2> QED
    BY <2>2
<1>10. Honest'
  <2>1. \A i \in 1 .. Len(queue) : queue[i].node \in applied => queue[i].node \in unsure
    BY <1>4 DEF MoveInv, Honest
  <2>2. \A i \in 1 .. Len(queue) : queue[i].node \in applied' => queue[i].node \in unsure'
    BY <1>4, <1>6, <2>1
  <2> QED
    BY <1>4, <1>9, <2>2 DEF Honest
<1>11. Truth'
  <2> SUFFICES ASSUME NEW n \in Item
               PROVE  /\ outcome'[n] = "ok" => n \in applied'
                      /\ n \in applied' => outcome'[n] = "ok" \/ n \in unsure'
                      /\ n \in asked' => outcome'[n] # "none" \/ Queued(n)'
    BY <1>4 DEF Truth
  <2>0. ~GivenOk(n) /\ ~Answered(n)
    BY <1>4 DEF GivenOk, Answered
  <2>1. /\ outcome[n] = "ok" => n \in applied
        /\ n \in applied => outcome[n] = "ok" \/ n \in unsure
        /\ n \in asked => outcome[n] # "none" \/ Queued(n)
    BY <1>4, <2>0 DEF MoveInv, Truth
  <2>2. Queued(n) => Queued(n)'
    BY <1>4 DEF Queued
  <2> QED
    BY <1>4, <1>6, <2>1, <2>2
<1>12. SingleFresh' /\ Apart'
  BY <1>4 DEF SingleFresh, Apart, Acting
<1> QED
  BY <1>7, <1>8, <1>10, <1>11, <1>12 DEF MoveInv, MoveTypes

\* A batch that fails: its nodes are charged and unsure.
LEMMA BatchFailsKeeps ==
    ASSUME MoveInv, BatchFails
    PROVE  MoveInv'
<1>1. PICK b : b = TakeBatch(queue).batch
  OBVIOUS
<1>2. PICK r : r = TakeBatch(queue).rest
  OBVIOUS
<1>3. PICK granted \in {{}, Granted(b)} :
         place' = Moved(b, granted) /\ applied' = applied \cup {b[i].node : i \in granted}
  BY <1>1 DEF BatchFails
<1>4. granted \in SUBSET (1 .. Len(b))
  BY DEF Granted
<1>5. /\ mpc = "batches" /\ replies = <<>> /\ queue # <<>>
      /\ queue' = r /\ UNCHANGED <<remembered, mpc, dest, asked, replies>>
      /\ unsure' = unsure \cup NodesOf(b)
      /\ outcome' = [n \in Item |-> IF n \in NodesOf(b) THEN "failed" ELSE outcome[n]]
  BY <1>1, <1>2 DEF BatchFails
<1>6. /\ b \in Seq(Prep) /\ r \in Seq(Prep) /\ Distinct(b) /\ Distinct(r)
      /\ \A i \in 1 .. Len(b) : b[i] \in Prep /\ b[i].node \in Item /\ Sane(b[i])
      /\ \A i \in 1 .. Len(r) : r[i] \in Prep /\ r[i].node \in Item /\ Sane(r[i])
      /\ \A i \in 1 .. Len(r) : r[i].node \in applied => r[i].node \in unsure
      /\ \A n : Queued(n) => \/ \E i \in 1 .. Len(b) : b[i].node = n
                             \/ \E i \in 1 .. Len(r) : r[i].node = n
      /\ \A i \in 1 .. Len(b), j \in 1 .. Len(r) : b[i].node # r[j].node
  <2>1. Taken(b, r)
    BY <1>1, <1>2, <1>5, TakenIs
  <2> QED
    BY <2>1 DEF Taken
<1>7. \A n \in applied' : n \in applied \/ \E i \in granted : n = b[i].node
  BY <1>3
<1>8. \A i \in 1 .. Len(b) : b[i].node \in NodesOf(b) /\ b[i].node \in unsure'
  BY <1>5 DEF NodesOf
<1>9. NodeTypes'
  <2>1. place \in [Item -> Spot] /\ dest \in Folder
    BY <1>5 DEF MoveInv, MoveTypes, NodeTypes, QueueTypes
  <2>2. place' \in [Item -> Spot]
    BY <1>3, <1>4, <1>6, <2>1, MovedIs
  <2>3. applied' \subseteq Item
    <3>1. applied \subseteq Item
      BY DEF MoveInv, MoveTypes, NodeTypes
    <3> QED
      BY <1>4, <1>6, <1>7, <3>1
  <2>4. outcome' \in [Item -> Outcome]
    <3>1. outcome \in [Item -> Outcome]
      BY DEF MoveInv, MoveTypes, NodeTypes
    <3> QED
      BY <1>5, <3>1 DEF Outcome
  <2> QED
    BY <1>5, <2>2, <2>3, <2>4 DEF MoveInv, MoveTypes, NodeTypes
<1>10. QueueTypes'
  <2>1. replies \in Seq(Reply) /\ dest \in Folder
    BY <1>5 DEF MoveInv, MoveTypes, QueueTypes
  <2> QED
    BY <1>5, <1>6, <2>1 DEF QueueTypes, Acting
<1>11. \A j \in 1 .. Len(replies') : FALSE
  <2>1. replies' = <<>>
    BY <1>5
  <2>2. Len(replies') = 0
    BY <2>1
  <2> QED
    BY <2>2
<1>12. SaneItems' /\ OnePerNode'
  <2>1. \A i \in 1 .. Len(queue') : Sane(queue'[i])
    BY <1>5, <1>6
  <2>2. Distinct(queue')
    BY <1>5, <1>6
  <2>3. SaneItems'
    BY <1>11, <2>1 DEF SaneItems
  <2>4. OnePerNode'
    BY <1>11, <2>2 DEF OnePerNode
  <2> QED
    BY <2>3, <2>4
<1>13. Honest'
  <2>1. ASSUME NEW i \in 1 .. Len(r), r[i].node \in applied' PROVE r[i].node \in unsure'
    <3>1. r[i].node \in applied
      BY <1>4, <1>6, <1>7, <2>1
    <3> QED
      BY <1>5, <1>6, <3>1
  <2> QED
    BY <1>5, <1>11, <2>1 DEF Honest
<1>14. Truth'
  <2> SUFFICES ASSUME NEW n \in Item
               PROVE  /\ outcome'[n] = "ok" => n \in applied'
                      /\ n \in applied' => outcome'[n] = "ok" \/ n \in unsure'
                      /\ n \in asked' => outcome'[n] # "none" \/ Queued(n)'
    BY <1>5 DEF Truth
  <2>0. ~GivenOk(n) /\ ~Answered(n)
    BY <1>5 DEF GivenOk, Answered
  <2>1. /\ outcome[n] = "ok" => n \in applied
        /\ n \in applied => outcome[n] = "ok" \/ n \in unsure
        /\ n \in asked => outcome[n] # "none" \/ Queued(n)
    BY <1>5, <2>0 DEF MoveInv, Truth
  <2>2. CASE n \in NodesOf(b)
    BY <1>5, <2>2
  <2>3. CASE n \notin NodesOf(b)
    <3>1. outcome'[n] = outcome[n]
      BY <1>5, <2>3
    <3>2. n \in applied <=> n \in applied'
      BY <1>3, <1>4, <1>7, <1>8, <2>3
    <3>3. Queued(n) => Queued(n)'
      BY <1>5, <1>6, <1>8, <2>3 DEF Queued
    <3> QED
      BY <1>5, <2>1, <3>1, <3>2, <3>3
  <2> QED
    BY <2>2, <2>3
<1>15. SingleFresh' /\ Apart'
  BY <1>5 DEF SingleFresh, Apart, Acting
<1> QED
  BY <1>9, <1>10, <1>12, <1>13, <1>14, <1>15 DEF MoveInv, MoveTypes

\* The next answer is reported, or its item waits again.
LEMMA ReplyKeeps ==
    ASSUME MoveInv, NextReply
    PROVE  MoveInv'
<1>1. /\ mpc = "batches" /\ replies # <<>> /\ replies' = Tail(replies)
      /\ UNCHANGED <<place, remembered, mpc, dest, asked, applied, unsure>>
      /\ queue \in Seq(Prep) /\ replies \in Seq(Reply) /\ dest \in Folder
      /\ outcome \in [Item -> Outcome]
  BY DEF NextReply, MoveInv, MoveTypes, NodeTypes, QueueTypes
<1>2. PICK p \in Prep, code \in Code : p = replies[1].item /\ code = replies[1].code
  <2>1. replies[1] \in Reply
    BY <1>1
  <2> QED
    BY <2>1 DEF Reply
<1>3. /\ Head(replies) = replies[1] /\ 1 \in 1 .. Len(replies) /\ Len(replies) \in Nat
      /\ replies' \in Seq(Reply) /\ Len(replies') = Len(replies) - 1
      /\ \A j \in 1 .. Len(replies') : j + 1 \in 1 .. Len(replies) /\ replies'[j] = replies[j + 1]
  BY <1>1
<1>4. \A j \in 1 .. Len(replies) : j = 1 \/ (j - 1 \in 1 .. Len(replies') /\ replies'[j - 1] = replies[j])
  <2> TAKE j \in 1 .. Len(replies)
  <2>1. CASE j # 1
    <3>1. j - 1 \in 1 .. Len(replies')
      BY <1>3, <2>1
    <3>2. replies'[j - 1] = replies[(j - 1) + 1] /\ (j - 1) + 1 = j
      BY <1>3, <3>1
    <3> QED
      BY <3>1, <3>2
  <2> QED
    BY <2>1
<1>5. p.node \in Item /\ Sane(p)
  BY <1>1, <1>2, <1>3 DEF Prep, MoveInv, SaneItems
<1>6. /\ \A j \in 1 .. Len(replies') : /\ replies'[j].item.node # p.node /\ Sane(replies'[j].item)
                                       /\ replies'[j].code = "ok" => replies'[j].item.node \in applied
                                       /\ replies'[j].code # "ok" /\ replies'[j].item.node \in applied
                                            => replies'[j].item.node \in unsure
      /\ \A i, j \in 1 .. Len(replies') : replies'[i].item.node = replies'[j].item.node => i = j
      /\ \A i \in 1 .. Len(queue) : queue[i].node # p.node
      /\ \A i \in 1 .. Len(queue), j \in 1 .. Len(replies') : queue[i].node # replies'[j].item.node
  <2>1. /\ \A i, j \in 1 .. Len(replies) : replies[i].item.node = replies[j].item.node => i = j
        /\ \A i \in 1 .. Len(queue), j \in 1 .. Len(replies) : queue[i].node # replies[j].item.node
    BY <1>1 DEF MoveInv, OnePerNode
  <2>2. \A j \in 1 .. Len(replies) : /\ Sane(replies[j].item)
                                     /\ replies[j].code = "ok" => replies[j].item.node \in applied
                                     /\ replies[j].code # "ok" /\ replies[j].item.node \in applied
                                          => replies[j].item.node \in unsure
    BY <1>1 DEF MoveInv, SaneItems, Honest
  <2>3. ASSUME NEW j \in 1 .. Len(replies')
        PROVE  /\ replies'[j].item.node # p.node /\ Sane(replies'[j].item)
               /\ replies'[j].code = "ok" => replies'[j].item.node \in applied
               /\ replies'[j].code # "ok" /\ replies'[j].item.node \in applied
                    => replies'[j].item.node \in unsure
    <3>1. j + 1 \in 1 .. Len(replies) /\ replies'[j] = replies[j + 1] /\ j + 1 # 1
      BY <1>3
    <3> QED
      BY <1>2, <1>3, <2>1, <2>2, <3>1
  <2>4. ASSUME NEW i \in 1 .. Len(replies'), NEW j \in 1 .. Len(replies'),
               replies'[i].item.node = replies'[j].item.node
        PROVE  i = j
    <3>1. i + 1 \in 1 .. Len(replies) /\ j + 1 \in 1 .. Len(replies)
      BY <1>3
    <3>2. i + 1 = j + 1
      BY <1>3, <2>1, <2>4, <3>1
    <3> QED
      BY <1>3, <3>2
  <2>5. \A i \in 1 .. Len(queue) : queue[i].node # p.node
    BY <1>2, <1>3, <2>1
  <2>6. \A i \in 1 .. Len(queue), j \in 1 .. Len(replies') : queue[i].node # replies'[j].item.node
    BY <1>3, <2>1
  <2> QED
    BY <2>3, <2>4, <2>5, <2>6
<1>7. /\ code = "ok" => p.node \in applied
      /\ code # "ok" /\ p.node \in applied => p.node \in unsure
  BY <1>1, <1>2, <1>3 DEF MoveInv, Honest
<1>8. /\ \A n : n # p.node => (GivenOk(n) => GivenOk(n)') /\ (Answered(n) => Answered(n)')
  <2> SUFFICES ASSUME NEW n, n # p.node
               PROVE  (GivenOk(n) => GivenOk(n)') /\ (Answered(n) => Answered(n)')
    OBVIOUS
  <2>1. ASSUME NEW j \in 1 .. Len(replies), replies[j].item.node = n
        PROVE  \E k \in 1 .. Len(replies') : replies'[k] = replies[j]
    BY <1>2, <1>4, <2>1
  <2>2. GivenOk(n) => GivenOk(n)'
    BY <2>1 DEF GivenOk
  <2>3. Answered(n) => Answered(n)'
    BY <2>1 DEF Answered
  <2> QED
    BY <2>2, <2>3
<1>9. \A n \in Item :
         /\ outcome[n] = "ok" => n \in applied
         /\ n \in applied => outcome[n] = "ok" \/ n \in unsure \/ GivenOk(n)
         /\ n \in asked => outcome[n] # "none" \/ Queued(n) \/ Answered(n)
  BY <1>1 DEF MoveInv, Truth
<1>0. SingleFresh' /\ Apart'
  BY <1>1 DEF SingleFresh, Apart, Acting
<1>10. CASE \E o \in Outcome : /\ outcome' = [outcome EXCEPT ![p.node] = o] /\ queue' = queue
                               /\ o # "none" /\ (o = "ok" <=> code = "ok")
  <2>1. PICK o \in Outcome : /\ outcome' = [outcome EXCEPT ![p.node] = o] /\ queue' = queue
                             /\ o # "none" /\ (o = "ok" <=> code = "ok")
    BY <1>10
  <2>2. NodeTypes' /\ QueueTypes'
    <3>1. outcome' \in [Item -> Outcome]
      BY <1>1, <2>1
    <3>2. NodeTypes'
      BY <1>1, <3>1 DEF MoveInv, MoveTypes, NodeTypes
    <3>3. QueueTypes'
      BY <1>1, <1>3, <2>1 DEF QueueTypes, Acting
    <3> QED
      BY <3>2, <3>3
  <2>3. SaneItems'
    BY <1>1, <1>6, <2>1 DEF MoveInv, SaneItems
  <2>4. OnePerNode'
    BY <1>1, <1>6, <2>1 DEF MoveInv, OnePerNode
  <2>5. Honest'
    BY <1>1, <1>6, <2>1 DEF MoveInv, Honest
  <2>6. Truth'
    <3> SUFFICES ASSUME NEW n \in Item
                 PROVE  /\ outcome'[n] = "ok" => n \in applied
                        /\ n \in applied => outcome'[n] = "ok" \/ n \in unsure \/ GivenOk(n)'
                        /\ n \in asked => outcome'[n] # "none" \/ Queued(n)' \/ Answered(n)'
      BY <1>1 DEF Truth
    <3>1. CASE n = p.node
      BY <1>1, <1>7, <2>1, <3>1
    <3>2. CASE n # p.node
      <4>1. outcome'[n] = outcome[n] /\ (Queued(n) => Queued(n)')
        BY <1>1, <2>1, <3>2 DEF Queued
      <4> QED
        BY <1>8, <1>9, <3>2, <4>1
    <3> QED
      BY <3>1, <3>2
  <2> QED
    BY <1>0, <2>2, <2>3, <2>4, <2>5, <2>6 DEF MoveInv, MoveTypes
<1>11. CASE /\ code = "wrong hash" /\ StillAsPrepared(p) /\ outcome' = outcome
            /\ queue' = Append(queue, [p EXCEPT !.original = CurrentHash(p.node), !.retried = TRUE])
  <2>1. PICK retry : retry = [p EXCEPT !.original = CurrentHash(p.node), !.retried = TRUE]
    OBVIOUS
  <2>2. retry \in Prep /\ retry.node = p.node /\ Sane(retry)
    <3>1. CurrentHash(p.node) \in NameHash
      BY <1>5, CurrentHashIs
    <3>2. retry \in Prep
      BY <2>1, <3>1 DEF Prep
    <3>3. /\ retry.node = p.node /\ retry.name = p.name /\ retry.from = p.from
          /\ retry.original = CurrentHash(p.node)
      BY <2>1 DEF Prep
    <3>4. retry.keeps = p.keeps
      BY <2>1 DEF Prep
    <3>5. CurrentHash(p.node) = Hash(p.from.folder, p.from.name)
      BY <1>11 DEF StillAsPrepared, CurrentHash
    <3>6. Sane(retry)
      BY <1>5, <3>3, <3>4, <3>5, Zenon DEF Sane
    <3> QED
      BY <3>2, <3>3, <3>6
  <2>3. /\ queue' \in Seq(Prep) /\ Len(queue') = Len(queue) + 1 /\ Len(queue) \in Nat
        /\ \A i \in 1 .. Len(queue) : queue'[i] = queue[i]
        /\ queue'[Len(queue) + 1] = retry
    <3>1. queue' = Append(queue, retry)
      BY <1>11, <2>1
    <3> QED
      BY <1>1, <2>2, <3>1, AppendProperties
  <2>4. \A i \in 1 .. Len(queue') : i \in 1 .. Len(queue) \/ i = Len(queue) + 1
    BY <2>3
  <2>5. NodeTypes' /\ QueueTypes'
    <3>1. NodeTypes'
      BY <1>1, <1>11 DEF MoveInv, MoveTypes, NodeTypes
    <3>2. QueueTypes'
      BY <1>1, <1>3, <2>3 DEF QueueTypes, Acting
    <3> QED
      BY <3>1, <3>2
  <2>6. SaneItems'
    <3>1. \A i \in 1 .. Len(queue) : Sane(queue[i])
      BY <1>1 DEF MoveInv, SaneItems
    <3>2. \A i \in 1 .. Len(queue') : Sane(queue'[i])
      BY <2>2, <2>3, <2>4, <3>1
    <3> QED
      BY <1>6, <3>2 DEF SaneItems
  <2>7. OnePerNode'
    <3>1. Distinct(queue)
      BY <1>1 DEF MoveInv, OnePerNode
    <3>2. Distinct(queue')
      BY <1>6, <2>2, <2>3, <2>4, <3>1 DEF Distinct
    <3>3. \A i \in 1 .. Len(queue'), j \in 1 .. Len(replies') : queue'[i].node # replies'[j].item.node
      BY <1>6, <2>2, <2>3, <2>4
    <3> QED
      BY <1>6, <3>2, <3>3 DEF OnePerNode
  <2>8. Honest'
    <3>1. \A i \in 1 .. Len(queue) : queue[i].node \in applied => queue[i].node \in unsure
      BY <1>1 DEF MoveInv, Honest
    <3>2. p.node \in applied => p.node \in unsure
      BY <1>7, <1>11
    <3>3. \A i \in 1 .. Len(queue') : queue'[i].node \in applied => queue'[i].node \in unsure
      BY <2>2, <2>3, <2>4, <3>1, <3>2
    <3> QED
      BY <1>1, <1>6, <3>3 DEF Honest
  <2>9. Truth'
    <3> SUFFICES ASSUME NEW n \in Item
                 PROVE  /\ outcome[n] = "ok" => n \in applied
                        /\ n \in applied => outcome[n] = "ok" \/ n \in unsure \/ GivenOk(n)'
                        /\ n \in asked => outcome[n] # "none" \/ Queued(n)' \/ Answered(n)'
      BY <1>1, <1>11 DEF Truth
    <3>1. CASE n = p.node
      <4>1. Queued(n)'
        <5>1. Len(queue) + 1 \in 1 .. Len(queue')
          BY <2>3
        <5> QED
          BY <2>2, <2>3, <3>1, <5>1 DEF Queued
      <4> QED
        BY <1>7, <1>9, <1>11, <3>1, <4>1
    <3>2. CASE n # p.node
      <4>1. Queued(n) => Queued(n)'
        <5>1. \A i \in 1 .. Len(queue) : i \in 1 .. Len(queue')
          BY <2>3
        <5> QED
          BY <2>3, <5>1 DEF Queued
      <4> QED
        BY <1>8, <1>9, <3>2, <4>1
    <3> QED
      BY <3>1, <3>2
  <2> QED
    BY <1>0, <2>5, <2>6, <2>7, <2>8, <2>9 DEF MoveInv, MoveTypes
<1>12. \/ /\ code = "wrong hash" /\ StillAsPrepared(p) /\ outcome' = outcome
          /\ queue' = Append(queue, [p EXCEPT !.original = CurrentHash(p.node), !.retried = TRUE])
       \/ \E o \in Outcome : /\ outcome' = [outcome EXCEPT ![p.node] = o] /\ queue' = queue
                             /\ o # "none" /\ (o = "ok" <=> code = "ok")
  <2>1. p = Head(replies).item /\ code = Head(replies).code
    BY <1>2, <1>3
  <2>2. CASE code = "wrong hash" /\ ~p.retried /\ StillAsPrepared(p)
    BY <2>1, <2>2 DEF NextReply
  <2>3. CASE code = "wrong hash" /\ ~p.retried /\ ~StillAsPrepared(p)
    <3>1. outcome' = [outcome EXCEPT ![p.node] = "out of sync"] /\ queue' = queue
      BY <2>1, <2>3 DEF NextReply
    <3>2. "out of sync" \in Outcome
      BY DEF Outcome
    <3> QED
      BY <2>3, <3>1, <3>2
  <2>4. CASE ~(code = "wrong hash" /\ ~p.retried)
    <3>1. outcome' = [outcome EXCEPT ![p.node] = code] /\ queue' = queue
      BY <2>1, <2>4 DEF NextReply
    <3>2. code \in Outcome /\ code # "none"
      BY DEF Outcome, Code
    <3> QED
      BY <3>1, <3>2
  <2> QED
    BY <2>2, <2>3, <2>4
<1> QED
  BY <1>10, <1>11, <1>12

-----------------------------------------------------------------------------
(* Trash, restore, delete.                                                 *)

\* A batch is a stretch of the nodes.
LEMMA ChunkIs ==
    ASSUME NEW s \in Seq(Item), NEW c \in Nat, NEW e \in Nat, e <= Len(s)
    PROVE  /\ SubSeq(s, c + 1, e) \in Seq(Item)
           /\ \A a \in 1 .. Len(SubSeq(s, c + 1, e)) :
                 c + a \in 1 .. Len(s) /\ c + a <= e /\ SubSeq(s, c + 1, e)[a] = s[c + a]
<1>1. CASE c <= e
  <2>1. PICK m : m = c + 1
    OBVIOUS
  <2>2. m \in 1 .. Len(s) + 1 /\ e \in m - 1 .. Len(s)
    BY <1>1, <2>1
  <2>3. /\ SubSeq(s, m, e) \in Seq(Item) /\ Len(SubSeq(s, m, e)) = e - m + 1
        /\ \A i \in 1 .. e - m + 1 : SubSeq(s, m, e)[i] = s[m + i - 1]
    BY <2>2, SubSeqProperties
  <2>4. e - m + 1 = e - c
    BY <2>1
  <2>5. \A a \in 1 .. e - c : m + a - 1 = c + a /\ c + a \in 1 .. Len(s) /\ c + a <= e
    BY <2>1
  <2> QED
    BY <2>1, <2>3, <2>4, <2>5
<1>2. CASE c > e
  <2>1. SubSeq(s, c + 1, e) = <<>>
    BY <1>2, SubSeqEmpty
  <2> QED
    BY <2>1
<1> QED
  BY <1>1, <1>2

\* A later batch begins after an earlier one has ended.
LEMMA LaterChunk ==
    ASSUME NEW i \in Nat, NEW j \in Nat, i < j, NEW m \in Nat
    PROVE  i * m <= (j - 1) * m
<1>1. PICK d \in Nat : j - 1 = i + d
  <2>1. (j - 1) - i \in Nat /\ j - 1 = i + ((j - 1) - i)
    OBVIOUS
  <2> QED
    BY <2>1
<1>2. (j - 1) * m = i * m + d * m /\ d * m >= 0 /\ i * m \in Nat /\ d * m \in Nat
  BY <1>1
<1> QED
  BY <1>2

LEMMA BeginActionKeeps ==
    ASSUME MoveInv, NEW act \in Acting, NEW nodes \in Orders, BeginAction(act, nodes)
    PROVE  MoveInv'
<1>1. nodes \in Seq(Item) /\ \A i, j \in 1 .. Len(nodes) : nodes[i] = nodes[j] => i = j
  BY OrdersAre
<1>2. PICK m \in Nat : m = MaxPerBatch /\ m > 0
  BY ItemsAssumption
<1>3. PICK len \in Nat : len = Len(nodes)
  BY <1>1
<1>4. PICK size : size = (len + m - 1) \div m
  OBVIOUS
<1>5. size \in Nat
  BY <1>2, <1>4
<1> DEFINE end(i) == IF i * m < len THEN i * m ELSE len
<1>6. queue' = [i \in 1 .. size |-> SubSeq(nodes, (i - 1) * m + 1, end(i))]
  BY <1>2, <1>3, <1>4 DEF BeginAction
<1>7. ASSUME NEW i \in 1 .. size
      PROVE  /\ queue'[i] \in Seq(Item) /\ (i - 1) * m \in Nat
             /\ \A a \in 1 .. Len(queue'[i]) : /\ (i - 1) * m + a \in 1 .. len
                                               /\ (i - 1) * m + a <= i * m
                                               /\ queue'[i][a] = nodes[(i - 1) * m + a]
  <2>1. PICK c \in Nat : c = (i - 1) * m
    BY <1>5
  <2>2. PICK e \in Nat : e = end(i) /\ e <= len /\ e <= i * m
    <3>1. i * m \in Nat
      BY <1>5
    <3> QED
      BY <3>1
  <2>3. queue'[i] = SubSeq(nodes, c + 1, e)
    BY <1>6, <2>1, <2>2
  <2> HIDE DEF end
  <2>4. /\ SubSeq(nodes, c + 1, e) \in Seq(Item)
        /\ \A a \in 1 .. Len(SubSeq(nodes, c + 1, e)) :
              c + a \in 1 .. Len(nodes) /\ c + a <= e /\ SubSeq(nodes, c + 1, e)[a] = nodes[c + a]
    BY <1>1, <1>3, <2>2, ChunkIs
  <2>5. /\ queue'[i] \in Seq(Item)
        /\ \A a \in 1 .. Len(queue'[i]) : c + a \in 1 .. len /\ c + a <= e /\ queue'[i][a] = nodes[c + a]
    BY <1>3, <2>3, <2>4
  <2>6. PICK im \in Nat : im = i * m /\ e <= im
    BY <1>5, <2>2
  <2>7. \A a \in 1 .. Len(queue'[i]) : c + a <= im
    BY <2>5, <2>6
  <2> QED
    BY <2>1, <2>5, <2>6, <2>7
<1> HIDE DEF end
<1>8. queue' \in Seq(Seq(Item)) /\ Len(queue') = size
  <2>1. queue' \in [1 .. size -> Seq(Item)]
    BY <1>6, <1>7
  <2> QED
    BY <1>5, <2>1, IsASeq, LenProperties
<1>9. ASSUME NEW i \in 1 .. size, NEW j \in 1 .. size, i < j,
             NEW a \in 1 .. Len(queue'[i]), NEW b \in 1 .. Len(queue'[j])
      PROVE  queue'[i][a] # queue'[j][b]
  <2>1. i * m <= (j - 1) * m
    BY <1>5, <1>9, LaterChunk
  <2>2. PICK u \in 1 .. len : u = (i - 1) * m + a /\ u <= i * m /\ queue'[i][a] = nodes[u]
    BY <1>7
  <2>3. PICK v \in 1 .. len : v = (j - 1) * m + b /\ queue'[j][b] = nodes[v]
    BY <1>7
  <2>4. PICK im \in Nat, jm \in Nat : im = i * m /\ jm = (j - 1) * m
    BY <1>5
  <2>5. u <= im /\ im <= jm /\ v = jm + b /\ b > 0
    <3>1. b \in Nat /\ b > 0
      BY <1>7, <1>8
    <3> QED
      BY <2>1, <2>2, <2>3, <2>4, <3>1
  <2>6. u < v
    BY <2>5
  <2> QED
    BY <1>1, <1>3, <2>2, <2>3, <2>6
<1>10. \A i, j \in 1 .. Len(queue') :
          i # j => \A a \in 1 .. Len(queue'[i]), b \in 1 .. Len(queue'[j]) : queue'[i][a] # queue'[j][b]
  <2> SUFFICES ASSUME NEW i \in 1 .. size, NEW j \in 1 .. size, i # j,
                      NEW a \in 1 .. Len(queue'[i]), NEW b \in 1 .. Len(queue'[j])
               PROVE  queue'[i][a] # queue'[j][b]
    BY <1>8
  <2>1. i < j \/ j < i
    BY <1>5
  <2> QED
    BY <1>9, <2>1
<1>11. Reset /\ UNCHANGED <<place, remembered>> /\ mpc' = act
  BY DEF BeginAction
<1> QED
  BY <1>8, <1>10, <1>11, ResetKeeps

\* What a batch acts on is of the batch, and of no later one.
LEMMA ActIs ==
    ASSUME MoveInv, mpc \in Acting, queue # <<>>, NEW b, b = Head(queue)
    PROVE  /\ queue \in Seq(Seq(Item)) /\ asked = {} /\ b \in Seq(Item)
           /\ \A i \in 1 .. Len(b) : b[i] \in Item /\ b[i] \notin applied
           /\ Acted(b) \subseteq {b[i] : i \in 1 .. Len(b)} /\ Acted(b) \subseteq Item
           /\ Tail(queue) \in Seq(Seq(Item)) /\ Len(Tail(queue)) = Len(queue) - 1
           /\ \A k \in 1 .. Len(Tail(queue)) : k + 1 \in 1 .. Len(queue) /\ Tail(queue)[k] = queue[k + 1]
           /\ \A k \in 1 .. Len(Tail(queue)) : \A a \in 1 .. Len(Tail(queue)[k]) :
                 /\ Tail(queue)[k][a] \notin applied
                 /\ \A i \in 1 .. Len(b) : b[i] # Tail(queue)[k][a]
<1>1. queue \in Seq(Seq(Item)) /\ asked = {}
  BY DEF MoveInv, MoveTypes, QueueTypes, Apart
<1>2. b = queue[1] /\ 1 \in 1 .. Len(queue) /\ b \in Seq(Item) /\ Len(queue) \in Nat
  BY <1>1
<1>3. /\ \A i \in 1 .. Len(queue) : \A a \in 1 .. Len(queue[i]) : queue[i][a] \notin applied
      /\ \A i, j \in 1 .. Len(queue) :
            i # j => \A a \in 1 .. Len(queue[i]), c \in 1 .. Len(queue[j]) : queue[i][a] # queue[j][c]
  BY DEF MoveInv, Apart
<1>4. \A i \in 1 .. Len(b) : b[i] \in Item /\ b[i] \notin applied
  BY <1>2, <1>3
<1>5. Acted(b) \subseteq {b[i] : i \in 1 .. Len(b)}
  BY DEF Acted
<1>6. Acted(b) \subseteq Item
  <2> SUFFICES ASSUME NEW n \in Acted(b) PROVE n \in Item
    OBVIOUS
  <2>1. PICK i \in 1 .. Len(b) : n = b[i]
    BY <1>5
  <2> QED
    BY <1>4, <2>1
<1>7. /\ Tail(queue) \in Seq(Seq(Item)) /\ Len(Tail(queue)) = Len(queue) - 1
      /\ \A k \in 1 .. Len(Tail(queue)) : k + 1 \in 1 .. Len(queue) /\ Tail(queue)[k] = queue[k + 1]
  BY <1>1
<1>8. ASSUME NEW k \in 1 .. Len(Tail(queue)), NEW a \in 1 .. Len(Tail(queue)[k])
      PROVE  /\ Tail(queue)[k][a] \notin applied
             /\ \A i \in 1 .. Len(b) : b[i] # Tail(queue)[k][a]
  <2>1. k + 1 \in 1 .. Len(queue) /\ Tail(queue)[k] = queue[k + 1] /\ k + 1 # 1
    BY <1>2, <1>7
  <2> QED
    BY <1>2, <1>3, <2>1
<1> QED
  BY <1>1, <1>2, <1>4, <1>5, <1>6, <1>7, <1>8

LEMMA ActKeeps ==
    ASSUME MoveInv, ActBatch \/ ActFails
    PROVE  MoveInv'
<1>1. /\ mpc \in Acting /\ queue # <<>>
      /\ UNCHANGED <<place, remembered, mpc, asked>>
  BY DEF ActBatch, ActFails, Acting
<1>2. PICK b : b = Head(queue)
  OBVIOUS
<1>3. /\ asked = {} /\ b \in Seq(Item)
      /\ \A i \in 1 .. Len(b) : b[i] \in Item /\ b[i] \notin applied
      /\ Acted(b) \subseteq {b[i] : i \in 1 .. Len(b)} /\ Acted(b) \subseteq Item
      /\ Tail(queue) \in Seq(Seq(Item))
      /\ \A k \in 1 .. Len(Tail(queue)) : k + 1 \in 1 .. Len(queue) /\ Tail(queue)[k] = queue[k + 1]
      /\ \A k \in 1 .. Len(Tail(queue)) : \A a \in 1 .. Len(Tail(queue)[k]) :
            /\ Tail(queue)[k][a] \notin applied
            /\ \A i \in 1 .. Len(b) : b[i] # Tail(queue)[k][a]
  BY <1>1, <1>2, ActIs, SMTT(30)
<1>4. applied \subseteq Item /\ outcome \in [Item -> Outcome]
  BY DEF MoveInv, MoveTypes, NodeTypes
<1>5. SaneItems' /\ OnePerNode' /\ Honest' /\ SingleFresh'
  BY <1>1 DEF SaneItems, OnePerNode, Honest, SingleFresh, Acting
<1>6. \A n \in Item : /\ outcome[n] = "ok" => n \in applied
                      /\ n \in applied => outcome[n] = "ok" \/ n \in unsure
  BY <1>1 DEF MoveInv, Truth, Acting
<1>7. CASE ActBatch
  <2>0. PICK acted \in SUBSET Members(b), silent \in SUBSET Members(b) :
          /\ acted \subseteq Acted(b)
          /\ applied' = applied \cup acted /\ unsure' = unsure \cup silent
          /\ outcome' = ReportedOn(b, acted, silent)
    BY <1>2, <1>7 DEF ActBatch
  <2>1. /\ applied' = applied \cup acted /\ queue' = Tail(queue)
        /\ acted \subseteq Item /\ acted \subseteq Members(b)
        /\ \A n : n \in Members(b) <=> \E i \in 1 .. Len(b) : b[i] = n
    BY <1>3, <1>7, <2>0 DEF ActBatch, Members
  <2>2. NodeTypes'
    <3>1. outcome' \in [Item -> Outcome]
      BY <1>4, <2>0 DEF ReportedOn, Outcome, Code
    <3> QED
      BY <1>1, <1>3, <1>4, <2>1, <3>1 DEF MoveInv, MoveTypes, NodeTypes
  <2>3. QueueTypes'
    BY <1>1, <1>3, <2>1 DEF QueueTypes, Acting
  <2>4. Apart'
    <3>1. \A k \in 1 .. Len(queue') : \A a \in 1 .. Len(queue'[k]) : queue'[k][a] \notin applied'
      <4> SUFFICES ASSUME NEW k \in 1 .. Len(queue'), NEW a \in 1 .. Len(queue'[k])
                   PROVE  queue'[k][a] \notin applied /\ queue'[k][a] \notin acted
        BY <2>1
      <4>1. queue'[k][a] \notin applied /\ \A i \in 1 .. Len(b) : b[i] # queue'[k][a]
        BY <1>3, <2>1
      <4> QED
        BY <2>1, <4>1
    <3>2. \A i, j \in 1 .. Len(queue') :
             i # j => \A a \in 1 .. Len(queue'[i]), c \in 1 .. Len(queue'[j]) : queue'[i][a] # queue'[j][c]
      <4> SUFFICES ASSUME NEW i \in 1 .. Len(queue'), NEW j \in 1 .. Len(queue'), i # j,
                          NEW a \in 1 .. Len(queue'[i]), NEW c \in 1 .. Len(queue'[j])
                   PROVE  queue'[i][a] # queue'[j][c]
        OBVIOUS
      <4>1. /\ i + 1 \in 1 .. Len(queue) /\ j + 1 \in 1 .. Len(queue)
            /\ queue'[i] = queue[i + 1] /\ queue'[j] = queue[j + 1]
        BY <1>3, <2>1
      <4>2. i + 1 # j + 1
        BY <2>1, <1>3
      <4> QED
        BY <1>1, <4>1, <4>2 DEF MoveInv, Apart
    <3> QED
      BY <1>1, <1>3, <3>1, <3>2 DEF Apart
  <2>5. Truth'
    <3> SUFFICES ASSUME NEW n \in Item
                 PROVE  /\ outcome'[n] = "ok" => n \in applied'
                        /\ n \in applied' => outcome'[n] = "ok" \/ n \in unsure'
      BY <1>1, <1>3 DEF Truth
    <3>1. CASE n \notin Members(b)
      BY <1>6, <2>0, <2>1, <3>1 DEF ReportedOn
    <3>2. CASE n \in Members(b)
      <4>0. PICK i \in 1 .. Len(b) : b[i] = n
        BY <2>1, <3>2
      <4>1. n \notin applied /\ outcome[n] # "ok"
        BY <1>3, <1>6, <4>0
      <4>2. CASE n \in silent
        BY <2>0, <2>1, <4>1, <4>2 DEF ReportedOn
      <4>3. CASE n \notin silent
        BY <2>0, <2>1, <3>2, <4>1, <4>3 DEF ReportedOn
      <4> QED
        BY <4>2, <4>3
    <3> QED
      BY <3>1, <3>2
  <2> QED
    BY <1>5, <2>2, <2>3, <2>4, <2>5 DEF MoveInv, MoveTypes
<1>8. CASE ActFails
  <2>1. PICK acted \in {{}, Acted(b)} : applied' = applied \cup acted
    BY <1>2, <1>8 DEF ActFails
  <2>2. /\ queue' = <<>> /\ outcome' = outcome
        /\ unsure' = unsure \cup {b[i] : i \in 1 .. Len(b)}
    BY <1>2, <1>8 DEF ActFails
  <2>3. acted \subseteq unsure' /\ acted \subseteq Item
    BY <1>3, <2>2
  <2>4. NodeTypes'
    BY <1>1, <1>4, <2>1, <2>2, <2>3 DEF MoveInv, MoveTypes, NodeTypes
  <2>5. QueueTypes'
    <3>1. <<>> \in Seq(Seq(Item))
      OBVIOUS
    <3>2. queue' \in Seq(Seq(Item))
      BY <2>2, <3>1, Zenon
    <3> QED
      BY <1>1, <3>2 DEF QueueTypes, Acting
  <2>6. Apart'
    BY <1>1, <1>3, <2>2 DEF Apart
  <2>7. Truth'
    BY <1>1, <1>3, <1>6, <2>1, <2>2, <2>3 DEF Truth
  <2> QED
    BY <1>5, <2>4, <2>5, <2>6, <2>7 DEF MoveInv, MoveTypes
<1> QED
  BY <1>7, <1>8

LEMMA MoveStep == MoveInv /\ [MoveNext]_moveVars => MoveInv'
<1> SUFFICES ASSUME MoveInv, [MoveNext]_moveVars PROVE MoveInv'
  OBVIOUS
<1>1. CASE UNCHANGED moveVars
  <2>1. UNCHANGED <<mpc, dest, queue, replies, asked, outcome, applied, unsure, place, remembered>>
    BY <1>1 DEF moveVars
  <2>2. place \in [Item -> Spot] /\ remembered \in [Item -> NameHash]
    BY DEF MoveInv, MoveTypes, NodeTypes
  <2> QED
    BY <2>1, <2>2, CallStays
<1>2. ASSUME NEW n \in Item, ReadNode(n) \/ CopyNode(n) \/ EventArrives(n) PROVE MoveInv'
  BY <1>2, ReadKeeps, AtOnceKeeps
<1>3. ASSUME NEW n \in Item, NEW name \in Name, RenameNode(n, name) \/ RenameAlbum(n, name)
      PROVE  MoveInv'
  BY <1>3, BeginSingleKeeps DEF RenameNode, RenameAlbum
<1>4. ASSUME NEW n \in Item, NEW f \in Folder, BeginMove(n, f) PROVE MoveInv'
  BY <1>4, BeginSingleKeeps
<1>5. CASE BuildParts \/ PartsFail \/ SingleAnswered
  BY <1>5, BuildKeeps, PartsFailKeeps, SingleKeeps
<1>6. ASSUME NEW nodes \in Orders, NEW f \in Folder, NEW target \in Renamings,
             PrepareMoves(nodes, f, target)
      PROVE  MoveInv'
  BY <1>6, PrepareKeeps
<1>7. CASE SubmitBatch \/ BatchResent
  BY <1>7, SubmitKeeps, ResentKeeps
<1>8. CASE BatchFails
  BY <1>8, BatchFailsKeeps
<1>9. CASE NextReply
  BY <1>9, ReplyKeeps
<1>10. CASE MovesDone \/ ActDone
  BY <1>10, DoneKeeps
<1>11. ASSUME NEW nodes \in Orders, TrashNodes(nodes) \/ RestoreNodes(nodes) \/ DeleteNodes(nodes)
       PROVE  MoveInv'
  <2>1. PICK act \in Acting : BeginAction(act, nodes)
    BY <1>11 DEF TrashNodes, RestoreNodes, DeleteNodes, Acting
  <2> QED
    BY <2>1, BeginActionKeeps
<1>12. CASE ActBatch \/ ActFails
  BY <1>12, ActKeeps
<1>13. CASE EmptyTrash
  BY <1>13, AtOnceKeeps
<1>14. ASSUME NEW n \in Item, NEW f \in Folder, NEW name \in Name, RivalChange(n, f, name)
       PROVE  MoveInv'
  BY <1>14, RivalKeeps
<1> QED
  BY <1>1, <1>2, <1>3, <1>4, <1>5, <1>6, <1>7, <1>8, <1>9, <1>10, <1>11, <1>12, <1>13, <1>14 DEF MoveNext

\* After a batch move, a trash, a restore or a delete, what move_nodes and
\* node_action_stream report of a node is what became of it, or the answer that told
\* was lost or left it out; however many nodes, batches, retries and rivals there are.
THEOREM OutcomesAlwaysTrue == MoveSpec => []OutcomeTellsTruth
<1>1. MoveInv => OutcomeTellsTruth
  BY DEF MoveInv, Truth, OutcomeTellsTruth
<1> QED
  BY <1>1, MoveStart, MoveStep, PTL DEF MoveSpec

\* What other clients did is counted.
RivalsTyped == rivals \in Nat
LEMMA RivalsCounted == MoveSpec => []RivalsTyped
<1>1. MoveInit => RivalsTyped
  BY DEF MoveInit, RivalsTyped
<1>2. RivalsTyped /\ [MoveNext]_moveVars => RivalsTyped'
  <2> SUFFICES ASSUME rivals \in Nat, [MoveNext]_moveVars PROVE rivals' \in {rivals, rivals + 1}
    BY DEF RivalsTyped
  <2>1. CASE UNCHANGED moveVars
    BY <2>1 DEF moveVars
  <2>2. ASSUME NEW n \in Item, ReadNode(n) \/ CopyNode(n) \/ EventArrives(n) PROVE rivals' = rivals
    BY <2>2 DEF ReadNode, CopyNode, EventArrives
  <2>3. ASSUME NEW n \in Item, NEW name \in Name, RenameNode(n, name) \/ RenameAlbum(n, name)
        PROVE  rivals' = rivals
    BY <2>3 DEF RenameNode, RenameAlbum, BeginRename
  <2>4. ASSUME NEW n \in Item, NEW f \in Folder, BeginMove(n, f) PROVE rivals' = rivals
    BY <2>4 DEF BeginMove
  <2>5. CASE BuildParts \/ PartsFail \/ SingleAnswered
    BY <2>5 DEF BuildParts, PartsFail, SingleAnswered
  <2>6. ASSUME NEW nodes \in Orders, NEW f \in Folder, NEW target \in Renamings,
               PrepareMoves(nodes, f, target)
        PROVE  rivals' = rivals
    BY <2>6 DEF PrepareMoves
  <2>7. CASE SubmitBatch \/ BatchFails \/ BatchResent \/ NextReply \/ MovesDone
    BY <2>7 DEF SubmitBatch, BatchFails, BatchResent, NextReply, MovesDone
  <2>8. ASSUME NEW nodes \in Orders, TrashNodes(nodes) \/ RestoreNodes(nodes) \/ DeleteNodes(nodes)
        PROVE  rivals' = rivals
    BY <2>8 DEF TrashNodes, RestoreNodes, DeleteNodes, BeginAction
  <2>9. CASE ActBatch \/ ActFails \/ ActDone \/ EmptyTrash
    BY <2>9 DEF ActBatch, ActFails, ActDone, EmptyTrash
  <2>10. ASSUME NEW n \in Item, NEW f \in Folder, NEW name \in Name, RivalChange(n, f, name)
         PROVE  rivals' = rivals + 1
    BY <2>10 DEF RivalChange
  <2> QED
    BY <2>1, <2>2, <2>3, <2>4, <2>5, <2>6, <2>7, <2>8, <2>9, <2>10 DEF MoveNext
<1> QED
  BY <1>1, <1>2, PTL DEF MoveSpec

\* What changes a place during a batch move, other clients apart, is a batch it sends.
LEMMA SentIs ==
    ASSUME rivals \in Nat, [MoveNext]_moveVars, mpc = "batches", rivals' = rivals, place' # place
    PROVE  queue # <<>> /\ \E granted \in SUBSET Granted(TakeBatch(queue).batch) :
                              place' = Moved(TakeBatch(queue).batch, granted)
<1>1. SubmitBatch \/ BatchFails \/ BatchResent
  <2>2. CASE UNCHANGED moveVars
    BY <2>2 DEF moveVars
  <2>3. ASSUME NEW m \in Item, ReadNode(m) \/ CopyNode(m) \/ EventArrives(m) PROVE FALSE
    BY <2>3 DEF ReadNode, CopyNode, EventArrives
  <2>4. ASSUME NEW m \in Item, NEW name \in Name, RenameNode(m, name) \/ RenameAlbum(m, name)
        PROVE  FALSE
    BY <2>4 DEF RenameNode, RenameAlbum, BeginRename
  <2>5. ASSUME NEW m \in Item, NEW f \in Folder, BeginMove(m, f) PROVE FALSE
    BY <2>5 DEF BeginMove
  <2>6. CASE SingleAnswered \/ ActBatch \/ ActFails \/ ActDone \/ EmptyTrash
    BY <2>6 DEF SingleAnswered, ActBatch, ActFails, ActDone, EmptyTrash
  <2>7. ASSUME NEW nodes \in Orders, NEW f \in Folder, NEW target \in Renamings,
               PrepareMoves(nodes, f, target)
        PROVE  FALSE
    BY <2>7 DEF PrepareMoves
  <2>8. CASE BuildParts \/ PartsFail \/ NextReply \/ MovesDone
    BY <2>8 DEF BuildParts, PartsFail, NextReply, MovesDone
  <2>9. ASSUME NEW nodes \in Orders, TrashNodes(nodes) \/ RestoreNodes(nodes) \/ DeleteNodes(nodes)
        PROVE  FALSE
    BY <2>9 DEF TrashNodes, RestoreNodes, DeleteNodes, BeginAction
  <2>10. ASSUME NEW m \in Item, NEW f \in Folder, NEW name \in Name, RivalChange(m, f, name)
         PROVE  FALSE
    BY <2>10 DEF RivalChange
  <2> QED
    BY <2>2, <2>3, <2>4, <2>5, <2>6, <2>7, <2>8, <2>9, <2>10 DEF MoveNext
<1>2. PICK b : b = TakeBatch(queue).batch
  OBVIOUS
<1>3. \E granted \in SUBSET Granted(b) : place' = Moved(b, granted)
  <2>1. CASE SubmitBatch
    BY <1>2, <2>1 DEF SubmitBatch
  <2>2. CASE BatchResent
    BY <1>2, <2>2 DEF BatchResent
  <2>3. CASE BatchFails
    BY <1>2, <2>3 DEF BatchFails
  <2> QED
    BY <1>1, <2>1, <2>2, <2>3
<1>4. queue # <<>>
  BY <1>1 DEF SubmitBatch, BatchFails, BatchResent
<1> QED
  BY <1>2, <1>3, <1>4

\* A granted item had the hash the server compared, so a kept name is the current one
\* when that hash is the one of what was fetched.
LEMMA NameKept ==
    ASSUME MoveInv, rivals \in Nat, [MoveNext]_moveVars, mpc = "batches", NEW n \in Item,
           rivals' = rivals, place'[n].name # place[n].name
    PROVE  \E i \in 1 .. Len(queue) :
              /\ queue[i].node = n
              /\ \/ ~queue[i].keeps
                 \/ /\ ~queue[i].retried
                    /\ queue[i].original # Hash(queue[i].from.folder, queue[i].from.name)
<1>1. PICK b : b = TakeBatch(queue).batch
  OBVIOUS
<1>2. PICK r : r = TakeBatch(queue).rest
  OBVIOUS
<1>0. PICK granted \in SUBSET Granted(b) : queue # <<>> /\ place' = Moved(b, granted)
  BY <1>1, SentIs
<1>3. PICK i \in granted : b[i].node = n
  BY <1>0 DEF Moved
<1>4. queue \in Seq(Prep) /\ Distinct(queue)
  BY DEF MoveInv, MoveTypes, QueueTypes, OnePerNode
<1>5. /\ Distinct(b) /\ \A k \in 1 .. Len(b) : \E j \in 1 .. Len(queue) : b[k] = queue[j]
  <2>1. CutIn(queue, b, r)
    BY <1>0, <1>1, <1>2, <1>4, TakeIs
  <2> QED
    BY <2>1 DEF CutIn
<1>6. i \in 1 .. Len(b) /\ b[i].original = CurrentHash(n)
  BY <1>3 DEF Granted, Takes
<1>7. PICK j \in 1 .. Len(queue) : b[i] = queue[j]
  BY <1>5, <1>6
<1>8. PICK p : p = queue[j]
  OBVIOUS
<1>9. p.node = n /\ p.original = CurrentHash(n) /\ b[i] = p
  BY <1>3, <1>6, <1>7, <1>8
<1>10. place'[n].name = p.name
  <2>1. PICK c \in granted : c = (CHOOSE k \in granted : b[k].node = n) /\ b[c].node = n
    BY <1>3
  <2>2. c \in 1 .. Len(b)
    BY DEF Granted
  <2>3. c = i
    BY <1>3, <1>5, <1>6, <2>1, <2>2 DEF Distinct
  <2>4. place'[n] = [folder |-> dest, name |-> b[c].name]
    BY <1>0, <1>3, <2>1 DEF Moved
  <2> QED
    BY <1>9, <2>3, <2>4
<1>11. Sane(p)
  BY <1>8 DEF MoveInv, SaneItems
<1>12. ASSUME p.keeps PROVE ~p.retried /\ p.original # Hash(p.from.folder, p.from.name)
  <2>1. p.name = p.from.name
    BY <1>11, <1>12 DEF Sane
  <2>2. p.original # Hash(p.from.folder, p.from.name)
    <3>1. ASSUME p.original = Hash(p.from.folder, p.from.name) PROVE FALSE
      <4>1. <<place[n].folder, place[n].name>> = <<p.from.folder, p.from.name>>
        BY <1>9, <3>1 DEF CurrentHash, Hash
      <4>2. place[n].name = p.from.name
        BY <4>1
      <4> QED
        BY <1>10, <2>1, <4>2
    <3> QED
      BY <3>1
  <2> QED
    BY <1>11, <2>2 DEF Sane
<1> QED
  BY <1>8, <1>9, <1>12

\* A batch move that keeps the names never undoes a rename made meanwhile, except by
\* a first attempt whose hash came out of the cache and is not that of the fetched
\* link: the retry of submit_move_batch goes out only when remote_original_hash finds
\* the node as it was fetched.
THEOREM RivalNamesAlwaysKept == MoveSpec => RivalNameKept
<1>1. MoveInv /\ RivalsTyped /\ [MoveNext]_moveVars =>
        [\A n \in Item :
          (mpc = "batches" /\ rivals' = rivals /\ place'[n].name # place[n].name)
             => \E i \in 1 .. Len(queue) :
                   /\ queue[i].node = n
                   /\ \/ ~queue[i].keeps
                      \/ /\ ~queue[i].retried
                         /\ queue[i].original # Hash(queue[i].from.folder, queue[i].from.name)
        ]_moveVars
  BY NameKept DEF RivalsTyped
<1> QED
  BY <1>1, MoveStart, MoveStep, RivalsCounted, PTL DEF MoveSpec, RivalNameKept

-----------------------------------------------------------------------------
(* The parts together.                                                     *)

\* A run of the composition is a run of each part, so what is proved of a part holds
\* of it in the composition.
THEOREM WritesImplementsParts ==
    WritesSpec => FileSpec /\ MoveSpec /\ AlbumSpec /\ SharingSpec /\ DeviceSpec
<1>1. WritesInit => FileInit /\ MoveInit /\ AlbumInit /\ SharingInit /\ DevicesInit
  BY DEF WritesInit
<1>2. [WritesNext]_writesVars =>
         /\ [FileNext]_fileVars /\ [MoveNext]_moveVars /\ [AlbumNext]_albumVars
         /\ [SharingNext]_sharingVars /\ [DeviceNext]_deviceVars
  BY DEF WritesNext, writesVars
<1> QED
  BY <1>1, <1>2, PTL DEF WritesSpec, FileSpec, MoveSpec, AlbumSpec, SharingSpec, DeviceSpec
=============================================================================
