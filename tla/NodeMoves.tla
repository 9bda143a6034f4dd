----------------------------- MODULE NodeMoves -----------------------------
(***************************************************************************)
(* Renaming, moving, copying, trashing and deleting nodes                  *)
(* (proton-drive-rs/src/client.rs: rename_node, move_node, copy_node,      *)
(* move_nodes with prepare_moves and submit_moves, node_action_stream).    *)
(*                                                                         *)
(* A rename or move names the hash of the node's current name, which the   *)
(* server compares with the one it holds.  The links are fetched first;    *)
(* later, node by node, the hash is taken from the entity cache, which     *)
(* other calls fill and events clear meanwhile, or else from the link.  A  *)
(* hash is determined by the folder and the name, so it is modelled by the *)
(* pair.                                                                   *)
(* A batch item refused for its hash is tried once more with the server's  *)
(* hash, provided the node still has the folder and the name it had when   *)
(* the move was prepared.                                                  *)
(***************************************************************************)
EXTENDS Selections

CONSTANTS
    Item,         \* nodes
    Anonymous,    \* those signed anonymously
    Folder,       \* folders they are in and moved to
    Name,         \* names
    MaxPerBatch,  \* MAX_BATCH_COUNT
    Start,        \* where the nodes are at first: functions to a folder and a name
    Renamings,    \* what moves rename: functions to an empty or one-name tuple
    MaxRivals,    \* bound: renames and moves by other clients
    MaxCalls      \* bound: calls made

ASSUME ItemsAssumption == Anonymous \subseteq Item /\ MaxPerBatch \in Nat \ {0}
ASSUME StartAssumption ==
    /\ Start \subseteq [Item -> [folder : Folder, name : Name]]
    /\ \A start \in Start : \A n, m \in Item : start[n] = start[m] => n = m
    /\ Renamings \subseteq [Item -> {<<>>} \cup {<<a>> : a \in Name}]
ASSUME MoveBounds == MaxRivals \in Nat /\ MaxCalls \in Nat

VARIABLES
    place,       \* server: place[n] is the folder and the name of n
    life,        \* server: "live", "trashed" or "gone"
    remembered,  \* entity cache: the hash kept for n, or none
    rivals,      \* what other clients did so far
    calls,       \* calls made so far
    mpc,         \* what the client is doing
    dest,        \* the folder moved to
    queue,       \* MoveRun::queue, node_action_stream: what is still to be sent
    replies,     \* answered items of the last batch, to be gone through
    asked,       \* the nodes of the last call, if it was a batch move
    outcome,     \* outcome[n]: what the call reported of n
    applied,     \* history: nodes on which the call took effect
    unsure,      \* history: nodes sent in a request whose answer was lost or left them out
    touched      \* history: nodes other clients changed

moveVars == <<place, life, remembered, rivals, calls, mpc, dest, queue, replies, asked, outcome,
              applied, unsure, touched>>

NoHash == <<>>
Hash(f, name) == <<f, name>>
CurrentHash(n) == Hash(place[n].folder, place[n].name)

MoveInit ==
    /\ place \in Start
    /\ life = [n \in Item |-> "live"]
    /\ remembered = [n \in Item |-> NoHash]
    /\ rivals = 0 /\ calls = 0
    /\ mpc = "idle" /\ dest = (CHOOSE f \in Folder : TRUE)
    /\ queue = <<>> /\ replies = <<>>
    /\ asked = {} /\ outcome = [n \in Item |-> "none"]
    /\ applied = {} /\ unsure = {} /\ touched = {}

\* get_node and every read like it, by any task and whatever call is under way: the
\* entity cache keeps the name hash.
ReadNode(n) ==
    /\ life[n] # "gone" /\ remembered[n] # CurrentHash(n)
    /\ remembered' = [remembered EXCEPT ![n] = CurrentHash(n)]
    /\ UNCHANGED <<place, life, rivals, calls, mpc, dest, asked, queue, replies, outcome, applied,
                   unsure, touched>>

\* A move for which the link is fetched and nothing built yet; target is the name to
\* take, or the empty tuple to keep the name.
Fetched(n, target) ==
    [node |-> n, from |-> place[n], original |-> NoHash,
     name |-> IF target = <<>> THEN place[n].name ELSE target[1],
     keeps |-> target = <<>>, anonymous |-> n \in Anonymous, retried |-> FALSE]

\* cached_original_name_hash, original_name_hash: the cache, then the fetched link.
OriginalHash(p) ==
    IF remembered[p.node] # NoHash THEN remembered[p.node] ELSE Hash(p.from.folder, p.from.name)

\* The first move of which nothing is built is the i-th; all are built.
Unbuilt(i) == queue[i].original = NoHash /\ \A j \in 1 .. i - 1 : queue[j].original # NoHash
Built == \A i \in 1 .. Len(queue) : queue[i].original # NoHash

\* The server takes a rename or move of n to a folder and name.
Takes(p, f) ==
    /\ life[p.node] = "live"
    /\ p.original = CurrentHash(p.node)
    /\ \A m \in Item \ {p.node} : life[m] = "live" => place[m] # [folder |-> f, name |-> p.name]

Reset ==
    /\ asked' = {}
    /\ outcome' = [n \in Item |-> "none"]
    /\ applied' = {} /\ unsure' = {} /\ replies' = <<>>

-----------------------------------------------------------------------------
(* rename_node, move_node, copy_node: one node, one request.               *)

\* The link is fetched.
BeginRename(n, name) ==
    /\ mpc = "idle" /\ calls < MaxCalls /\ life[n] = "live"
    /\ calls' = calls + 1
    /\ queue' = <<Fetched(n, <<name>>)>>
    /\ dest' = place[n].folder
    /\ mpc' = "single" /\ Reset
    /\ UNCHANGED <<place, life, remembered, rivals, touched>>

RenameNode(n, name) == BeginRename(n, name)

\* rename_album: an album is a child of the photos root; only the route differs.
RenameAlbum(n, name) == BeginRename(n, name)

BeginMove(n, f) ==
    /\ mpc = "idle" /\ calls < MaxCalls /\ life[n] = "live"
    /\ calls' = calls + 1
    /\ queue' = <<Fetched(n, <<>>)>>
    /\ dest' = f
    /\ mpc' = "single" /\ Reset
    /\ UNCHANGED <<place, life, remembered, rivals, touched>>

\* build_move_parts, and the same in rename_node: keys are awaited, then the hash is
\* read and the request built.
BuildParts ==
    /\ mpc \in {"single", "batches"}
    /\ \E i \in 1 .. Len(queue) :
          /\ Unbuilt(i)
          /\ queue' = [queue EXCEPT ![i].original = OriginalHash(queue[i])]
    /\ UNCHANGED <<place, life, remembered, rivals, calls, mpc, dest, asked, replies, outcome, applied,
                   unsure, touched>>

\* A key or a hash is not to be had: the node has its outcome, the others go on.
PartsFail ==
    /\ mpc \in {"single", "batches"}
    /\ \E i \in 1 .. Len(queue) :
          /\ Unbuilt(i)
          /\ queue' = Picked(queue, (1 .. Len(queue)) \ {i})
          /\ outcome' = [outcome EXCEPT ![queue[i].node] = "failed"]
    /\ mpc' = IF mpc = "single" THEN "idle" ELSE mpc
    /\ UNCHANGED <<place, life, remembered, rivals, calls, dest, asked, replies, applied, unsure, touched>>

\* A rename keeps the folder the server has, whatever was fetched.
Target(p) == IF p.keeps \/ mpc = "batches" THEN dest ELSE place[p.node].folder

\* The request is answered; nothing is retried and no cache is touched.
SingleAnswered ==
    /\ mpc = "single" /\ Built
    /\ LET p == Head(queue) IN
       IF Takes(p, Target(p))
       THEN /\ place' = [place EXCEPT ![p.node] = [folder |-> Target(p), name |-> p.name]]
            /\ outcome' = [outcome EXCEPT ![p.node] = "ok"]
            /\ applied' = {p.node}
       ELSE /\ outcome' = [outcome EXCEPT ![p.node] =
                               IF p.original = CurrentHash(p.node) THEN "refused" ELSE "wrong hash"]
            /\ UNCHANGED <<place, applied>>
    /\ mpc' = "idle" /\ queue' = <<>>
    /\ UNCHANGED <<life, remembered, rivals, calls, dest, asked, replies, unsure, touched>>

\* copy_node: nothing about the source is compared or changed; a new node appears,
\* which is not followed.
CopyNode(n) ==
    /\ mpc = "idle" /\ calls < MaxCalls /\ life[n] = "live"
    /\ calls' = calls + 1 /\ Reset
    /\ UNCHANGED <<place, life, remembered, rivals, mpc, dest, queue, touched>>

-----------------------------------------------------------------------------
(* move_nodes: the links, the parts of each move, then batch by batch.     *)

\* One lookup for all nodes; one that is not found has its outcome already.  A node
\* listed twice is moved once, so the input is a sequence without repetition.
PrepareMoves(nodes, f, target) ==
    /\ mpc = "idle" /\ calls < MaxCalls
    /\ calls' = calls + 1
    /\ dest' = f /\ asked' = {nodes[i] : i \in 1 .. Len(nodes)}
    /\ queue' = LET found == Picked(nodes, {i \in 1 .. Len(nodes) : life[nodes[i]] # "gone"})
                IN  [i \in 1 .. Len(found) |-> Fetched(found[i], target[found[i]])]
    /\ outcome' = [n \in Item |->
                      IF \E i \in 1 .. Len(nodes) : nodes[i] = n /\ life[n] = "gone"
                      THEN "not found" ELSE "none"]
    /\ applied' = {} /\ unsure' = {} /\ replies' = <<>>
    /\ mpc' = "batches"
    /\ UNCHANGED <<place, life, remembered, rivals, touched>>

\* Mutant of TakeBatch: the nodes that are signed otherwise are dropped.
TakeBatchOnly(q) ==
    [batch |-> Picked(q, {i \in 1 .. Len(q) : q[i].anonymous = Head(q).anonymous}),
     rest |-> <<>>]

\* take_move_batch: from the front, at most MaxPerBatch, all signed the same way.
TakeBatch(q) ==
    LET alike == Picked(q, {i \in 1 .. Len(q) : q[i].anonymous = Head(q).anonymous})
        batch == SubSeq(alike, 1, IF Len(alike) < MaxPerBatch THEN Len(alike) ELSE MaxPerBatch)
    IN  [batch |-> batch,
         rest |-> Picked(q, {i \in 1 .. Len(q) : \A j \in 1 .. Len(batch) : batch[j] # q[i]})]

\* The server goes through a batch; of two items for one name the first gets it.
Granted(batch) ==
    {i \in 1 .. Len(batch) :
        /\ Takes(batch[i], dest)
        /\ \A j \in 1 .. i - 1 : Takes(batch[j], dest) => batch[j].name # batch[i].name}

Moved(batch, granted) ==
    [n \in Item |-> IF \E i \in granted : batch[i].node = n
                    THEN [folder |-> dest,
                          name |-> batch[CHOOSE i \in granted : batch[i].node = n].name]
                    ELSE place[n]]

NodesOf(batch) == {batch[i].node : i \in 1 .. Len(batch)}

\* The answer to a batch: a code for each item, or none.
Answers(batch, granted, silent) ==
    [i \in 1 .. Len(batch) |->
        [item |-> batch[i],
         code |-> IF i \in silent THEN "no response"
                  ELSE IF i \in granted THEN "ok"
                  ELSE IF batch[i].original # CurrentHash(batch[i].node) THEN "wrong hash"
                  ELSE "refused"]]

\* submit_move_batch, answered; the answer may leave items out, whether they were dealt
\* with or not.
SubmitBatch ==
    /\ mpc = "batches" /\ replies = <<>> /\ queue # <<>> /\ Built
    /\ LET taken == TakeBatch(queue)
           all == 1 .. Len(taken.batch)
       IN  /\ \E granted, silent \in SUBSET all :
                /\ Granted(taken.batch) \ silent \subseteq granted
                /\ granted \subseteq Granted(taken.batch)
                /\ place' = Moved(taken.batch, granted)
                /\ applied' = applied \cup {taken.batch[i].node : i \in granted}
                /\ unsure' = unsure \cup {taken.batch[i].node : i \in silent}
                /\ replies' = Answers(taken.batch, granted, silent)
           /\ queue' = taken.rest
    /\ UNCHANGED <<life, remembered, rivals, calls, mpc, dest, asked, outcome, touched>>

\* The request fails as a whole, with or without effect: every node is charged.
BatchFails ==
    /\ mpc = "batches" /\ replies = <<>> /\ queue # <<>> /\ Built
    /\ LET taken == TakeBatch(queue) IN
       /\ \E granted \in {{}, Granted(taken.batch)} :
             /\ place' = Moved(taken.batch, granted)
             /\ applied' = applied \cup {taken.batch[i].node : i \in granted}
       /\ queue' = taken.rest
       /\ unsure' = unsure \cup NodesOf(taken.batch)
       /\ outcome' = [n \in Item |-> IF n \in NodesOf(taken.batch) THEN "failed" ELSE outcome[n]]
    /\ UNCHANGED <<life, remembered, rivals, calls, mpc, dest, asked, replies, touched>>

\* The server deals with the request, the answer is lost, and the transport will send
\* the batch again: the second copy finds what the first one left.
BatchResent ==
    /\ mpc = "batches" /\ replies = <<>> /\ queue # <<>> /\ Built
    /\ LET batch == TakeBatch(queue).batch IN
       /\ place' = Moved(batch, Granted(batch))
       /\ applied' = applied \cup {batch[i].node : i \in Granted(batch)}
       /\ unsure' = unsure \cup NodesOf(batch)
    /\ UNCHANGED <<life, remembered, rivals, calls, mpc, dest, asked, queue, replies, outcome, touched>>

\* Mutant of StillAsPrepared: only the folder is compared.
StillAsPreparedFolder(p) ==
    life[p.node] # "gone" /\ place[p.node].folder = p.from.folder

\* remote_original_hash: the node is where it was, under the name it had.
StillAsPrepared(p) == life[p.node] # "gone" /\ place[p.node] = p.from

\* The next item of an answered batch: reported, or queued again with the hash the
\* server has now.
NextReply ==
    /\ mpc = "batches" /\ replies # <<>>
    /\ replies' = Tail(replies)
    /\ LET p == Head(replies).item
           code == Head(replies).code
       IN  IF code = "wrong hash" /\ ~p.retried
           THEN IF StillAsPrepared(p)
                THEN /\ queue' = Append(queue, [p EXCEPT !.original = CurrentHash(p.node),
                                                         !.retried = TRUE])
                     /\ UNCHANGED outcome
                ELSE /\ outcome' = [outcome EXCEPT ![p.node] = "out of sync"]
                     /\ UNCHANGED queue
           ELSE /\ outcome' = [outcome EXCEPT ![p.node] = code]
                /\ UNCHANGED queue
    /\ UNCHANGED <<place, life, remembered, rivals, calls, mpc, dest, asked, applied, unsure, touched>>

MovesDone ==
    /\ mpc = "batches" /\ replies = <<>> /\ queue = <<>>
    /\ mpc' = "idle"
    /\ UNCHANGED <<place, life, remembered, rivals, calls, dest, asked, queue, replies, outcome,
                   applied, unsure, touched>>

-----------------------------------------------------------------------------
(* trash_nodes, restore_nodes, delete_nodes, empty_trash.                  *)

Before(act) == IF act = "trash" THEN "live" ELSE "trashed"
After(act) == CASE act = "trash" -> "trashed" [] act = "restore" -> "live" [] OTHER -> "gone"

\* The nodes are cut into batches.
BeginAction(act, nodes) ==
    /\ mpc = "idle" /\ calls < MaxCalls
    /\ calls' = calls + 1
    /\ mpc' = act
    /\ queue' = LET size == (Len(nodes) + MaxPerBatch - 1) \div MaxPerBatch
                    end(i) == IF i * MaxPerBatch < Len(nodes) THEN i * MaxPerBatch ELSE Len(nodes)
                IN  [i \in 1 .. size |-> SubSeq(nodes, (i - 1) * MaxPerBatch + 1, end(i))]
    /\ Reset
    /\ UNCHANGED <<place, life, remembered, rivals, dest, touched>>

TrashNodes(nodes) == BeginAction("trash", nodes)
RestoreNodes(nodes) == BeginAction("restore", nodes)
DeleteNodes(nodes) == BeginAction("delete", nodes)

\* Restoring needs a free name.
Acted(batch) ==
    {n \in {batch[i] : i \in 1 .. Len(batch)} :
        /\ life[n] = Before(mpc)
        /\ mpc = "restore" => \A m \in Item \ {n} : life[m] = "live" => place[m] # place[n]}

\* Only the links the server reports on get an outcome.
ReportedOn(batch, acted, silent) ==
    [n \in Item |-> IF n \notin Members(batch) \ silent THEN outcome[n]
                    ELSE IF n \in acted THEN "ok" ELSE "refused"]

\* A link the answer leaves out may have been dealt with or not.
ActBatch ==
    /\ mpc \in {"trash", "restore", "delete"} /\ queue # <<>>
    /\ LET batch == Head(queue) IN
       \E acted, silent \in SUBSET Members(batch) :
          /\ Acted(batch) \ silent \subseteq acted /\ acted \subseteq Acted(batch)
          /\ life' = [n \in Item |-> IF n \in acted THEN After(mpc) ELSE life[n]]
          /\ applied' = applied \cup acted
          /\ unsure' = unsure \cup silent
          /\ outcome' = ReportedOn(batch, acted, silent)
    /\ queue' = Tail(queue)
    /\ UNCHANGED <<place, remembered, rivals, calls, mpc, dest, asked, replies, touched>>

\* A failed request ends the stream; its nodes and the rest get no outcome.
ActFails ==
    /\ mpc \in {"trash", "restore", "delete"} /\ queue # <<>>
    /\ LET batch == Head(queue) IN
       /\ \E acted \in {{}, Acted(batch)} :
             /\ life' = [n \in Item |-> IF n \in acted THEN After(mpc) ELSE life[n]]
             /\ applied' = applied \cup acted
       /\ unsure' = unsure \cup {batch[i] : i \in 1 .. Len(batch)}
    /\ queue' = <<>>
    /\ UNCHANGED <<place, remembered, rivals, calls, mpc, dest, asked, replies, outcome, touched>>

ActDone ==
    /\ mpc \in {"trash", "restore", "delete"} /\ queue = <<>>
    /\ mpc' = "idle"
    /\ UNCHANGED <<place, life, remembered, rivals, calls, dest, asked, queue, replies, outcome,
                   applied, unsure, touched>>

EmptyTrash ==
    /\ mpc = "idle" /\ calls < MaxCalls
    /\ calls' = calls + 1
    /\ life' = [n \in Item |-> IF life[n] = "trashed" THEN "gone" ELSE life[n]]
    /\ Reset
    /\ UNCHANGED <<place, remembered, rivals, mpc, dest, queue, touched>>

-----------------------------------------------------------------------------
(* Other clients, and the events that tell of them.                        *)

RivalChange(n, f, name) ==
    /\ rivals < MaxRivals /\ rivals' = rivals + 1
    /\ life[n] = "live" /\ place[n] # [folder |-> f, name |-> name]
    /\ \A m \in Item \ {n} : life[m] = "live" => place[m] # [folder |-> f, name |-> name]
    /\ place' = [place EXCEPT ![n] = [folder |-> f, name |-> name]]
    /\ touched' = touched \cup {n}
    /\ UNCHANGED <<life, remembered, calls, mpc, dest, asked, queue, replies, outcome, applied, unsure>>

\* invalidate_caches_for_event drops the entry.
EventArrives(n) ==
    /\ remembered[n] # NoHash
    /\ remembered' = [remembered EXCEPT ![n] = NoHash]
    /\ UNCHANGED <<place, life, rivals, calls, mpc, dest, asked, queue, replies, outcome, applied,
                   unsure, touched>>

Orders == {s \in UNION {[1 .. k -> Item] : k \in 1 .. Cardinality(Item)} :
              \A i, j \in DOMAIN s : s[i] = s[j] => i = j}

MoveNext ==
    \/ \E n \in Item : ReadNode(n) \/ CopyNode(n) \/ EventArrives(n)
    \/ \E n \in Item, name \in Name : RenameNode(n, name) \/ RenameAlbum(n, name)
    \/ \E n \in Item, f \in Folder : BeginMove(n, f)
    \/ BuildParts \/ PartsFail \/ SingleAnswered
    \/ \E nodes \in Orders, f \in Folder, target \in Renamings :
          PrepareMoves(nodes, f, target)
    \/ SubmitBatch \/ BatchFails \/ BatchResent \/ NextReply \/ MovesDone
    \/ \E nodes \in Orders : TrashNodes(nodes) \/ RestoreNodes(nodes) \/ DeleteNodes(nodes)
    \/ ActBatch \/ ActFails \/ ActDone \/ EmptyTrash
    \/ \E n \in Item, f \in Folder, name \in Name : RivalChange(n, f, name)

MoveSpec == MoveInit /\ [][MoveNext]_moveVars

-----------------------------------------------------------------------------
(* Properties.                                                             *)

\* When a batch move is over every node of it has an outcome, and after it or a
\* trash, restore or delete a node reported ok has been changed, and one that was
\* changed is reported ok unless the answer that said so was lost or left it out.
OutcomeTellsTruth ==
    mpc = "idle" => \A n \in Item : /\ n \in asked => outcome[n] # "none"
                                    /\ outcome[n] = "ok" => n \in applied
                                    /\ n \in applied => outcome[n] = "ok" \/ n \in unsure

\* A batch move that keeps the names never takes back a name another client gave the
\* node meanwhile: neither the first attempt, nor a copy of it, nor the retry with the
\* server's hash.  The exception is a first attempt whose hash the cache supplied and
\* which is not that of the fetched link: one kept from before, or one that a read by
\* another call left there after the link was fetched.
RivalNameKept ==
    [][\A n \in Item :
          (mpc = "batches" /\ rivals' = rivals /\ place'[n].name # place[n].name)
             => \E i \in 1 .. Len(queue) :
                   /\ queue[i].node = n
                   /\ \/ ~queue[i].keeps
                      \/ /\ ~queue[i].retried
                         /\ queue[i].original # Hash(queue[i].from.folder, queue[i].from.name)
      ]_moveVars

\* What the comment on rename_node says: it sends the node's current name hash.  So
\* a node no other client has touched is never refused for its hash.
CurrentHashSent == \A n \in Item : outcome[n] = "wrong hash" => n \in touched
=============================================================================
