------------------------------ MODULE KeyWalk ------------------------------
(***************************************************************************)
(* Reading nodes and resolving the keys that decrypt them                  *)
(* (proton-drive-rs/src/client.rs: get_node, enumerate_nodes_detail,       *)
(* get_node_hierarchy, resolve_parent_key_ctx and the ancestor walk).      *)
(*                                                                         *)
(* A link is encrypted to the node key of the folder it is in, a           *)
(* parentless link to the key of the share it is the root of.  A move      *)
(* re-encrypts the link to its new parent and leaves its own key alone, so *)
(* a key is named by the folder or root it belongs to, and decrypting a    *)
(* link fails or gives the key of that link.                               *)
(*                                                                         *)
(* One call is followed; other calls of the client, the event manager and  *)
(* the LRU work on the caches around it, other clients on the tree.  The   *)
(* photos variants take the same steps over their own endpoint and share.  *)
(***************************************************************************)
EXTENDS Integers, Sequences, FiniteSets

CONSTANTS
    Node,        \* the links
    HomeRoot,    \* the My Files root
    DeviceRoot,  \* the roots of registered devices
    SharedRoot,  \* the roots of shares other users may grant us
    NoNode,      \* no link: the parent of a root
    Trees,       \* the trees the server may start with: functions to parents
    Listings,    \* the sets of nodes that are enumerated
    MaxBatch,    \* MAX_BATCH_COUNT
    MaxAncestry, \* bound: ancestors one walk fetches
    MaxChanges   \* bound: what others do to the tree and the caches

Root == {HomeRoot} \cup DeviceRoot \cup SharedRoot

ASSUME RootsAssumption ==
    /\ Root \subseteq Node /\ NoNode \notin Node
    /\ HomeRoot \notin DeviceRoot \cup SharedRoot /\ DeviceRoot \cap SharedRoot = {}
ASSUME TreesAssumption ==
    /\ Trees \subseteq [Node -> Node \cup {NoNode}]
    /\ \A t \in Trees, n \in Node : t[n] = NoNode <=> n \in Root
    /\ \A t \in Trees : \A s \in (SUBSET Node) \ {{}} : \E n \in s : t[n] \notin s \* no loops
    /\ Listings \subseteq SUBSET Node
ASSUME BatchAssumption == MaxBatch \in Nat \ {0} /\ MaxChanges \in Nat /\ MaxAncestry \in Nat

VARIABLES
    parent,     \* server: parent[n], NoNode for a root
    deleted,    \* server: links that are gone
    membership, \* server: the share that grants us a shared root, 0 for none
    keys,       \* DriveCache::folder_keys: keys[n] is empty or holds one key
    known,      \* DriveEntityCache: empty, or the parent the cached node names
    paged,      \* DriveCache::shared_with_me_shares is filled
    index,      \* DriveCache::shared_with_me_shares: the share of each root
    changes,    \* what others did so far
    at,         \* where the call stands
    call,       \* the call: its kind, the nodes it wants, how it ended
    batch,      \* link details fetched
    pending,    \* those whose parent key is still to be resolved
    found,      \* resolve_parent_keys: pairs of a ParentKeyId and a key
    target,     \* the walk: the link whose parent key is wanted
    ancestry,   \* the walk: ancestors fetched, lowest first
    begun,      \* history: changes when the walk began
    visited,    \* get_node_hierarchy: the nodes of the chain
    causes      \* history: what the call met that explains a failure

tree == <<parent, deleted, membership>>
caches == <<keys, known, paged, index>>
walk == <<target, ancestry, begun>>
callVars == <<at, call, batch, pending, found, walk, visited, causes>>
walkVars == <<tree, caches, changes, callVars>>

Link(n) == [id |-> n, parent |-> parent[n]]
Present(n) == n \notin deleted /\ (n \in SharedRoot => membership[n] # 0)

\* The keys: of a folder, and of the share a root belongs to.
NodeKey(n) == <<"node", n>>
ShareKey(r) == <<"share", r>>

\* The key a link's name and passphrase are encrypted to.
EncryptedTo(link) ==
    IF link.parent = NoNode THEN ShareKey(link.id) ELSE NodeKey(link.parent)

\* ParentKeyId::of, the name under which a batch looks a key up.
ParentKeyId(link) ==
    IF link.parent = NoNode THEN ShareKey(link.id) ELSE NodeKey(link.parent)

WalkInit ==
    /\ parent \in Trees
    /\ deleted = {} /\ membership \in [SharedRoot -> {0, 1}]
    /\ \E cached \in SUBSET (Node \ Root) : \E named \in SUBSET (Node \ Root) :
          /\ keys = [n \in Node |-> IF n \in cached THEN {NodeKey(n)} ELSE {}]
          /\ known = [n \in Node |-> IF n \in named THEN {parent[n]} ELSE {}]
    /\ paged = FALSE /\ index = [r \in SharedRoot |-> 0]
    /\ changes = 0
    /\ at = "idle"
    /\ call = [op |-> "get", want |-> {}, result |-> "none"]
    /\ batch = {} /\ pending = {} /\ found = {}
    /\ target = Link(HomeRoot) /\ ancestry = <<>> /\ begun = 0
    /\ visited = {} /\ causes = {}

-----------------------------------------------------------------------------
(* The calls.                                                              *)

Return(result) ==
    /\ at' = "ended"
    /\ call' = [call EXCEPT !.result = result]

Blame(cause) == causes' = causes \cup {cause}

Begin(op, nodes, label) ==
    /\ at = "idle" /\ call.result = "none"
    /\ call' = [op |-> op, want |-> nodes, result |-> "running"]
    /\ at' = label
    /\ visited' = nodes /\ causes' = {}
    /\ batch' = {} /\ pending' = {} /\ found' = {}
    /\ UNCHANGED <<tree, caches, changes, walk>>

BeginGetNode(n) == Begin("get", {n}, "look")
BeginHierarchy(n) == Begin("chain", {n}, "look")
BeginEnumerate(nodes) == Begin("list", nodes, "fetch")

\* folder_node_key: without a cached key, the link is fetched and decrypted.
BeginFolderKey(n) == keys[n] = {} /\ Begin("key", {n}, "fetch")

\* get_node has read a node under parent p: it is returned, or the hierarchy goes
\* on with p, unless p is on the chain already.
Advance(p) ==
    \/ /\ call.op \in {"get", "key"} \/ p = NoNode
       /\ Return("ok") /\ UNCHANGED visited
    \/ /\ call.op = "chain" /\ p \in visited
       /\ Return("failed") /\ UNCHANGED visited
    \/ /\ call.op = "chain" /\ p \notin visited /\ p # NoNode
       /\ call' = [call EXCEPT !.want = {p}]
       /\ visited' = visited \cup {p}
       /\ at' = "look"

\* The entity cache answers, with the parent it remembers.
EntityHit ==
    /\ at = "look"
    /\ \E n \in call.want : \E p \in known[n] :
          /\ Advance(p)
          /\ causes' = IF p = parent[n] THEN causes ELSE causes \cup {"stale"}
    /\ UNCHANGED <<tree, caches, changes, batch, pending, found, walk>>

EntityMiss ==
    /\ at = "look" /\ \A n \in call.want : known[n] = {}
    /\ at' = "fetch"
    /\ UNCHANGED <<tree, caches, changes, call, batch, pending, found, walk, visited, causes>>

\* get_link_details for the nodes wanted; those that are gone are left out.  A
\* node that is not there is no error, a missing ancestor of a chain is.
FetchDetails ==
    /\ at = "fetch"
    /\ LET links == {Link(n) : n \in {m \in call.want : Present(m)}} IN
       /\ batch' = links /\ pending' = links /\ found' = {}
       /\ IF links # {} THEN at' = "resolve" /\ UNCHANGED <<call, causes>>
          ELSE IF call.op = "key" \/ (call.op = "chain" /\ Cardinality(visited) > 1)
               THEN Return("failed") /\ Blame("gone")
               ELSE Return("none") /\ UNCHANGED causes
    /\ UNCHANGED <<tree, caches, changes, walk, visited>>

-----------------------------------------------------------------------------
(* The parent keys of a batch, one walk at a time.                         *)

\* The key is in the folder cache, or was found for another link of the batch.
KeyAtHand(link) ==
    {pair[2] : pair \in {q \in found : q[1] = ParentKeyId(link)}}
        \cup (IF link.parent = NoNode THEN {} ELSE keys[link.parent])

TakeKey(link) ==
    /\ at = "resolve" /\ link \in pending
    /\ \E key \in KeyAtHand(link) : found' = found \cup {<<ParentKeyId(link), key>>}
    /\ pending' = pending \ {link}
    /\ UNCHANGED <<tree, caches, changes, at, call, batch, walk, visited, causes>>

StartWalk(link) ==
    /\ at = "resolve" /\ link \in pending /\ KeyAtHand(link) = {}
    /\ target' = link /\ ancestry' = <<>> /\ begun' = changes
    /\ at' = "climb"
    /\ UNCHANGED <<tree, caches, changes, call, batch, pending, found, visited, causes>>

\* The walk ends with an error: get_node fails, an enumeration skips the link.
WalkFailed ==
    IF call.op = "list"
    THEN /\ pending' = pending \ {target}
         /\ call' = [call EXCEPT !.result = "failed"]
         /\ at' = "resolve"
    ELSE Return("failed") /\ UNCHANGED pending

\* The parent of the topmost ancestor fetched so far.
Above == IF ancestry = <<>> THEN target.parent ELSE ancestry[Len(ancestry)].parent

\* cached_ancestor_run: as far up as the entity cache names parents whose keys are
\* not cached.
AncestorRuns(first) ==
    LET named == {p \in Node : keys[p] = {} /\ \E n \in Node : p \in known[n]}
    IN  {run \in UNION {[1 .. k -> {first} \cup named] : k \in 1 .. MaxBatch} :
            /\ run[1] = first
            /\ \A i \in 1 .. Len(run) - 1 : run[i + 1] \in named \cap known[run[i]]}

AncestorRun(first) ==
    LET runs == AncestorRuns(first)
    IN  CHOOSE run \in runs : \A other \in runs : Len(other) <= Len(run)

\* The run is fetched in one request and each of its links taken out once.  The code
\* has no limit: a walk that circles (see ClimbsTheTree) is cut off by MaxAncestry.
Climb ==
    /\ at = "climb" /\ Above # NoNode /\ keys[Above] = {} /\ Len(ancestry) < MaxAncestry
    /\ LET run == AncestorRun(Above)
           misled == \E i \in 1 .. Len(run) - 1 : parent[run[i]] # run[i + 1]
           repeated == \E i, j \in 1 .. Len(run) : i # j /\ run[i] = run[j]
       IN  /\ causes' = causes \cup (IF misled \/ repeated THEN {"stale"} ELSE {})
                               \cup {"gone" : i \in {j \in 1 .. Len(run) : ~Present(run[j])}}
           /\ IF repeated \/ \E i \in 1 .. Len(run) : ~Present(run[i])
              THEN WalkFailed /\ UNCHANGED ancestry
              ELSE /\ ancestry' = ancestry \o [i \in 1 .. Len(run) |-> Link(run[i])]
                   /\ UNCHANGED <<at, call, pending>>
    /\ UNCHANGED <<tree, caches, changes, batch, found, target, begun, visited>>

\* Mutant of Descend: a key is put under the uid of the folder above it.
DescendOffByOne(base) ==
    LET KeyOf(i) == IF i > Len(ancestry) THEN base ELSE NodeKey(ancestry[i].id)
        open == {i \in 1 .. Len(ancestry) :
                    \A j \in i .. Len(ancestry) : KeyOf(j + 1) = EncryptedTo(ancestry[j])}
    IN  /\ keys' = [n \in Node |->
                       IF \E i \in open : ancestry[i].id = n
                       THEN {KeyOf(i + 1) : i \in {j \in open : ancestry[j].id = n}}
                       ELSE keys[n]]
        /\ IF open = 1 .. Len(ancestry)
           THEN /\ found' = found \cup {<<ParentKeyId(target), KeyOf(1)>>}
                /\ pending' = pending \ {target}
                /\ at' = "resolve" /\ UNCHANGED call
           ELSE WalkFailed /\ UNCHANGED found

\* From the key at the top, the ancestors are decrypted downward and their keys
\* cached; the last one is the key wanted.
Descend(base) ==
    LET KeyOf(i) == IF i > Len(ancestry) THEN base ELSE NodeKey(ancestry[i].id)
        open == {i \in 1 .. Len(ancestry) :
                    \A j \in i .. Len(ancestry) : KeyOf(j + 1) = EncryptedTo(ancestry[j])}
    IN  /\ keys' = [n \in Node |->
                       IF \E i \in open : ancestry[i].id = n THEN {NodeKey(n)} ELSE keys[n]]
        /\ IF open = 1 .. Len(ancestry)
           THEN /\ found' = found \cup {<<ParentKeyId(target), KeyOf(1)>>}
                /\ pending' = pending \ {target}
                /\ at' = "resolve" /\ UNCHANGED call
           ELSE WalkFailed /\ UNCHANGED found

\* The walk has reached a folder whose key is cached.
FromCachedKey ==
    /\ at = "climb" /\ Above # NoNode
    /\ \E key \in keys[Above] : Descend(key)
    /\ UNCHANGED <<tree, known, paged, index, changes, batch, walk, visited, causes>>

TopRoot == IF ancestry = <<>> THEN target.id ELSE ancestry[Len(ancestry)].id

\* root_link_share_key for the My Files root.
FromHomeShare ==
    /\ at = "climb" /\ Above = NoNode /\ TopRoot = HomeRoot
    /\ Descend(ShareKey(HomeRoot))
    /\ UNCHANGED <<tree, known, paged, index, changes, batch, walk, visited, causes>>

\* The device listing names the root: its share's key.
FromDeviceShare ==
    /\ at = "climb" /\ Above = NoNode /\ TopRoot \in DeviceRoot
    /\ Descend(ShareKey(TopRoot))
    /\ UNCHANGED <<tree, known, paged, index, changes, batch, walk, visited, causes>>

\* shared_with_me_share_key: the listing, paged again when a cached one misses.
ShareIndex ==
    IF paged /\ (TopRoot \in SharedRoot => index[TopRoot] # 0) THEN index ELSE membership

\* The root is looked up among the shares granted to us; when it is not there the
\* My Files key is taken.  A failed device listing is passed over and ends here too.
FromSharedWithMe ==
    /\ at = "climb" /\ Above = NoNode /\ TopRoot # HomeRoot
    /\ paged' = TRUE /\ index' = ShareIndex
    /\ IF TopRoot \in SharedRoot /\ index'[TopRoot] # 0
       THEN IF index'[TopRoot] = membership[TopRoot]
            THEN Descend(ShareKey(TopRoot)) /\ UNCHANGED causes
            ELSE WalkFailed /\ Blame("share replaced") /\ UNCHANGED <<keys, found>>
       ELSE /\ Descend(ShareKey(HomeRoot))
            /\ IF TopRoot \in DeviceRoot THEN Blame("devices request failed")
               ELSE IF membership[TopRoot] = 0 THEN Blame("gone") ELSE UNCHANGED causes
    /\ UNCHANGED <<tree, known, changes, batch, walk, visited>>

\* A request of the walk fails.
WalkRequestFails ==
    /\ at = "climb" /\ changes < MaxChanges
    /\ changes' = changes + 1
    /\ WalkFailed /\ Blame("request failed")
    /\ UNCHANGED <<tree, caches, batch, found, walk, visited>>

\* build_node_ctx for every link whose key was found: decrypt, cache the folder
\* key, put the node into the entity cache.
BuildNodes ==
    /\ at = "resolve" /\ pending = {}
    /\ LET built == {l \in batch : <<ParentKeyId(l), EncryptedTo(l)>> \in found} IN
       /\ keys' = [n \in Node |-> IF \E l \in built : l.id = n THEN {NodeKey(n)} ELSE keys[n]]
       /\ known' = [n \in Node |-> IF call.op # "key" /\ \E l \in built : l.id = n
                                   THEN {l.parent : l \in {m \in built : m.id = n}} ELSE known[n]]
       /\ IF call.op = "list"
          THEN /\ Return(IF built = batch THEN "ok" ELSE "failed") /\ UNCHANGED visited
          ELSE IF built = batch THEN \E l \in batch : Advance(l.parent)
          ELSE Return("failed") /\ UNCHANGED visited
    /\ UNCHANGED <<tree, paged, index, changes, batch, pending, found, walk, causes>>

CallStep ==
    \/ EntityHit \/ EntityMiss \/ FetchDetails
    \/ \E link \in pending : TakeKey(link) \/ StartWalk(link)
    \/ Climb \/ FromCachedKey \/ FromHomeShare \/ FromDeviceShare \/ FromSharedWithMe
    \/ BuildNodes

-----------------------------------------------------------------------------
(* Others.                                                                 *)

Disturb == at # "ended" /\ changes < MaxChanges /\ changes' = changes + 1

\* m is the folder n or below it: in every set that has n and, with a node, its children.
Inside(m, n) ==
    \A s \in SUBSET (Node \ Root) : n \in s /\ (\A k \in Node : parent[k] \in s => k \in s) => m \in s

\* Another client moves a folder, but not into itself; during a hierarchy walk that explains a loop.
Move(n, p) ==
    /\ Disturb
    /\ n \in Node \ Root /\ Present(n) /\ Present(p) /\ p # parent[n]
    /\ ~Inside(p, n)
    /\ parent' = [parent EXCEPT ![n] = p]
    /\ causes' = IF call.op = "chain" THEN causes \cup {"moved"} ELSE causes
    /\ UNCHANGED <<deleted, membership, caches, at, call, batch, pending, found, walk, visited>>

DeleteNode(n) ==
    /\ Disturb
    /\ n \in Node \ Root /\ Present(n) /\ \A m \in Node : parent[m] # n
    /\ deleted' = deleted \cup {n}
    /\ UNCHANGED <<parent, membership, caches, callVars>>

\* A share is granted to us, taken back, or granted anew under another id.
Grant(r) ==
    /\ Disturb
    /\ membership' = [membership EXCEPT ![r] = IF @ = 0 THEN changes + 2 ELSE 0]
    /\ UNCHANGED <<parent, deleted, caches, callVars>>

\* An event names a node: its key and its entry are dropped.
InvalidateNode(n) ==
    /\ Disturb
    /\ keys' = [keys EXCEPT ![n] = {}] /\ known' = [known EXCEPT ![n] = {}]
    /\ UNCHANGED <<tree, paged, index, callVars>>

\* Another call of this client pages the listing of what is shared with us.
ListSharedWithMe ==
    /\ Disturb
    /\ paged' = TRUE /\ index' = membership
    /\ UNCHANGED <<tree, keys, known, callVars>>

WalkNext ==
    \/ \E n \in Node : BeginGetNode(n) \/ BeginHierarchy(n) \/ BeginFolderKey(n)
    \/ \E nodes \in Listings : BeginEnumerate(nodes)
    \/ CallStep \/ WalkRequestFails
    \/ \E n, p \in Node : Move(n, p)
    \/ \E n \in Node : DeleteNode(n) \/ InvalidateNode(n)
    \/ \E r \in SharedRoot : Grant(r)
    \/ ListSharedWithMe

WalkSpec == WalkInit /\ [][WalkNext]_walkVars

-----------------------------------------------------------------------------
(* Properties.                                                             *)

\* A call fails, or an enumeration leaves out a node it fetched, only for a cause:
\* the entity cache named a parent the node no longer has, a node or a grant is
\* gone, a request failed.  In particular neither moves of the ancestors during the
\* walk nor several roots in one batch make a readable node unreadable.
FailureHasCause == at = "ended" /\ call.result = "failed" => causes # {}

\* Whatever is moved, evicted and fetched in between, the folder cache holds under
\* a node's uid nothing but that node's key.
FolderKeysRight == \A n \in Node : keys[n] \subseteq {NodeKey(n)}

\* Key resolution is complete and sound: a readable node is read, with its own key,
\* and a folder's key is kept under that folder only.  (Of the calls that end.)
KeysResolved == FailureHasCause /\ FolderKeysRight

\* Where a walk that fetches the run from x upward goes on.
After(x) == parent[AncestorRun(x)[Len(AncestorRun(x))]]

\* From x on every fetch succeeds and leads to another folder of a set none of whose
\* keys is cached: as long as tree and caches stay as they are the loop never leaves it.
Circles(x) ==
    \E s \in SUBSET Node :
        /\ x \in s
        /\ \A y \in s :
              /\ keys[y] = {} /\ After(y) \in s
              /\ LET run == AncestorRun(y) IN
                 \A i, j \in 1 .. Len(run) : Present(run[i]) /\ (run[i] = run[j] => i = j)

\* What the comments on the walk say: it climbs until it reaches a cached key or a
\* root, and fetches no ancestor a walk one level at a time would not fetch.  So a
\* walk around which nothing has changed is on its way to one of the two.
ClimbsTheTree == at = "climb" /\ begun = changes => ~Circles(Above)
=============================================================================
