------------------------------ MODULE Visitor ------------------------------
(***************************************************************************)
(* A visitor of a public link (public_link.rs): the handshake that opens   *)
(* it, and the crawl of the shared subtree, enumerate_subtree_reporting.   *)
(*                                                                         *)
(* The crawl lists one level of folders after another, several listings at *)
(* a time and their results in the order of the level; a listing asks for  *)
(* the children's ids, then for their details, then for the key of each    *)
(* child's parent, climbing to a key the client holds.  The owner moves,   *)
(* deletes and re-secures things meanwhile, and any request may fail.  How *)
(* an expired session is renewed under a request is BlockTargets.          *)
(***************************************************************************)
EXTENDS Selections

CONSTANTS
    VisitedLink, Directory,    \* the links of the volume, and which of them are folders
    TopLink,                \* the shared folder
    Nowhere,            \* the parent of what is outside the share, or deleted
    TopTrees,           \* where the links may be to begin with
    MaxListings,        \* MAX_CONCURRENT_FOLDER_LISTINGS
    MaxUpsets,          \* bound: moves, deletions and changes of the link's secret
    MaxOutages          \* bound: requests that fail

ASSUME VisitorAssumption ==
    /\ IsFiniteSet(VisitedLink) /\ TopLink \in Directory /\ Directory \subseteq VisitedLink
    /\ Nowhere \notin VisitedLink
    /\ TopTrees \subseteq [VisitedLink -> Directory \cup {Nowhere}]
    /\ \A tree \in TopTrees : tree[TopLink] = Nowhere
    /\ MaxListings \in Nat \ {0} /\ MaxUpsets \in Nat /\ MaxOutages \in Nat

VARIABLES
    within,     \* server: [VisitedLink -> its folder]
    secret,     \* server: [password, legacy, gone] of the public link
    visit,      \* the client: where the handshake is, and the password it holds
    level,      \* the folders of the level being listed
    listings,   \* [index in level -> the listing of that folder]
    yielded,    \* how many listings of the level have been taken
    below,      \* the folders of the next level
    gathered,      \* the nodes gathered
    unlocked,   \* node_keys
    upsets, outages,
    undisturbed,    \* history: links nothing above or at which moved since the crawl began
    skipped         \* history: links left out because a request for a key failed

crawlVars == <<level, listings, yielded, below, gathered, unlocked, undisturbed, skipped>>
visitorVars == <<within, secret, visit, upsets, outages, crawlVars>>

NewListing == [at |-> "ids", ids |-> <<>>, left |-> <<>>, nodes |-> <<>>, chain |-> <<>>]

VisitorInit ==
    /\ within \in TopTrees
    /\ \E legacy \in BOOLEAN, right \in BOOLEAN :
          /\ secret = [password |-> 0, legacy |-> legacy, gone |-> FALSE]
          /\ visit = [at |-> "closed", password |-> IF right THEN 0 ELSE 1, salt |-> 0]
    /\ level = <<>> /\ listings = <<>> /\ yielded = 0 /\ below = <<>> /\ gathered = <<>>
    /\ unlocked = {} /\ undisturbed = {} /\ skipped = {}
    /\ upsets = 0 /\ outages = 0

\* The folders above n, n included: the least set that has n and, with a link, its
\* folder.
Upward(S) == \A m \in S : within[m] \in S \cup {Nowhere}
LinkPath(n) ==
    {m \in VisitedLink : \A S \in SUBSET VisitedLink : n \in S /\ Upward(S) => m \in S}

Shared(n) == n \in VisitedLink /\ TopLink \in LinkPath(n)
Kids(d) == {n \in VisitedLink : within[n] = d}

-----------------------------------------------------------------------------
(* The owner.                                                               *)

\* A link is moved within the share, out of it, or deleted.
MoveLink(n, d) ==
    /\ upsets < MaxUpsets /\ n # TopLink /\ within[n] # d
    /\ d = Nowhere \/ n \notin LinkPath(d)
    /\ within' = [within EXCEPT ![n] = d]
    /\ undisturbed' = {m \in undisturbed : n \notin LinkPath(m)}
    /\ upsets' = upsets + 1
    /\ UNCHANGED <<secret, visit, outages, level, listings, yielded, below, gathered,
                   unlocked, skipped>>

\* The link's password is changed, or the link removed.
ChangeSecret ==
    /\ upsets < MaxUpsets
    /\ \/ secret' = [secret EXCEPT !.password = @ + 1]
       \/ secret' = [secret EXCEPT !.gone = TRUE]
    /\ upsets' = upsets + 1
    /\ UNCHANGED <<within, visit, outages, crawlVars>>

\* A request fails.
Outage == outages < MaxOutages /\ outages' = outages + 1

-----------------------------------------------------------------------------
(* The handshake: Credentials::auth and unlock_share_key.                   *)

\* The link's information.  A legacy link is refused.
AskInfo ==
    /\ visit.at = "closed"
    /\ visit' = [visit EXCEPT !.at = IF secret.gone \/ secret.legacy THEN "refused" ELSE "proving",
                              !.salt = secret.password]
    /\ UNCHANGED <<within, secret, upsets, outages, crawlVars>>

\* The proofs, made with the salt of the information; the server's proof is compared
\* before the answer is used.  The password that proves also unlocks the share key.
Prove ==
    /\ visit.at = "proving"
    /\ visit' = [visit EXCEPT !.at = IF ~secret.gone /\ visit.password = secret.password
                                         /\ visit.salt = secret.password
                                     THEN "open" ELSE "refused"]
    /\ UNCHANGED <<within, secret, upsets, outages, crawlVars>>

-----------------------------------------------------------------------------
(* The crawl.                                                               *)

\* enumerate_subtree of the shared folder.
BeginCrawl ==
    /\ visit.at = "open" /\ level = <<>>
    /\ visit' = [visit EXCEPT !.at = "crawling"]
    /\ level' = <<TopLink>> /\ listings' = <<NewListing>>
    /\ undisturbed' = {n \in VisitedLink : Shared(n)}
    /\ UNCHANGED <<within, secret, upsets, outages, yielded, below, gathered, unlocked, skipped>>

\* stream::buffered: these listings have been started.
Started(i) == i \in 1 .. Len(level) /\ yielded < i /\ i <= yielded + MaxListings

Working(i, at) == visit.at = "crawling" /\ Started(i) /\ listings[i].at = at
Put(i, listing) == listings' = [listings EXCEPT ![i] = listing]
CrawlFails == visit' = [visit EXCEPT !.at = "failed"]

Rest == UNCHANGED <<within, secret, upsets, level, yielded, below, gathered, undisturbed>>

\* The ids of the folder's children, in some order; a failure, or a folder that is gone, fails the walk.
ListFolder(i) ==
    /\ Working(i, "ids")
    /\ \/ /\ Shared(level[i])
          /\ \E kids \in Orderings(Kids(level[i])) :
                Put(i, [listings[i] EXCEPT !.at = "details", !.ids = kids])
          /\ UNCHANGED <<visit, outages>>
       \/ ~Shared(level[i]) /\ CrawlFails /\ UNCHANGED <<listings, outages>>
       \/ Outage /\ CrawlFails /\ UNCHANGED listings
    /\ UNCHANGED <<unlocked, skipped>> /\ Rest

\* The details of those that are still there, with the parent each has now.
FetchLinkDetails(i) ==
    /\ Working(i, "details")
    /\ \/ /\ Put(i, [listings[i] EXCEPT !.at = "keys",
                        !.left = LET ids == listings[i].ids
                                     there == Picked(ids, {k \in 1 .. Len(ids) : Shared(ids[k])})
                                 IN [k \in 1 .. Len(there) |-> <<there[k], within[there[k]]>>]])
          /\ UNCHANGED <<visit, outages>>
       \/ Outage /\ CrawlFails /\ UNCHANGED listings
    /\ UNCHANGED <<unlocked, skipped>> /\ Rest

Child(i) == Head(listings[i].left)

\* The node whose key is wanted next: the child's parent, or the parent of the last
\* node climbed past.
Cursor(i) ==
    IF listings[i].chain = <<>> THEN Child(i)[2] ELSE LastOf(listings[i].chain)[2]

\* A key on the way is held: every key of the chain is unlocked with it, and the child
\* is built.
BuildNode(i) ==
    /\ Working(i, "keys") /\ listings[i].left # <<>>
    /\ Cursor(i) \in unlocked
    /\ unlocked' = unlocked \cup {c[1] : c \in Members(listings[i].chain)}
    /\ Put(i, [listings[i] EXCEPT !.nodes = Append(@, Child(i)[1]), !.left = Tail(@),
                                  !.chain = <<>>])
    /\ UNCHANGED <<visit, outages, skipped>> /\ Rest

\* The child is left out, and the walk goes on.
Skip(i) == Put(i, [listings[i] EXCEPT !.left = Tail(@), !.chain = <<>>])

\* node_key, up: the details of the node at the cursor.  The shared folder opens with
\* the share key.
ClimbOne(i) ==
    /\ Working(i, "keys") /\ listings[i].left # <<>>
    /\ LET at == Cursor(i) IN
       /\ at \notin unlocked
       /\ \/ /\ at = TopLink /\ unlocked' = unlocked \cup {TopLink}
             /\ UNCHANGED <<listings, outages, skipped>>
          \/ /\ at # TopLink /\ Shared(at)
             /\ Put(i, [listings[i] EXCEPT !.chain = Append(@, <<at, within[at]>>)])
             /\ UNCHANGED <<unlocked, outages, skipped>>
          \/ /\ ~Shared(at)
             /\ Skip(i) /\ UNCHANGED <<unlocked, outages, skipped>>
          \/ /\ Outage
             /\ skipped' = skipped \cup {Child(i)[1]}
             /\ Skip(i) /\ UNCHANGED unlocked
    /\ UNCHANGED visit /\ Rest

Below(i) ==
    LET nodes == listings[i].nodes
    IN Picked(nodes, {k \in 1 .. Len(nodes) : nodes[k] \in Directory})

\* Mutant of NextLevel: the folders of a listing are not gone into.
NextLevelStays(i) == below

\* The folders gathered so far at the next level.
NextLevel(i) == below \o Below(i)

\* The listings are taken in the order of the level.
TakeListing(i) ==
    /\ Working(i, "keys") /\ listings[i].left = <<>>
    /\ i = yielded + 1
    /\ yielded' = i
    /\ gathered' = gathered \o listings[i].nodes
    /\ below' = NextLevel(i)
    /\ UNCHANGED <<within, secret, visit, upsets, outages, level, listings, unlocked,
                   undisturbed, skipped>>

\* A level is through: the next one, or the end.
LevelDone ==
    /\ visit.at = "crawling" /\ yielded = Len(level)
    /\ level' = below /\ below' = <<>> /\ yielded' = 0
    /\ listings' = [i \in 1 .. Len(below) |-> NewListing]
    /\ visit' = [visit EXCEPT !.at = IF below = <<>> THEN "crawled" ELSE "crawling"]
    /\ UNCHANGED <<within, secret, upsets, outages, gathered, unlocked, undisturbed, skipped>>

VisitorNext ==
    \/ \E n \in VisitedLink, d \in Directory \cup {Nowhere} : MoveLink(n, d)
    \/ ChangeSecret \/ AskInfo \/ Prove \/ BeginCrawl \/ LevelDone
    \/ \E i \in 1 .. Len(level) :
          ListFolder(i) \/ FetchLinkDetails(i) \/ BuildNode(i) \/ ClimbOne(i) \/ TakeListing(i)

VisitorSpec == VisitorInit /\ [][VisitorNext]_visitorVars

-----------------------------------------------------------------------------
LinkAbove(n) == LinkPath(n) \ {n, TopLink}

\* A walk that succeeds has gathered every node exactly once whose folders, and itself,
\* stayed where they were since it began, whatever moved around them; except one that
\* was left out, or a folder above it, because a request for a key failed.
CrawlComplete ==
    visit.at = "crawled" =>
        \A n \in undisturbed \ {TopLink} :
            \/ skipped \cap ({n} \cup LinkAbove(n)) # {}
            \/ CountOf(gathered, n) = 1
=============================================================================
