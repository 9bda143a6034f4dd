------------------------------ MODULE Sharing ------------------------------
(***************************************************************************)
(* The owner's side of sharing one node: get-or-create of its share,       *)
(* invitations of Proton users and of external addresses, and the public   *)
(* link (ProtonDriveClient in client.rs, AccountClient::public_keys in     *)
(* account.rs).                                                            *)
(*                                                                         *)
(* Nothing of this is cached or serialised by the client except the public *)
(* keys of an email: a call reads the node's share, makes it if there is   *)
(* none, lists who is there already and then posts, each step a request of *)
(* its own, while invitees accept or leave and other calls of the account  *)
(* do the same.                                                            *)
(***************************************************************************)
EXTENDS Integers, Sequences, FiniteSets

CONSTANTS
    Email,            \* spellings of addresses
    Lower,            \* their lower case: [Email -> Email]
    ProtonUser,       \* the lower-case emails that have a Proton account
    Invitees,         \* the lists of emails a caller may ask for
    Owner,            \* calls of the account in progress
    HomeAddress,      \* the membership address of My Files
    OtherAddress,     \* that of a share elsewhere (photos, a device)
    NoLink,
    MaxShares, MaxInvitations, MaxUrls, MaxSharingCalls, MaxLookupFailures

ASSUME SharingAssumption ==
    /\ Lower \in [Email -> Email] /\ ProtonUser \subseteq Email
    /\ \A is \in Invitees : is \in Seq(Email)
    /\ {MaxShares, MaxInvitations, MaxUrls, MaxSharingCalls, MaxLookupFailures} \subseteq Nat

VARIABLES
    context,     \* the address of the node's context share
    share,       \* the id of the node's share, 0 when it has none
    shares,      \* how many shares the node has had
    entries,     \* invitations and members of the share
    entryCount,  \* ids given to entries
    link,        \* the share's public link
    linkCount,   \* ids (and generated passwords) given to links
    known,       \* public_keys: what the client remembers of an email
    call,        \* [Owner -> where the call is and what it has read]
    handed,      \* history: the link ids and fragments callers were given
    shareCalls,  \* calls begun
    lookupFailures

sharingVars == <<context, share, shares, entries, entryCount, link, linkCount,
                 known, call, handed, shareCalls, lookupFailures>>

Unasked == "unasked"
Found == "keys"
Absent == "none"

Resting == [at |-> "idle", kind |-> "none", todo |-> <<>>, proton |-> <<>>,
            external |-> <<>>, share |-> 0, already |-> {}, since |-> 0,
            signer |-> HomeAddress, lists |-> <<>>, link |-> NoLink,
            routed |-> FALSE, slipped |-> FALSE]

\* A node may already carry a link of the web client's older kind, whose password
\* is not a generated one.
SharingInit ==
    /\ context \in {HomeAddress, OtherAddress}
    /\ shares = 1 /\ share \in {0, 1}
    /\ entries = {} /\ entryCount = 0
    /\ link \in {NoLink} \cup
         (IF share = 0 THEN {}
          ELSE {[id |-> 0, gen |-> 0, legacy |-> TRUE, addr |-> context, keyOf |-> share]})
    /\ linkCount = 0
    /\ known = [e \in Email |-> Unasked]
    /\ call = [o \in Owner |-> Resting]
    /\ handed = {} /\ shareCalls = 0 /\ lookupFailures = 0

\* The bookkeeping of a step of o that changes nothing but o's call.
Goes(o, c) ==
    /\ call' = [call EXCEPT ![o] = c]
    /\ UNCHANGED <<context, handed, shareCalls>>

\* A call ends, with its result or with an error; the entries it had already
\* posted stay.
Ends(o) == Goes(o, Resting)

Begins(o, c) ==
    /\ call[o].at = "idle" /\ shareCalls < MaxSharingCalls
    /\ shareCalls' = shareCalls + 1
    /\ call' = [call EXCEPT ![o] = c]
    /\ UNCHANGED <<context, share, shares, entries, entryCount, link, linkCount,
                   known, handed, lookupFailures>>

ServerKept == UNCHANGED <<share, shares, entries, entryCount, link, linkCount>>

-----------------------------------------------------------------------------
(* AccountClient::public_keys: an email's keys, remembered for the client's *)
(* life.  A request that fails is answered, and remembered, as "no keys".   *)

PublicKeys(e, answer, failed) ==
    \/ known[e] # Unasked /\ answer = known[e] /\ ~failed
       /\ UNCHANGED <<known, lookupFailures>>
    \/ /\ known[e] = Unasked /\ ~failed
       /\ answer = IF Lower[e] \in ProtonUser THEN Found ELSE Absent
       /\ known' = [known EXCEPT ![e] = answer]
       /\ UNCHANGED lookupFailures
    \/ /\ known[e] = Unasked /\ failed /\ answer = Absent
       /\ lookupFailures < MaxLookupFailures
       /\ lookupFailures' = lookupFailures + 1
       /\ known' = [known EXCEPT ![e] = Absent]

-----------------------------------------------------------------------------
(* Invitations.                                                             *)

\* share_node and invite_external_users with a list of the caller's.
BeginShareNode(o, emails) ==
    Begins(o, [Resting EXCEPT !.at = "look", !.kind = "proton", !.todo = emails])

BeginInviteExternal(o, emails) ==
    Begins(o, [Resting EXCEPT !.at = "look", !.kind = "external", !.todo = emails])

BeginInviteUsers(o, emails) ==
    Begins(o, [Resting EXCEPT !.at = "route", !.todo = emails, !.routed = TRUE])

\* What invite_users does with the two lists once every email is routed: the
\* Proton users first, then the external ones, each only when there are any.
AfterRouting(c) ==
    CASE c.proton # <<>> ->
            [c EXCEPT !.at = "look", !.kind = "proton", !.todo = c.proton, !.proton = <<>>]
      [] c.proton = <<>> /\ c.external # <<>> ->
            [c EXCEPT !.at = "look", !.kind = "external", !.todo = c.external, !.external = <<>>]
      [] OTHER -> Resting

\* invite_users asks for the keys of one email after the other; an email without
\* any is taken to be external.
RouteEmail(o) ==
    /\ call[o].at = "route" /\ call[o].todo # <<>>
    /\ \E answer \in {Found, Absent}, failed \in BOOLEAN :
          LET e == Head(call[o].todo)
              c == [call[o] EXCEPT
                      !.todo = Tail(@),
                      !.slipped = @ \/ failed,
                      !.proton = IF answer = Found THEN Append(@, e) ELSE @,
                      !.external = IF answer = Absent THEN Append(@, e) ELSE @]
          IN PublicKeys(e, answer, failed) /\ Goes(o, IF c.todo = <<>> THEN AfterRouting(c) ELSE c)
    /\ ServerKept

\* The lists a call reads, in this order, before it posts: an invitee only moves
\* on, from an external invitation or an invitation to a member, so one who moves
\* between two lists is in the later one.
ListingOrderSwapped(kind) ==
    IF kind = "external" THEN <<"member", "proton", "external">> ELSE <<"member", "proton">>
ListingOrder(kind) ==
    IF kind = "external" THEN <<"external", "proton", "member">> ELSE <<"proton", "member">>

\* Where a call goes when it has the share: to the lists, or to its link.
WithShare(c, s, signer) ==
    [c EXCEPT !.share = s, !.signer = signer,
              !.at = IF c.kind \in {"proton", "external"} THEN "list" ELSE "seal",
              !.lists = ListingOrder(c.kind),
              !.already = {}]

\* ensure_node_share: read the node and the address to act under
\* (membership_address_for: the context share's, My Files' when that cannot be
\* resolved), and take the share the node has.
LookShare(o) ==
    /\ call[o].at = "look"
    /\ \E signer \in {context, HomeAddress} :
          Goes(o, IF share # 0 THEN WithShare(call[o], share, signer)
                  ELSE [call[o] EXCEPT !.at = "create", !.signer = signer])
    /\ ServerKept /\ UNCHANGED <<known, lookupFailures>>

\* ... or create one; the server has one share to a node, so of two calls that
\* both found none the second fails, as the request of either may.
CreateShare(o) ==
    /\ call[o].at = "create"
    /\ \/ /\ share = 0 /\ shares < MaxShares
          /\ shares' = shares + 1 /\ share' = shares'
          /\ Goes(o, WithShare(call[o], share', call[o].signer))
       \/ /\ share # 0 \/ shares = MaxShares
          /\ Ends(o) /\ UNCHANGED <<share, shares>>
    /\ UNCHANGED <<entries, entryCount, link, linkCount, known, lookupFailures>>

\* One of the lists: list_share_invitations_inner, list_share_members_inner,
\* list_external_invitations_inner.  A share that is gone fails the call.
Listed(list) ==
    {Lower[x.email] : x \in {y \in entries : (IF y.joined THEN "member" ELSE y.kind) = list}}

ListEntries(o) ==
    /\ call[o].at = "list"
    /\ \/ /\ share = call[o].share
          /\ Goes(o, [call[o] EXCEPT
                        !.already = @ \cup Listed(Head(call[o].lists)),
                        !.lists = Tail(@),
                        !.since = IF call[o].lists = ListingOrder(call[o].kind) THEN entryCount ELSE @,
                        !.at = IF Len(call[o].lists) = 1 THEN "post" ELSE "list"])
       \/ share # call[o].share /\ Ends(o)
    /\ ServerKept /\ UNCHANGED <<known, lookupFailures>>

\* The loop over the invitees: one already there is skipped, the others are posted;
\* an error (no key, an inherited role, the server's) ends the call where it is.
SkipInvitee(o) ==
    /\ call[o].at = "post" /\ call[o].todo # <<>>
    /\ Lower[Head(call[o].todo)] \in call[o].already
    /\ Goes(o, [call[o] EXCEPT !.todo = Tail(@)])
    /\ ServerKept /\ UNCHANGED <<known, lookupFailures>>

PostInvitation(o) ==
    /\ call[o].at = "post" /\ call[o].todo # <<>>
    /\ LET e == Head(call[o].todo) IN
       /\ Lower[e] \notin call[o].already
       /\ \/ call[o].kind = "external" /\ UNCHANGED <<known, lookupFailures>>
          \/ call[o].kind = "proton" /\ PublicKeys(e, Found, FALSE)
       /\ share = call[o].share /\ entryCount < MaxInvitations
       /\ entryCount' = entryCount + 1
       /\ entries' = entries \cup
            {[id |-> entryCount', email |-> e, kind |-> call[o].kind, joined |-> FALSE,
              since |-> call[o].since, routed |-> call[o].routed, slipped |-> call[o].slipped]}
       /\ Goes(o, [call[o] EXCEPT !.todo = Tail(@)])
    /\ UNCHANGED <<share, shares, link, linkCount>>

InvitationFails(o) ==
    /\ call[o].at = "post" /\ call[o].todo # <<>>
    /\ LET e == Head(call[o].todo) IN
       /\ Lower[e] \notin call[o].already
       /\ \/ call[o].kind = "external" /\ UNCHANGED <<known, lookupFailures>>
          \/ /\ call[o].kind = "proton"
             /\ \E answer \in {Found, Absent}, failed \in BOOLEAN : PublicKeys(e, answer, failed)
    /\ Ends(o) /\ ServerKept

InviteesDone(o) ==
    /\ call[o].at = "post" /\ call[o].todo = <<>>
    /\ Goes(o, AfterRouting(call[o]))
    /\ ServerKept /\ UNCHANGED <<known, lookupFailures>>

\* accept_invitation; an external one is converted when the invitee signs up.
AcceptInvitation(x) ==
    /\ ~x.joined
    /\ entries' = (entries \ {x}) \cup {[x EXCEPT !.joined = TRUE]}
    /\ UNCHANGED <<context, share, shares, entryCount, link, linkCount, known, call, handed,
                   shareCalls, lookupFailures>>

\* The single requests that take an entry off the share.
TakeOff(x) ==
    /\ entries' = entries \ {x}
    /\ UNCHANGED <<context, share, shares, entryCount, link, linkCount, known, call, handed,
                   shareCalls, lookupFailures>>

RemoveMember(x) == x.joined /\ TakeOff(x)
LeaveSharedNode(x) == x.joined /\ TakeOff(x)
DeleteInvitation(x) == ~x.joined /\ x.kind = "proton" /\ TakeOff(x)
RejectInvitation(x) == ~x.joined /\ x.kind = "proton" /\ TakeOff(x)
DeleteExternalInvitation(x) == ~x.joined /\ x.kind = "external" /\ TakeOff(x)

\* Another client stops sharing the node altogether.
Unshare ==
    /\ share # 0 /\ shares < MaxShares
    /\ share' = 0 /\ entries' = {} /\ link' = NoLink
    /\ UNCHANGED <<context, shares, entryCount, linkCount, known, call, handed, shareCalls,
                   lookupFailures>>

-----------------------------------------------------------------------------
(* The public link.                                                         *)

BeginCreateLink(o) == Begins(o, [Resting EXCEPT !.at = "look", !.kind = "link"])

BeginUpdateLink(o) == Begins(o, [Resting EXCEPT !.at = "get", !.kind = "update"])

BeginGetLink(o) == Begins(o, [Resting EXCEPT !.at = "get", !.kind = "get"])

\* recover_public_link_secret: the stored password opens with the keys of the My
\* Files address only; nothing else is tried.
Recovered(l) == l.addr = HomeAddress

\* get_public_link, for itself or for update_public_link, which goes on only with
\* a recovered fragment of the generated length.
GetLink(o) ==
    /\ call[o].at = "get"
    /\ LET c == call[o]
           urled == link # NoLink /\ Recovered(link)
       IN
       /\ handed' = handed \cup (IF urled THEN {[id |-> link.id, gen |-> link.gen]} ELSE {})
       /\ call' = [call EXCEPT ![o] =
                     IF c.kind = "update" /\ urled /\ ~link.legacy
                     THEN [c EXCEPT !.at = "look", !.link = link] ELSE Resting]
    /\ ServerKept /\ UNCHANGED <<context, known, shareCalls, lookupFailures>>

\* create_public_link and update_public_link seal the key of the share that
\* ensure_node_share returned under the link's password (generated, plus any custom
\* one), store the password for the signer's address, and send it.
Settings(c, id, gen) ==
    [id |-> id, gen |-> gen, legacy |-> FALSE, addr |-> c.signer, keyOf |-> c.share]

PostLink(o) ==
    /\ call[o].at = "seal" /\ call[o].kind = "link"
    /\ share = call[o].share /\ link = NoLink /\ linkCount < MaxUrls
    /\ linkCount' = linkCount + 1
    /\ link' = Settings(call[o], linkCount', linkCount')
    /\ handed' = handed \cup {[id |-> linkCount', gen |-> linkCount']}
    /\ call' = [call EXCEPT ![o] = Resting]
    /\ UNCHANGED <<context, share, shares, entries, entryCount, known, shareCalls, lookupFailures>>

\* The fragment an update seals under: the one it recovered.
UpdatedFragmentFresh(c) == linkCount + 1
UpdatedFragment(c) == c.link.gen

\* The link an update is sent to: the one it read, by its id.
TargetsLink(c) == link # NoLink /\ link.id = c.link.id

PutLink(o) ==
    /\ call[o].at = "seal" /\ call[o].kind = "update"
    /\ TargetsLink(call[o])
    /\ link' = Settings(call[o], link.id, UpdatedFragment(call[o]))
    /\ Ends(o)
    /\ UNCHANGED <<share, shares, entries, entryCount, linkCount, known, lookupFailures>>

LinkRequestFails(o) ==
    /\ call[o].at = "seal"
    /\ Ends(o) /\ ServerKept /\ UNCHANGED <<known, lookupFailures>>

\* remove_public_link.
RemoveLink ==
    /\ link # NoLink /\ link' = NoLink
    /\ UNCHANGED <<context, share, shares, entries, entryCount, linkCount, known, call, handed,
                   shareCalls, lookupFailures>>

-----------------------------------------------------------------------------

CallStep(o) ==
    \/ RouteEmail(o) \/ LookShare(o) \/ CreateShare(o) \/ ListEntries(o)
    \/ SkipInvitee(o) \/ PostInvitation(o) \/ InvitationFails(o) \/ InviteesDone(o)
    \/ GetLink(o) \/ PostLink(o) \/ PutLink(o) \/ LinkRequestFails(o)

SharingNext ==
    \/ \E o \in Owner :
          \/ \E emails \in Invitees :
                \/ BeginShareNode(o, emails)
                \/ BeginInviteExternal(o, emails)
                \/ BeginInviteUsers(o, emails)
          \/ BeginCreateLink(o) \/ BeginUpdateLink(o) \/ BeginGetLink(o)
          \/ CallStep(o)
    \/ \E x \in entries :
          \/ AcceptInvitation(x) \/ RejectInvitation(x) \/ RemoveMember(x) \/ LeaveSharedNode(x)
          \/ DeleteInvitation(x) \/ DeleteExternalInvitation(x)
    \/ Unshare \/ RemoveLink

SharingSpec == SharingInit /\ [][SharingNext]_sharingVars

-----------------------------------------------------------------------------
(* Properties.                                                              *)

\* Nobody who is on the share is invited again: of two entries of one address the
\* later was posted by a call that had begun to read its lists before the earlier
\* one was there (an overlapping call, or an address twice in one list), or is a
\* Proton invitation over an external one, which share_node does not look for.
\* An invitee who accepts between two of the lists is in the second.
InviteesAreNew ==
    \A x, y \in entries :
        Lower[x.email] = Lower[y.email] /\ y.id < x.id =>
            \/ y.id > x.since
            \/ y.kind = "external" /\ x.kind = "proton"

\* A URL once handed out opens its link for as long as the link exists, and what it
\* opens is the key of the share the link is on: no update changes the generated
\* password in the fragment, and none seals another share's key into it.
HandedUrlsOpen ==
    link # NoLink =>
        /\ link.keyOf = share
        /\ \A u \in handed : u.id = link.id => u.gen = link.gen

\* "addresses that resolve to a Proton account get a normal (encrypted-key-packet)
\* invitation" (client.rs, invite_users).  Stated for a call none of whose own
\* lookups failed.
ProtonGetsPacket ==
    \A x \in entries :
        x.routed /\ ~x.slipped /\ Lower[x.email] \in ProtonUser => x.kind = "proton"
=============================================================================
