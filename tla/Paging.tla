------------------------------- MODULE Paging -------------------------------
(***************************************************************************)
(* The listings a client pages through (client.rs): folder children,       *)
(* albums and their photos, what is shared with and by the user, incoming  *)
(* invitations, the photos timeline and the trash.                         *)
(*                                                                         *)
(* Each page is a request of its own, and the list changes between two of  *)
(* them.  Most listings resume after an anchor the server names and stop   *)
(* when it says there is no more; the timeline makes its own anchor of the *)
(* last item of a full page; the trash counts pages.                       *)
(***************************************************************************)
EXTENDS Selections

CONSTANTS
    Pager,         \* listings in progress
    Row,           \* what may be listed: a set of positive integers, listed in their order
    PhotoRow,      \* the rows that are photos or albums
    PageSize,      \* the server's page; TRASH_PAGE_SIZE and TIMELINE_PAGE_SIZE
    MaxPagings, MaxListChanges

ASSUME PagingAssumption ==
    /\ Row \subseteq Nat \ {0} /\ IsFiniteSet(Row) /\ PhotoRow \subseteq Row
    /\ PageSize \in Nat \ {0} /\ MaxPagings \in Nat /\ MaxListChanges \in Nat

VARIABLES
    rows,         \* the rows the server has
    listing,      \* [Pager -> the listing and what it has gathered]
    pagings, listChanges

pagingVars == <<rows, listing, pagings, listChanges>>

NoListing == [at |-> "idle", style |-> "none", after |-> 0, page |-> 0, keep |-> {}, got |-> <<>>,
              always |-> {}, changed |-> FALSE, skipped |-> {}]

PagingInit ==
    /\ rows \in SUBSET Row
    /\ listing = [l \in Pager |-> NoListing]
    /\ pagings = 0 /\ listChanges = 0

-----------------------------------------------------------------------------
(* The listings: how each pages, and which rows it keeps.                   *)

BeginPaging(l, style, keep) ==
    /\ listing[l].at \in {"idle", "done"} /\ pagings < MaxPagings
    /\ pagings' = pagings + 1
    /\ listing' = [listing EXCEPT ![l] =
                     [NoListing EXCEPT !.at = "paging", !.style = style, !.keep = keep, !.always = rows]]
    /\ UNCHANGED <<rows, listChanges>>

EnumerateFolderChildren(l) == BeginPaging(l, "anchor", Row)
EnumerateAlbums(l) == BeginPaging(l, "anchor", Row)
EnumerateAlbum(l) == BeginPaging(l, "anchor", Row)
EnumerateSharedAlbums(l) == BeginPaging(l, "anchor", Row)
EnumerateSharedByMe(l) == BeginPaging(l, "anchor", Row)
EnumerateSharedWithMe(l) == BeginPaging(l, "anchor", Row \ PhotoRow)
EnumeratePhotosSharedWithMe(l) == BeginPaging(l, "anchor", PhotoRow)
ListIncomingInvitations(l) == BeginPaging(l, "invitations", Row)
EnumerateTimeline(l) == BeginPaging(l, "timeline", Row)
EnumerateTrash(l) == BeginPaging(l, "trash", Row)

-----------------------------------------------------------------------------
(* A page.                                                                  *)

\* The server's page: the first rows after the anchor, or the numbered slice.
PageAfter(anchor) ==
    LET rest == Ascending({r \in rows : r > anchor})
    IN SubSeq(rest, 1, IF Len(rest) < PageSize THEN Len(rest) ELSE PageSize)

PageNumber(p) ==
    LET all == Ascending(rows)
        first == p * PageSize + 1
        last == (p + 1) * PageSize
    IN SubSeq(all, first, IF last < Len(all) THEN last ELSE Len(all))

\* Whether a page is followed by another request.
FullPageOffByOne(page) == Len(page) > PageSize
FullPage(page) == Len(page) >= PageSize

More(page) == page # <<>> /\ \E r \in rows : r > LastOf(page)

Gather(l, page, on, next) ==
    LET r == listing[l] IN
    listing' = [listing EXCEPT ![l] =
        [r EXCEPT !.got = r.got \o Picked(page, {i \in 1 .. Len(page) : page[i] \in r.keep}),
                  !.after = IF page = <<>> THEN r.after ELSE LastOf(page),
                  !.page = r.page + 1,
                  !.at = IF on THEN "paging" ELSE next]]

\* A listing on the server's AnchorID and more flag; an anchor that is missing or
\* empty, and for a folder an empty page, also ends it.  The ids of the invitations
\* are then loaded one by one.
TakeAnchoredPage(l) ==
    /\ listing[l].at = "paging" /\ listing[l].style \in {"anchor", "invitations"}
    /\ LET page == PageAfter(listing[l].after) IN
       Gather(l, page, More(page), IF listing[l].style = "anchor" THEN "done" ELSE "details")
    /\ UNCHANGED <<rows, pagings, listChanges>>

TakeTimelinePage(l) ==
    /\ listing[l].at = "paging" /\ listing[l].style = "timeline"
    /\ LET page == PageAfter(listing[l].after) IN Gather(l, page, FullPage(page), "done")
    /\ UNCHANGED <<rows, pagings, listChanges>>

TakeTrashPage(l) ==
    /\ listing[l].at = "paging" /\ listing[l].style = "trash"
    /\ LET page == PageNumber(listing[l].page) IN Gather(l, page, FullPage(page), "done")
    /\ UNCHANGED <<rows, pagings, listChanges>>

\* The details of the listed invitations; one that fails to load is left out.
LoadInvitations(l) ==
    /\ listing[l].at = "details"
    /\ LET r == listing[l] IN
       \E lost \in SUBSET Members(r.got) :
          listing' = [listing EXCEPT ![l] =
             [r EXCEPT !.at = "done", !.skipped = lost,
                       !.got = Picked(r.got, {i \in 1 .. Len(r.got) : r.got[i] \notin lost})]]
    /\ UNCHANGED <<rows, pagings, listChanges>>

\* Somebody adds or removes a row between two pages.
ChangeRows ==
    /\ listChanges < MaxListChanges /\ listChanges' = listChanges + 1
    /\ \E r \in Row : rows' = IF r \in rows THEN rows \ {r} ELSE rows \cup {r}
    /\ listing' = [l \in Pager |->
          IF listing[l].at \in {"idle", "done"} THEN listing[l]
          ELSE [listing[l] EXCEPT !.always = @ \cap rows', !.changed = TRUE]]
    /\ UNCHANGED pagings

PagingNext ==
    \/ \E l \in Pager :
          \/ EnumerateFolderChildren(l) \/ EnumerateAlbums(l) \/ EnumerateAlbum(l)
          \/ EnumerateSharedAlbums(l) \/ EnumerateSharedByMe(l) \/ EnumerateSharedWithMe(l)
          \/ EnumeratePhotosSharedWithMe(l) \/ ListIncomingInvitations(l)
          \/ EnumerateTimeline(l) \/ EnumerateTrash(l)
          \/ TakeAnchoredPage(l) \/ TakeTimelinePage(l) \/ TakeTrashPage(l) \/ LoadInvitations(l)
    \/ ChangeRows

PagingSpec == PagingInit /\ [][PagingNext]_pagingVars

-----------------------------------------------------------------------------
(* Properties.                                                              *)

\* However the list changes between two pages, a finished listing names what was
\* there all along, and names nothing twice.  The trash, which counts pages, keeps
\* this only while nothing is trashed or restored meanwhile: its later pages shift.
ListedOnce ==
    \A l \in Pager :
        LET r == listing[l] IN
        r.at = "done" /\ (r.style = "trash" => ~r.changed) =>
            /\ ~Repeats(r.got)
            /\ (r.always \cap r.keep) \ r.skipped \subseteq Members(r.got)
=============================================================================
