------------------------------- MODULE Albums -------------------------------
(***************************************************************************)
(* Bringing photos into an album or the timeline, taking them out, and     *)
(* deleting an album (proton-drive-rs/src/client.rs: add_photos_to_album,  *)
(* save_photos_to_timeline, transfer_photos, delete_album_saving_photos,   *)
(* remove_photos_from_album, update_photos).                               *)
(*                                                                         *)
(* A photo of the account's volume is in the timeline, in the album, or in *)
(* both; one that is in neither is lost.  A photo of another volume is     *)
(* copied, and the copy is not followed further.  A photo travels with the *)
(* related photos of its group, which must not be split: the server names  *)
(* the missing ones, and the photo is sent once more with them.            *)
(***************************************************************************)
EXTENDS Selections

CONSTANTS
    Photo,         \* photos
    Foreign,       \* those on another volume
    Undigested,    \* those without content digest: no payload can be built
    Unhashed,      \* those whose link carries no name hash
    Requests,      \* inputs of the calls: sequences of photos
    MaxLinks,      \* MAX_LINKS_PER_TRANSFER
    MaxLoad,       \* LOAD_BATCH
    MaxRemoved,    \* REMOVE_BATCH
    MaxAlbumCalls, \* bound: calls made
    MaxMeddling    \* bound: what other clients do

ASSUME PhotosAssumption ==
    /\ IsFiniteSet(Photo) /\ Foreign \cup Undigested \cup Unhashed \subseteq Photo
    /\ Requests \subseteq Seq(Photo)
    /\ {MaxLinks, MaxLoad, MaxRemoved} \subseteq Nat \ {0}
    /\ {MaxAlbumCalls, MaxMeddling} \subseteq Nat

VARIABLES
    timeline,   \* server: photos parented to the timeline root
    album,      \* server: photos of the album
    albumThere, \* server: the album exists
    cover,      \* server: its cover photo, as a set of at most one
    group,      \* server: group[p] is the set of photos related to p
    favorite,   \* server: photos tagged as favorite
    tagged,     \* server: photos with the other tag
    apc,        \* what the client is doing
    goal,       \* what the photos are for: "timeline", "album", "out" or "tags"; or "lost"
    given,      \* the photos of the call
    todo,       \* transfer_photos: queue of photos, each with what the server asked for
    popped,     \* photos taken from todo in this round
    same,       \* payloads for the target's own volume
    copies,     \* payloads for the copy endpoint
    again,      \* retried
    results,    \* outcomes, in completion order
    deleting,   \* the call is delete_album_saving_photos
    albumCalls, \* calls so far
    meddling,   \* what other clients did so far
    sends,      \* history: how often the call sent p as a main photo
    took,       \* history: photos the call brought in or took out
    aside       \* history: those of them the answer to their own request did not tell of

albumVars == <<timeline, album, albumThere, cover, group, favorite, tagged, apc, goal, given, todo,
               popped, same, copies, again, results, deleting, albumCalls, meddling, sends, took,
               aside>>
photoServer == <<timeline, album, albumThere, cover, group, favorite, tagged>>

Own == Photo \ Foreign
Least(a, b) == IF a < b THEN a ELSE b

\* The account's photos are in the timeline or only in the album.
AlbumInit ==
    /\ timeline \in SUBSET Own /\ album \in SUBSET Own /\ timeline \cup album = Own
    /\ albumThere \in BOOLEAN /\ (album # {} => albumThere) /\ cover = {}
    /\ group = [p \in Photo |-> {}]
    /\ favorite = {} /\ tagged = {}
    /\ apc = "idle" /\ goal = "album" /\ given = <<>> /\ todo = <<>> /\ popped = 0
    /\ same = <<>> /\ copies = <<>> /\ again = {} /\ results = <<>> /\ deleting = FALSE
    /\ albumCalls = 0 /\ meddling = 0
    /\ sends = [p \in Photo |-> 0] /\ took = {} /\ aside = {}

Present == timeline \cup album \cup Foreign
InGoal == IF goal = "timeline" THEN timeline ELSE album

Report(p, r) == results' = Append(results, [photo |-> p, result |-> r])

Refusals(photos) == [i \in 1 .. Len(photos) |-> [photo |-> photos[i], result |-> "refused"]]

\* What a call starts from; the photos refused at once are not queued.
Open(call, photos, refused, to) ==
    /\ apc = "idle" /\ albumCalls < MaxAlbumCalls /\ albumCalls' = albumCalls + 1
    /\ apc' = call /\ goal' = to /\ given' = photos \o refused
    /\ todo' = [i \in 1 .. Len(photos) |-> [photo |-> photos[i], extra |-> {}]]
    /\ popped' = 0 /\ same' = <<>> /\ copies' = <<>> /\ again' = {} /\ results' = Refusals(refused)
    /\ sends' = [p \in Photo |-> 0] /\ took' = {} /\ aside' = {}
    /\ UNCHANGED <<photoServer, meddling>>

AddPhotosToAlbum(photos) ==
    /\ albumThere /\ photos # <<>>
    /\ Open("load", photos, <<>>, "album") /\ deleting' = FALSE

SavePhotosToTimeline(photos) ==
    /\ photos # <<>>
    /\ Open("load", photos, <<>>, "timeline") /\ deleting' = FALSE

-----------------------------------------------------------------------------
(* transfer_photos.                                                        *)

\* photo_target_payload: not found, not a file with a digest, or a payload.
Buildable(p) == p \in Present /\ p \notin Undigested

\* transfer_photo_payload: the photo with what it declares and what was asked for.
Payload(entry) ==
    [photo |-> entry.photo,
     related |-> {r \in group[entry.photo] \cup entry.extra : Buildable(r)}]

LoadPayload ==
    /\ apc = "load" /\ todo # <<>> /\ popped < MaxLoad
    /\ todo' = Tail(todo) /\ popped' = popped + 1
    /\ LET p == Head(todo).photo IN
       IF \/ ~Buildable(p)
          \/ goal = "timeline" /\ p \in timeline
       THEN Report(p, "refused") /\ UNCHANGED <<same, copies>>
       ELSE /\ IF p \in Own THEN same' = Append(same, Payload(Head(todo))) /\ UNCHANGED copies
                            ELSE copies' = Append(copies, Payload(Head(todo))) /\ UNCHANGED same
            /\ UNCHANGED results
    /\ UNCHANGED <<photoServer, apc, goal, given, again, deleting, albumCalls, meddling, sends,
                   took, aside>>

RoundLoaded ==
    /\ apc = "load" /\ (todo = <<>> \/ popped = MaxLoad)
    /\ apc' = "send" /\ popped' = 0
    /\ UNCHANGED <<photoServer, goal, given, todo, same, copies, again, results, deleting,
                   albumCalls, meddling, sends, took, aside>>

Weight(payload) == 1 + Cardinality(payload.related)

LinksOf[k \in 0 .. Len(same)] == IF k = 0 THEN 0 ELSE LinksOf[k - 1] + Weight(same[k])

\* The batch closes before the payload that would overflow it, but is never empty.
BatchSize ==
    CHOOSE k \in 1 .. Len(same) :
        /\ k = 1 \/ LinksOf[k] <= MaxLinks
        /\ k < Len(same) => ~(LinksOf[k + 1] <= MaxLinks)

\* The server's answer for one main photo: what is missing, refused, taken, or there
\* already.
Missing(payload) ==
    {r \in group[payload.photo] : r \notin payload.related}
Answer(payload) ==
    IF payload.photo \notin Present \/ (goal = "album" /\ ~albumThere) THEN "refused"
    ELSE IF Missing(payload) # {} THEN "missing"
    ELSE IF payload.photo \in InGoal THEN "there" ELSE "taken"

\* Mutant of Recorded: a photo is sent again as often as the server asks.
RecordedAlways(p, missing, answer) ==
    IF answer = "taken" THEN "ok" ELSE IF missing # {} THEN "again" ELSE "refused"

\* record_transfer_outcome: ok, again, or the error.
Recorded(p, missing, answer) ==
    IF answer = "taken" THEN "ok"
    ELSE IF missing # {} /\ p \notin again THEN "again" ELSE "refused"

\* A photo listed twice in a batch is one link to the server; the failure is taken
\* out of the table by its first payload, and the second finds none.
FirstOf(batch, i) == \A j \in 1 .. i - 1 : batch[j].photo # batch[i].photo

\* Photos without a name hash are not sent to the timeline.
Sendable(b) == goal = "timeline" => ({b.photo} \cup b.related) \cap Unhashed = {}
Batch == SubSeq(same, 1, BatchSize)
Sent == Picked(Batch, {i \in 1 .. Len(Batch) : Sendable(Batch[i])})
Unsent == Picked(Batch, {i \in 1 .. Len(Batch) : ~Sendable(Batch[i])})

Mains(s) == [i \in 1 .. Len(s) |-> s[i].photo]
SendsWith(sent) == [p \in Photo |-> IF p \in Members(Mains(sent)) THEN sends[p] + 1 ELSE sends[p]]

\* What each payload that was sent comes to; turned are the photos that came in and
\* are refused nevertheless.
Verdicts(sent, turned) ==
    [i \in 1 .. Len(sent) |->
        LET answer == IF ~FirstOf(sent, i) THEN "taken"
                      ELSE IF sent[i].photo \in turned THEN "there" ELSE Answer(sent[i])
            missing == IF answer = "missing" THEN Missing(sent[i]) ELSE {}
        IN [photo |-> sent[i].photo, result |-> Recorded(sent[i].photo, missing, answer)]]

BroughtIn(sent) == {sent[i].photo : i \in {j \in 1 .. Len(sent) : Answer(sent[j]) = "taken"}}

\* The related photos that come in along with main photos answered like that.
CarriedIn(sent, answers) ==
    Present \cap UNION {sent[i].related : i \in {j \in 1 .. Len(sent) : Answer(sent[j]) \in answers}}

Asked(sent, turned) == {i \in 1 .. Len(sent) : Verdicts(sent, turned)[i].result = "again"}
Requeued(sent) == [i \in 1 .. Len(sent) |-> [photo |-> sent[i].photo, extra |-> Missing(sent[i])]]

ComeIn(photos) ==
    /\ timeline' = IF goal = "timeline" THEN timeline \cup photos ELSE timeline
    /\ album' = IF goal = "album" THEN album \cup photos ELSE album

\* transfer_photo_batch and record_transfer_outcomes.  A photo of the batch that is
\* related to another one of it may be refused because it came in with that one; all
\* are refused that way when the HTTP layer sent the request again and the first copy
\* had been carried out.
SendBatch ==
    /\ apc = "send" /\ same # <<>>
    /\ LET sent == Sent
           taken == BroughtIn(sent)
       IN  \E carried \in {CarriedIn(sent, {"taken"}), CarriedIn(sent, {"taken", "there"})} :
           \E turned \in {taken} \cup SUBSET (taken \cap carried) :
              /\ same' = SubSeq(same, BatchSize + 1, Len(same))
              /\ ComeIn(taken \cup carried)
              /\ took' = took \cup taken \cup carried
              /\ aside' = aside \cup carried \cup turned
              /\ sends' = SendsWith(sent)
              /\ again' = again \cup {sent[i].photo : i \in Asked(sent, turned)}
              /\ todo' = todo \o Picked(Requeued(sent), Asked(sent, turned))
              /\ results' = results \o Refusals(Mains(Unsent))
                                   \o Picked(Verdicts(sent, turned),
                                             (1 .. Len(sent)) \ Asked(sent, turned))
    /\ UNCHANGED <<albumThere, cover, group, favorite, tagged, apc, goal, given, popped, copies, deleting,
                   albumCalls, meddling>>

\* The request fails as a whole, with or without effect: so does the call, and the
\* outcomes gathered so far go with it.
BatchLost ==
    /\ apc = "send" /\ same # <<>> /\ Sent # <<>>
    /\ \E taken \in {{}, BroughtIn(Sent) \cup CarriedIn(Sent, {"taken"})} : ComeIn(taken)
    /\ sends' = SendsWith(Sent) /\ goal' = "lost"
    /\ apc' = "idle" /\ results' = <<>> /\ same' = <<>> /\ copies' = <<>> /\ todo' = <<>>
    /\ deleting' = FALSE
    /\ UNCHANGED <<albumThere, cover, group, favorite, tagged, given, popped, again, albumCalls, meddling,
                   took, aside>>

\* copy_photo_to_target: any failure is the photo's own, also the loss of the answer
\* to a request that copied it.
CopyPhoto ==
    /\ apc = "send" /\ same = <<>> /\ copies # <<>>
    /\ copies' = Tail(copies)
    /\ LET b == Head(copies) IN
       \E answer \in {IF Missing(b) # {} THEN "missing" ELSE "taken", "refused"} :
       \E copied \in {answer = "taken", answer # "missing" /\ Missing(b) = {}} :
          LET missing == IF answer = "missing" THEN Missing(b) ELSE {}
              verdict == Recorded(b.photo, missing, answer)
          IN  /\ sends' = [sends EXCEPT ![b.photo] = @ + 1]
              /\ took' = IF copied THEN took \cup {b.photo} \cup b.related ELSE took
              /\ aside' = IF ~copied THEN aside
                          ELSE IF answer = "taken" THEN aside \cup b.related
                          ELSE aside \cup {b.photo} \cup b.related
              /\ IF verdict = "again"
                 THEN /\ again' = again \cup {b.photo}
                      /\ todo' = Append(todo, [photo |-> b.photo, extra |-> missing])
                      /\ UNCHANGED results
                 ELSE Report(b.photo, verdict) /\ UNCHANGED <<again, todo>>
    /\ UNCHANGED <<photoServer, apc, goal, given, popped, same, deleting, albumCalls, meddling>>

\* The next round, or the end: of the call, or of its first half.
RoundDone ==
    /\ apc = "send" /\ same = <<>> /\ copies = <<>>
    /\ apc' = IF todo # <<>> THEN "load"
              ELSE IF deleting /\ \A i \in 1 .. Len(results) : results[i].result = "ok"
              THEN "delete" ELSE "idle"
    /\ deleting' = (deleting /\ apc' # "idle")
    /\ UNCHANGED <<photoServer, goal, given, todo, popped, same, copies, again, results, albumCalls,
                   meddling, sends, took, aside>>

-----------------------------------------------------------------------------
(* delete_album and delete_album_saving_photos.                            *)

OnlyInAlbum == album \ timeline

\* delete_album as asked for: with the photos that are only in it, or refused.
DeleteAlbum(withPhotos) ==
    /\ apc = "idle" /\ albumCalls < MaxAlbumCalls /\ albumCalls' = albumCalls + 1
    /\ albumThere /\ (withPhotos \/ OnlyInAlbum = {})
    /\ albumThere' = FALSE /\ album' = {} /\ cover' = {}
    /\ UNCHANGED <<timeline, group, favorite, tagged, apc, goal, given, todo, popped, same, copies,
                   again, results, deleting, meddling, sends, took, aside>>

\* The first delete of delete_album_saving_photos: done, or refused with the photos
\* the server names, in any order (photos_only_in_album), which are then saved.
DeleteSaving ==
    /\ albumThere
    /\ \/ /\ apc = "idle" /\ albumCalls < MaxAlbumCalls /\ albumCalls' = albumCalls + 1
          /\ OnlyInAlbum = {}
          /\ albumThere' = FALSE /\ album' = {} /\ cover' = {}
          /\ UNCHANGED <<timeline, group, favorite, tagged, apc, goal, given, todo, popped, same,
                         copies, again, results, deleting, meddling, sends, took, aside>>
       \/ /\ OnlyInAlbum # {}
          /\ \E photos \in Orderings(OnlyInAlbum) : Open("load", photos, <<>>, "timeline")
          /\ deleting' = TRUE

\* Mutant of DeletesPhotos: the second delete takes the photos along.
DeletesPhotosToo == TRUE

\* The DeleteAlbumPhotos flag of the second delete.
DeletesPhotos == FALSE

\* The second delete, refused again if a photo has come in meanwhile.
DeleteAgain ==
    /\ apc = "delete" /\ apc' = "idle" /\ deleting' = FALSE
    /\ IF albumThere /\ (DeletesPhotos \/ OnlyInAlbum = {})
       THEN albumThere' = FALSE /\ album' = {} /\ cover' = {}
       ELSE UNCHANGED <<albumThere, album, cover>>
    /\ UNCHANGED <<timeline, group, favorite, tagged, goal, given, todo, popped, same, copies,
                   again, results, albumCalls, meddling, sends, took, aside>>

-----------------------------------------------------------------------------
(* create_album and set_album_cover, one request each.                     *)

AlbumRequest ==
    /\ apc = "idle" /\ albumCalls < MaxAlbumCalls /\ albumCalls' = albumCalls + 1
    /\ given' = <<>> /\ sends' = [p \in Photo |-> 0] /\ took' = {} /\ aside' = {}
    /\ UNCHANGED <<timeline, album, group, favorite, tagged, apc, goal, todo, popped, same, copies,
                   again, results, deleting, meddling>>

CreateAlbum == ~albumThere /\ AlbumRequest /\ albumThere' = TRUE /\ UNCHANGED cover

\* A cover on another volume is refused before anything is sent.
SetAlbumCover(p) ==
    albumThere /\ p \in Own /\ AlbumRequest /\ cover' = {p} /\ UNCHANGED albumThere

-----------------------------------------------------------------------------
(* remove_photos_from_album and update_photos.                             *)

\* Photos of another volume fail by themselves and are not sent.
RemovePhotos(photos) ==
    /\ albumThere
    /\ Open("remove", Picked(photos, {i \in 1 .. Len(photos) : photos[i] \in Own}),
            Picked(photos, {i \in 1 .. Len(photos) : photos[i] \in Foreign}), "out")
    /\ deleting' = FALSE

\* A batch goes out; the server tells nothing of a single photo.
RemoveBatch ==
    /\ apc = "remove"
    /\ IF todo = <<>> THEN apc' = "idle" /\ UNCHANGED <<album, todo, results, took>>
       ELSE LET n == Least(MaxRemoved, Len(todo))
                out == {todo[i].photo : i \in 1 .. n}
            IN  /\ \E removed \in {out \cap album \cap timeline, {}} :
                   \E result \in {"ok", "refused"} :
                      /\ result = "ok" => removed = out \cap album \cap timeline
                      /\ album' = album \ removed /\ took' = took \cup removed
                      /\ results' = results \o [i \in 1 .. n |-> [photo |-> todo[i].photo,
                                                                  result |-> result]]
                /\ todo' = SubSeq(todo, n + 1, Len(todo))
                /\ UNCHANGED apc
    /\ UNCHANGED <<timeline, albumThere, cover, group, favorite, tagged, goal, given, popped, same, copies,
                   again, deleting, albumCalls, meddling, sends, aside>>

\* update_photos takes photo after photo, each failing for itself.
UpdatePhotos(photos) == Open("tag", photos, <<>>, "tags") /\ deleting' = FALSE

\* The streaming form may be dropped between two photos.
UpdatePhotosStreaming ==
    /\ apc = "tag" /\ todo # <<>> /\ todo' = <<>>
    /\ UNCHANGED <<photoServer, apc, goal, given, popped, same, copies, again, results, deleting,
                   albumCalls, meddling, sends, took, aside>>

\* apply_tag_update: favorite first, and only on the own volume, then the tag.  A
\* request that fails leaves what was done before it.
TagPhoto ==
    /\ apc = "tag"
    /\ IF todo = <<>> THEN apc' = "idle" /\ UNCHANGED <<favorite, tagged, todo, results>>
       ELSE LET p == Head(todo).photo IN
            /\ todo' = Tail(todo) /\ UNCHANGED apc
            /\ \/ p \in Foreign /\ Report(p, "refused") /\ UNCHANGED <<favorite, tagged>>
               \/ Report(p, "refused") /\ UNCHANGED <<favorite, tagged>>
               \/ /\ p \in Own /\ p \in Present /\ favorite' = favorite \cup {p}
                  /\ \/ tagged' = tagged \cup {p} /\ Report(p, "ok")
                     \/ UNCHANGED tagged /\ Report(p, "refused")
    /\ UNCHANGED <<timeline, album, albumThere, cover, group, goal, given, popped, same, copies, again,
                   deleting, albumCalls, meddling, sends, took, aside>>

-----------------------------------------------------------------------------
(* Other clients of the account.                                           *)

\* A photo gets a related one, comes into the album, or is saved.
Meddle ==
    /\ meddling < MaxMeddling /\ meddling' = meddling + 1
    /\ \/ \E p, r \in Photo :
             /\ p # r /\ p \in Present /\ r \in Present /\ (p \in Foreign) = (r \in Foreign)
             /\ r \notin group[p] /\ group' = [group EXCEPT ![p] = @ \cup {r}]
             /\ UNCHANGED <<timeline, album>>
       \/ \E p \in timeline \ album :
             /\ albumThere /\ album' = album \cup {p}
             /\ timeline' \in {timeline, timeline \ {p}}
             /\ UNCHANGED group
       \/ \E p \in OnlyInAlbum : timeline' = timeline \cup {p} /\ UNCHANGED <<album, group>>
    /\ UNCHANGED <<albumThere, cover, favorite, tagged, apc, goal, given, todo, popped, same, copies, again,
                   results, deleting, albumCalls, sends, took, aside>>

AlbumNext ==
    \/ \E photos \in Requests :
          \/ AddPhotosToAlbum(photos) \/ SavePhotosToTimeline(photos)
          \/ RemovePhotos(photos) \/ UpdatePhotos(photos)
    \/ LoadPayload \/ RoundLoaded \/ SendBatch \/ BatchLost \/ CopyPhoto \/ RoundDone
    \/ \E withPhotos \in BOOLEAN : DeleteAlbum(withPhotos)
    \/ CreateAlbum \/ \E p \in Photo : SetAlbumCover(p)
    \/ UpdatePhotosStreaming
    \/ DeleteSaving \/ DeleteAgain \/ RemoveBatch \/ TagPhoto \/ Meddle

AlbumSpec == AlbumInit /\ [][AlbumNext]_albumVars

-----------------------------------------------------------------------------
(* Properties.                                                             *)

\* delete_album_saving_photos loses no photo: whatever comes into the album between
\* its two deletes, a photo is gone only after delete_album was told to delete it.
PhotosSurvive == [][deleting => Own \ (timeline \cup album) = Own \ (timeline' \cup album')]_albumVars

Transferred == apc = "idle" /\ given # <<>> /\ goal \in {"timeline", "album"}

\* A transfer that ends reports every photo it was given, once for each time it was
\* listed.  With no photo listed twice, a photo reported ok was brought in by the call,
\* and one reported as refused was not; the exceptions are a photo that came in as
\* related to another one, a request that was sent twice, and a copy whose answer was
\* lost.  No photo is sent more than twice, however often the server asks for its
\* related photos.
TransferReported ==
    /\ Transferred =>
          /\ \A p \in Photo : CountOf(Mains(results), p) = CountOf(given, p)
          /\ (\A p \in Photo : CountOf(given, p) <= 1) =>
                \A i \in 1 .. Len(results) :
                   /\ results[i].result = "ok" => results[i].photo \in took
                   /\ results[i].photo \in took \ aside => results[i].result = "ok"
    /\ \A p \in Photo : CountOf(given, p) <= 1 => sends[p] <= 2
=============================================================================
