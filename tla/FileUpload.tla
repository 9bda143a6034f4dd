----------------------------- MODULE FileUpload -----------------------------
(***************************************************************************)
(* Uploads of one file name: the one-request small upload and the draft,   *)
(* blocks, seal protocol with its recovery of stale drafts                 *)
(* (proton-drive-rs/src/client.rs: upload_file, upload_new_revision,       *)
(* upload_file_from_inner, upload_new_revision_from, create_file_draft,    *)
(* create_revision_draft, seal_revision), several uploads by several       *)
(* clients at once.                                                        *)
(*                                                                         *)
(* The server is external: it holds the committed versions of the file and *)
(* at most one open draft, marked with the session that opened it.  It     *)
(* opens a draft or takes a small upload only when no draft is open and,   *)
(* for a new file, nothing is committed, for a revision, the version it is *)
(* based on is still the active one; it seals and deletes only the draft   *)
(* it is asked to.  A request may be applied while its answer is lost; the *)
(* HTTP layer then sends it again, and the first copy may arrive any time. *)
(***************************************************************************)
EXTENDS Integers, Sequences

CONSTANTS
    Upload,            \* the upload calls
    Session,           \* client uids
    MaxDraftAttempts,  \* MAX_DRAFT_ATTEMPTS
    MaxLosses          \* bound: answers lost

ASSUME AttemptsAssumption == MaxDraftAttempts \in Nat \ {0} /\ MaxLosses \in Nat

VARIABLES
    inPhotos,    \* the folder is the photos root
    upload,      \* upload[u]: the parameters of upload u
    upc,         \* upc[u]: where it stands
    baseOf,      \* baseOf[u]: the active version it read
    tries,       \* tries[u]: drafts it has tried to open
    mine,        \* mine[u]: the draft it works on, or the one it is deleting
    history,     \* server: the commits, oldest first
    openDraft,   \* server: the open draft or NoDraft
    opened,      \* server: drafts opened so far
    late,        \* requests whose answer was given up and that may still arrive
    losses,      \* answers lost so far
    killed       \* history: drafts deleted, with owner and deleter

fileVars == <<inPhotos, upload, upc, baseOf, tries, mine, history, openDraft, opened, late, losses,
              killed>>
fileServer == <<inPhotos, history, openDraft, opened, killed>>

NoDraft == [id |-> 0, owner |-> "nobody"]
UploadRunning == {"base", "small", "create", "delete", "write", "seal"}
Version == Len(history)

FileInit ==
    /\ inPhotos \in BOOLEAN
    /\ upload = [u \in Upload |-> [kind |-> "file", session |-> "nobody", override |-> FALSE,
                                   small |-> FALSE]]
    /\ upc = [u \in Upload |-> "idle"]
    /\ baseOf = [u \in Upload |-> 0]
    /\ tries = [u \in Upload |-> 0]
    /\ mine = [u \in Upload |-> 0]
    /\ history = <<>>
    /\ openDraft = NoDraft
    /\ opened = 0
    /\ late = {} /\ losses = 0 /\ killed = {}

GoOn(u, label) == upc' = [upc EXCEPT ![u] = label]

-----------------------------------------------------------------------------
(* The server.                                                             *)

\* The request of u in its present state.
RequestOf(u) == [op |-> upc[u], by |-> u, base |-> baseOf[u], id |-> mine[u], copy |-> losses]

Appliable(m) ==
    IF m.op \in {"create", "small"}
    THEN openDraft = NoDraft /\ Version = m.base /\ (upload[m.by].kind = "revision" => m.base > 0)
    ELSE openDraft # NoDraft /\ openDraft.id = m.id

CommitOn(m) == history' = Append(history, [by |-> m.by, id |-> IF m.op = "seal" THEN m.id ELSE 0])

ApplyOn(m) ==
    \/ /\ m.op = "create"
       /\ openDraft' = [id |-> opened + 1, owner |-> upload[m.by].session]
       /\ opened' = opened + 1
       /\ UNCHANGED <<inPhotos, history, killed>>
    \/ /\ m.op = "small"
       /\ CommitOn(m)
       /\ UNCHANGED <<inPhotos, openDraft, opened, killed>>
    \/ /\ m.op = "seal"
       /\ CommitOn(m)
       /\ openDraft' = NoDraft
       /\ UNCHANGED <<inPhotos, opened, killed>>
    \/ /\ m.op = "delete"
       /\ openDraft' = NoDraft
       /\ killed' = killed \cup {[owner |-> openDraft.owner, by |-> m.by]}
       /\ UNCHANGED <<inPhotos, history, opened>>

\* A copy the client no longer waits for arrives.
ArriveLate(m) ==
    /\ late' = late \ {m}
    /\ IF Appliable(m) THEN ApplyOn(m) ELSE UNCHANGED fileServer
    /\ UNCHANGED <<upload, upc, baseOf, tries, mine, losses>>

\* The answer is lost on the way (a timeout, a retryable status from a gateway):
\* send_retrying sends the request again.
Resend(u) ==
    /\ upc[u] \in {"small", "create", "delete", "seal"} /\ losses < MaxLosses
    /\ losses' = losses + 1
    /\ late' = late \cup {RequestOf(u)}
    /\ UNCHANGED <<upload, upc, baseOf, tries, mine, fileServer>>

\* Any other failure, the end of the retries, the end of the process, or the
\* caller drops the upload: a request may have left, and an open draft stays.
FailUpload(u) ==
    /\ upc[u] \in UploadRunning
    /\ GoOn(u, "failed")
    /\ late' \in {late, IF upc[u] \in {"base", "write"} THEN late ELSE late \cup {RequestOf(u)}}
    /\ UNCHANGED <<upload, baseOf, tries, mine, losses, fileServer>>


-----------------------------------------------------------------------------
(* The upload calls.                                                       *)

\* A revision is uploaded to a file that exists; it starts by reading its active
\* version.  Contents that fit in one request go out in one.
StartUpload(u, kind, override, small) ==
    /\ upc[u] = "idle"
    /\ kind = "revision" => Version > 0
    /\ \E s \in Session : upload' = [upload EXCEPT ![u] =
          [kind |-> kind, session |-> s, override |-> override, small |-> small]]
    /\ GoOn(u, IF kind = "revision" THEN "base" ELSE IF small THEN "small" ELSE "create")
    /\ UNCHANGED <<baseOf, tries, mine, late, losses, fileServer>>

UploadFile(u, small) == ~inPhotos /\ StartUpload(u, "file", FALSE, small)
UploadFileFrom(u) == ~inPhotos /\ StartUpload(u, "file", FALSE, FALSE)
UploadFileReplacingDraftFrom(u) == ~inPhotos /\ StartUpload(u, "file", TRUE, FALSE)
UploadNewRevision(u, small) == StartUpload(u, "revision", FALSE, small)
UploadNewRevisionFrom(u) == StartUpload(u, "revision", FALSE, FALSE)

\* upload_photo_from: the folder is the photos root, without which there is no draft.
UploadPhotoFrom(u) == inPhotos /\ StartUpload(u, "file", FALSE, FALSE)

ReadBase(u) ==
    /\ upc[u] = "base"
    /\ baseOf' = [baseOf EXCEPT ![u] = Version]
    /\ GoOn(u, IF upload[u].small THEN "small" ELSE "create")
    /\ UNCHANGED <<upload, tries, mine, late, losses, fileServer>>

\* A taken name and an open draft are answered AlreadyExists, on which the upload falls
\* back to blocks; an outdated base with that code or another one, which ends it.
SmallAnswered(u, fallBack) ==
    /\ IF Appliable(RequestOf(u))
       THEN /\ ApplyOn(RequestOf(u))
            /\ GoOn(u, "ok")
            /\ UNCHANGED upload
       ELSE /\ \/ /\ upload' = [upload EXCEPT ![u].small = FALSE]
                  /\ GoOn(u, fallBack)
               \/ /\ upload[u].kind = "revision" /\ baseOf[u] # Version
                  /\ GoOn(u, "failed")
                  /\ UNCHANGED upload
            /\ UNCHANGED fileServer
    /\ UNCHANGED <<baseOf, tries, mine, late, losses>>

\* The small upload commits, or falls back to blocks on AlreadyExists.
SmallFileAnswered(u) ==
    upc[u] = "small" /\ upload[u].kind = "file" /\ SmallAnswered(u, "create")

\* So does the small revision; falling back, it reads the active version again.
SmallRevisionAnswered(u) ==
    upc[u] = "small" /\ upload[u].kind = "revision" /\ SmallAnswered(u, "base")

-----------------------------------------------------------------------------
(* create_file_draft and create_revision_draft.                            *)

\* The conflict names a draft this upload may delete: for a new file, one
\* without a committed revision, of its own session or of any when told to
\* override; for a revision, one of its own session.
Recoverable(u) ==
    /\ openDraft # NoDraft
    /\ upload[u].kind = "file" => Version = 0
    /\ openDraft.owner = upload[u].session \/ upload[u].override

\* POST of the draft: opened, or a conflict to clear, or a failure.
CreateAnswered(u) ==
    /\ upc[u] = "create"
    /\ tries' = [tries EXCEPT ![u] = @ + 1]
    /\ IF Appliable(RequestOf(u))
       THEN /\ ApplyOn(RequestOf(u))
            /\ mine' = [mine EXCEPT ![u] = opened + 1]
            /\ GoOn(u, "write")
       ELSE /\ IF Recoverable(u)
               THEN mine' = [mine EXCEPT ![u] = openDraft.id] /\ GoOn(u, "delete")
               ELSE GoOn(u, "failed") /\ UNCHANGED mine
            /\ UNCHANGED fileServer
    /\ UNCHANGED <<upload, baseOf, late, losses>>

Sealed(id) == \E x \in DOMAIN history : history[x].id = id

\* The next turn of the loop, if there is one.
NextAttempt(u) == GoOn(u, IF tries[u] >= MaxDraftAttempts THEN "exhausted" ELSE "create")

\* The conflicting draft is deleted.  delete_draft_nodes tolerates that it is
\* gone, delete_revision_by_ids does not; a draft sealed meanwhile is refused.
DeleteAnswered(u) ==
    /\ upc[u] = "delete"
    /\ IF Appliable(RequestOf(u))
       THEN ApplyOn(RequestOf(u)) /\ NextAttempt(u)
       ELSE /\ IF upload[u].kind = "file" /\ ~Sealed(mine[u])
               THEN NextAttempt(u) ELSE GoOn(u, "failed")
            /\ UNCHANGED fileServer
    /\ UNCHANGED <<upload, baseOf, tries, mine, late, losses>>

\* write_blocks: the draft takes the blocks while it is there.
BlocksWritten(u) ==
    /\ upc[u] = "write"
    /\ openDraft # NoDraft /\ openDraft.id = mine[u]
    /\ GoOn(u, "seal")
    /\ UNCHANGED <<upload, baseOf, tries, mine, late, losses, fileServer>>

\* Mutant of SealAnswered: a refused seal is taken for a repeated one.
SealAnsweredAlways(u) ==
    /\ upc[u] = "seal"
    /\ GoOn(u, "ok")
    /\ IF Appliable(RequestOf(u)) THEN ApplyOn(RequestOf(u)) ELSE UNCHANGED fileServer
    /\ UNCHANGED <<upload, baseOf, tries, mine, late, losses>>

\* seal_revision: the draft becomes the active version.
SealAnswered(u) ==
    /\ upc[u] = "seal"
    /\ IF Appliable(RequestOf(u))
       THEN ApplyOn(RequestOf(u)) /\ GoOn(u, "ok")
       ELSE GoOn(u, "failed") /\ UNCHANGED fileServer
    /\ UNCHANGED <<upload, baseOf, tries, mine, late, losses>>

FileNext ==
    \/ \E u \in Upload :
          \/ \E small \in BOOLEAN : UploadFile(u, small) \/ UploadNewRevision(u, small)
          \/ UploadFileFrom(u) \/ UploadFileReplacingDraftFrom(u) \/ UploadNewRevisionFrom(u)
          \/ UploadPhotoFrom(u)
          \/ ReadBase(u) \/ SmallFileAnswered(u) \/ SmallRevisionAnswered(u) \/ CreateAnswered(u)
          \/ DeleteAnswered(u) \/ BlocksWritten(u) \/ SealAnswered(u)
          \/ Resend(u) \/ FailUpload(u)
    \/ \E m \in late : ArriveLate(m)

FileSpec == FileInit /\ [][FileNext]_fileVars

-----------------------------------------------------------------------------
(* Properties.                                                             *)

Commits(u) == {x \in DOMAIN history : history[x].by = u}

\* An upload that reports success has committed its content, whoever fought over
\* its draft meanwhile.
OkMeansCommitted == \A u \in Upload : upc[u] = "ok" => Commits(u) # {}

\* An upload through a draft commits at most once, however often its requests
\* are repeated and however late they arrive.
DraftCommitsOnce ==
    \A u \in Upload : \A x, y \in Commits(u) :
        (history[x].id # 0 /\ history[y].id # 0) => x = y

\* Another client's draft is deleted only by an upload told to override, and
\* none by repetition or late arrival of a delete.
ForeignDraftsKept ==
    \A k \in killed : k.owner = upload[k.by].session \/ upload[k.by].override

\* Uploads that fight over the draft of one file, with answers lost and requests
\* arriving late, tell the truth about their commit, commit once, and respect the
\* drafts of other clients.
UploadsSound == OkMeansCommitted /\ DraftCommitsOnce /\ ForeignDraftsKept

\* What the comment on small_upload_should_fall_back says: a small upload is not
\* replayed, for that would risk a duplicate.
CommitsOnce == \A u \in Upload : \A x, y \in Commits(u) : x = y
=============================================================================
