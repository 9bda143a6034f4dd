----------------------------- MODULE BlockUpload -----------------------------
(***************************************************************************)
(* Storing the blocks of one batch (proton-drive-rs/src/client.rs,         *)
(* upload_one_block under upload_batch).                                   *)
(*                                                                         *)
(* At most Width jobs are under way.  Every post takes one unit of the     *)
(* file's limiter, or all of them once a timeout has set downshifted; a    *)
(* tokio Semaphore serves its waiters in order.  A failed post is repeated *)
(* a few times, and a content block whose upload token has expired is      *)
(* prepared again first.  The first error ends the batch.                  *)
(***************************************************************************)
EXTENDS Integers, Sequences, FiniteSets

CONSTANTS
    Content,      \* the jobs for content blocks
    Thumbnail,    \* the jobs for thumbnails, which cannot be prepared again
    Width,        \* MAX_CONCURRENT_BLOCK_UPLOADS
    MaxAttempts   \* MAX_BLOCK_UPLOAD_ATTEMPTS

ASSUME UploadAssumption == Width \in Nat \ {0} /\ MaxAttempts \in Nat \ {0}
ASSUME JobAssumption == Content \cap Thumbnail = {}

Job == Content \cup Thumbnail

VARIABLES
    job,          \* job[j]: where job j stands
    tries,        \* tries[j]: posts begun
    want,         \* want[j]: units asked for or held
    line,         \* the limiter's waiters
    units,        \* the limiter's free units
    downshifted,  \* the flag
    aim,          \* aim[j]: number of the upload target j aims at
    deadAim,      \* history: deadAim[j] is the target last reported as expired
    solo          \* history: solo[j]: downshifted was set when j began its post

postVars == <<job, tries, want, line, units, downshifted, aim, deadAim, solo>>

Active == {"try", "queued", "posting", "prepare"}

PostInit ==
    /\ job = [j \in Job |-> "idle"]
    /\ tries = [j \in Job |-> 0]
    /\ want = [j \in Job |-> 0]
    /\ line = <<>> /\ units = Width
    /\ downshifted = FALSE
    /\ aim = [j \in Job |-> 1]
    /\ deadAim = [j \in Job |-> 0]
    /\ solo = [j \in Job |-> FALSE]

Move(j, label) == job' = [job EXCEPT ![j] = label]

-----------------------------------------------------------------------------
\* buffer_unordered starts a job while fewer than Width are under way.
StartJob(j) ==
    /\ job[j] = "idle"
    /\ Cardinality({k \in Job : job[k] \in Active}) < Width
    /\ Move(j, "try")
    /\ UNCHANGED <<tries, want, line, units, downshifted, aim, deadAim, solo>>

\* Mutant of Wanted: the flag is never looked at.
WantedOne == 1

\* The units a post takes: all of them after a timeout.
Wanted == IF downshifted THEN Width ELSE 1

Begin(j, n) ==
    /\ units' = units - n
    /\ solo' = [solo EXCEPT ![j] = downshifted]
    /\ Move(j, "posting")

\* The top of the loop: count the attempt, look at the flag and, without a pause
\* between, take the units and begin the post or get in line for them.
Acquire(j) ==
    /\ job[j] = "try"
    /\ tries' = [tries EXCEPT ![j] = @ + 1]
    /\ want' = [want EXCEPT ![j] = Wanted]
    /\ IF line = <<>> /\ units >= Wanted
       THEN Begin(j, Wanted) /\ UNCHANGED line
       ELSE Move(j, "queued") /\ line' = Append(line, j) /\ UNCHANGED <<units, solo>>
    /\ UNCHANGED <<downshifted, aim, deadAim>>

\* The limiter serves the head of the line; the post begins.
Served(j) ==
    /\ job[j] = "queued" /\ Head(line) = j /\ units >= want[j]
    /\ line' = Tail(line)
    /\ Begin(j, want[j])
    /\ UNCHANGED <<tries, want, downshifted, aim, deadAim>>

\* The slot is dropped with the end of the post.
ReleaseSlot(j) == units' = units + want[j]

Stored(j) ==
    /\ job[j] = "posting"
    /\ ReleaseSlot(j)
    /\ Move(j, "stored")
    /\ UNCHANGED <<tries, want, line, downshifted, aim, deadAim, solo>>

LastAttempt(j) == tries[j] >= MaxAttempts

\* Where a retriable error leads: a content block with an expired token is
\* prepared again, anything else just tried again.
AfterError(j, e) == IF e = "expired" /\ j \in Content THEN "prepare" ELSE "try"

\* The error is returned: try_collect drops every other job of the batch.
BatchFails ==
    /\ job' = [k \in Job |-> IF job[k] = "stored" THEN "stored" ELSE "ended"]
    /\ line' = <<>> /\ units' = Width
    /\ UNCHANGED <<tries, want, downshifted, aim, deadAim, solo>>

\* A post fails with e and is worth another attempt.
RetryAfter(j, e) ==
    /\ job[j] = "posting" /\ e # "permanent" /\ ~LastAttempt(j)
    /\ ReleaseSlot(j)
    /\ downshifted' = (downshifted \/ e = "timeout")
    /\ deadAim' = IF e = "expired" THEN [deadAim EXCEPT ![j] = aim[j]] ELSE deadAim
    /\ Move(j, AfterError(j, e))
    /\ UNCHANGED <<tries, want, line, aim, solo>>

\* A permanent rejection, or the last attempt.
GiveUp(j, e) ==
    /\ job[j] = "posting" /\ (e = "permanent" \/ LastAttempt(j))
    /\ BatchFails

\* request_upload_targets for the one block answers with a new target ...
PreparedPost(j) ==
    /\ job[j] = "prepare"
    /\ aim' = [aim EXCEPT ![j] = @ + 1]
    /\ Move(j, "try")
    /\ UNCHANGED <<tries, want, line, units, downshifted, deadAim, solo>>

\* ... or fails.
PrepareFails(j) == job[j] = "prepare" /\ BatchFails

JobStep(j) ==
    \/ StartJob(j) \/ Acquire(j) \/ Served(j) \/ Stored(j) \/ PreparedPost(j) \/ PrepareFails(j)
    \/ \E e \in {"timeout", "expired", "transient", "permanent"} : RetryAfter(j, e) \/ GiveUp(j, e)

PostNext == \E j \in Job : JobStep(j)

-----------------------------------------------------------------------------
Posting == {j \in Job : job[j] = "posting"}

\* A post begun after a timeout runs alone: it waits for the posts still under way
\* and nothing begins beside it, for the rest of the file.  And no content block is
\* sent again to a target whose token has expired.
RetriesBehave ==
    /\ \A j \in Posting : solo[j] => Posting = {j}
    /\ \A j \in Content : job[j] = "posting" => aim[j] # deadAim[j]

\* A batch does not hang in its own limiter: every job is stored or the batch
\* fails as a whole.
BatchEnds ==
    (\E j \in Job : job[j] \in Active) ~> \A j \in Job : job[j] \in {"stored", "ended"}
=============================================================================
