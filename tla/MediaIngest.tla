------------------------------ MODULE MediaIngest ------------------------------
(***************************************************************************)
(* From an uploaded photo to a photo the story can use.  The components    *)
(* are the job queue (rows of JobRow), the rows of media_items and         *)
(* media_assets, and the blob store, which takes part in no transaction.   *)
(*                                                                         *)
(* A worker that ingests a photo commits once at the start (PROCESSING)    *)
(* and once at the end (READY, the assets and the retention state          *)
(* together).  Between the two it writes the derivatives to the blob store *)
(* and deletes the original from it, so that a rollback undoes the rows    *)
(* but not the blobs.  The retry endpoint and the contributor's deletion   *)
(* of a photo run at any time.                                             *)
(*                                                                         *)
(* ProcessingJobs shows every handler as one step.  That the ingest, a     *)
(* handler of many steps, is such a handler is ImplementsQueue.            *)
(***************************************************************************)
EXTENDS JobRow, FiniteSets

CONSTANTS
  Media,                \* photos; each has one ingest job
  Invalid,              \* those whose bytes fail validation (FINAL_MEDIA_ERRORS)
  Workers,              \* worker threads
  MaxAttempts,          \* the column max_attempts
  LockOutlivesHandlers, \* TRUE: no handler runs longer than the lock timeout
  UserRetries,          \* TRUE: users call the retry endpoint
  FaultPoints           \* where a worker can be killed or see an I/O error

NoJob == "no job"

ASSUME MediaAssumption == NoJob \notin Media
ASSUME InvalidAssumption == Invalid \subseteq Media
ASSUME MaxAttemptsAssumption == MaxAttempts \in Nat \ {0}
ASSUME EnvironmentAssumption ==
  LockOutlivesHandlers \in BOOLEAN /\ UserRetries \in BOOLEAN

VARIABLES
  job,      \* the ingest job of each photo
  media,    \* its row of media_items, and whether it has both media_assets
  original, \* the photos whose original is in the blob store
  derived,  \* the derivatives of each photo in the blob store
  pc,       \* where each worker is in handle_job
  claim,    \* its ClaimedJob
  seen,     \* the job row its session loaded
  item,     \* the media row its session loaded, or last committed
  stored,   \* the derivatives it has put since it began
  retry     \* the rows a retry request on the photo has loaded

vars == <<job, media, original, derived, pc, claim, seen, item, stored, retry>>
blobs == <<original, derived>>
session == <<seen, item, stored>>

Derivatives == {"thumbnail", "display"}

MediaStates == {"absent", "pending", "processing", "ready", "failed"}

MediaRows ==
  [state : MediaStates, retention : {"temporary", "deleted"},
   assets : BOOLEAN, deleted : BOOLEAN]

AbsentMedia ==
  [state |-> "absent", retention |-> "temporary", assets |-> FALSE, deleted |-> FALSE]

NewMedia == [AbsentMedia EXCEPT !.state = "pending"]

Claims == [job : Media \cup {NoJob}, attempt : Nat, retryable : BOOLEAN]

NoClaim == [job |-> NoJob, attempt |-> 0, retryable |-> FALSE]

NoRetry == [job |-> AbsentRow, media |-> AbsentMedia]

\* Inside ingest_media, in the order the steps are taken.
IngestPCs ==
  {"loading", "marking", "reading", "applying", "storing", "discarding", "committing"}

PCs == {"idle", "down", "dead", "ingested", "completing", "raised", "failing"} \cup IngestPCs

Active(w) == pc[w] \notin {"idle", "down", "dead"}

Owners(m) == {w \in Workers : Active(w) /\ claim[w].job = m}

\* The first UPDATE of the second transaction locks the media row until its end.
InTransaction(w) == pc[w] \in {"storing", "discarding", "committing"}

RowIsFree(m) == \A w \in Workers : InTransaction(w) => claim[w].job # m

Init ==
  /\ job = [m \in Media |-> AbsentRow]
  /\ media = [m \in Media |-> AbsentMedia]
  /\ original = {}
  /\ derived = [m \in Media |-> {}]
  /\ pc = [w \in Workers |-> "idle"]
  /\ claim = [w \in Workers |-> NoClaim]
  /\ seen = [w \in Workers |-> AbsentRow]
  /\ item = [w \in Workers |-> AbsentMedia]
  /\ stored = [w \in Workers |-> {}]
  /\ retry = [m \in Media |-> NoRetry]

-----------------------------------------------------------------------------
(* Requests.                                                               *)

\* complete_upload_file found the uploaded object: it inserts the media row and
\* its job in one transaction.
CompleteUpload(m) ==
  /\ media[m].state = "absent"
  /\ media' = [media EXCEPT ![m] = NewMedia]
  /\ job' = [job EXCEPT ![m] = NewRow]
  /\ original' = original \cup {m}
  /\ UNCHANGED <<derived, pc, claim, session, retry>>

\* The contributor deletes the photo; blobs and job stay.
DeleteMedia(m) ==
  /\ media[m].state # "absent" /\ ~media[m].deleted
  /\ RowIsFree(m)
  /\ media' = [media EXCEPT ![m].deleted = TRUE]
  /\ UNCHANGED <<job, blobs, pc, claim, session, retry>>

\* The retry endpoint refuses a photo that is deleted or whose original is; it
\* asks neither for a failed photo nor for a job that is not running.
RetryLoad(m) ==
  /\ UserRetries
  /\ retry[m] = NoRetry
  /\ media[m].state # "absent" /\ ~media[m].deleted
  /\ media[m].retention # "deleted"
  /\ retry' = [retry EXCEPT ![m] = [job |-> job[m], media |-> media[m]]]
  /\ UNCHANGED <<job, media, blobs, pc, claim, session>>

RetryCommit(m) ==
  /\ retry[m] # NoRetry
  /\ RowIsFree(m)
  /\ job' = [job EXCEPT ![m] = RequeuedRow(@, retry[m].job, TRUE)]
  /\ media' = [media EXCEPT ![m].state = Written("pending", retry[m].media.state, @)]
  /\ retry' = [retry EXCEPT ![m] = NoRetry]
  /\ UNCHANGED <<blobs, pc, claim, session>>

-----------------------------------------------------------------------------
(* ingest_media, step by step.                                             *)

Goto(w, step) == pc' = [pc EXCEPT ![w] = step]

\* handle_job leaves the session of ingest_media, which rolls it back.
Raise(w, retryable) ==
  /\ Goto(w, "raised")
  /\ claim' = [claim EXCEPT ![w].retryable = retryable]
  /\ stored' = [stored EXCEPT ![w] = {}]

Claim(w, m) ==
  /\ pc[w] = "idle"
  /\ Eligible(job[m], MaxAttempts)
  /\ job' = [job EXCEPT ![m] = ClaimedRow(@)]
  /\ claim' = [claim EXCEPT ![w] =
                 [job |-> m, attempt |-> job[m].attempts + 1, retryable |-> FALSE]]
  /\ Goto(w, "loading")
  /\ UNCHANGED <<media, blobs, session, retry>>

\* Mutant: a photo is processed again whatever state it is in.
LoadMediaEveryTime(w) ==
  LET row == media[claim[w].job]
  IN  /\ pc[w] = "loading"
      /\ IF row.deleted
           THEN Raise(w, TRUE) /\ UNCHANGED item
           ELSE /\ Goto(w, "marking")
                /\ item' = [item EXCEPT ![w] = row]
                /\ UNCHANGED <<claim, stored>>
      /\ UNCHANGED <<job, media, blobs, seen, retry>>

\* A photo that is already READY with its assets is not processed again.
LoadMedia(w) ==
  LET row == media[claim[w].job]
  IN  /\ pc[w] = "loading"
      /\ \/ /\ row.deleted
            /\ Raise(w, TRUE)
            /\ UNCHANGED item
         \/ /\ ~row.deleted
            /\ IF row.state = "ready" /\ row.assets
               THEN Goto(w, "ingested") /\ UNCHANGED item
               ELSE Goto(w, "marking") /\ item' = [item EXCEPT ![w] = row]
            /\ UNCHANGED <<claim, stored>>
      /\ UNCHANGED <<job, media, blobs, seen, retry>>

\* The first commit: PROCESSING.
MarkProcessing(w) ==
  LET m == claim[w].job
  IN  /\ pc[w] = "marking"
      /\ RowIsFree(m)
      /\ media' = [media EXCEPT ![m].state = Written("processing", item[w].state, @)]
      /\ item' = [item EXCEPT ![w].state = "processing"]
      /\ Goto(w, "reading")
      /\ UNCHANGED <<job, blobs, claim, seen, stored, retry>>

\* A missing original is reported as retryable, invalid bytes as final.
ReadOriginal(w) ==
  LET m == claim[w].job
  IN  /\ pc[w] = "reading"
      /\ \/ m \notin original /\ Raise(w, TRUE)
         \/ m \in original \cap Invalid /\ Raise(w, FALSE)
         \/ /\ m \in original \ Invalid
            /\ Goto(w, "applying")
            /\ UNCHANGED <<claim, stored>>
      /\ UNCHANGED <<job, media, blobs, seen, item, retry>>

\* Mutant: the original is deleted before the derivatives are stored.
DiscardWhenApplying(w) ==
  /\ pc[w] = "applying"
  /\ RowIsFree(claim[w].job)
  /\ original' = original \ {claim[w].job}
  /\ Goto(w, "storing")
  /\ UNCHANGED <<job, media, derived, claim, session, retry>>

\* The flush of the extracted metadata and of READY opens the second transaction.
ApplyMetadata(w) ==
  /\ pc[w] = "applying"
  /\ RowIsFree(claim[w].job)
  /\ Goto(w, "storing")
  /\ UNCHANGED <<job, media, blobs, claim, session, retry>>

\* Mutant: done after the first put.
StoreOneDerivative(w) ==
  /\ pc[w] = "storing"
  /\ \E d \in Derivatives :
       /\ derived' = [derived EXCEPT ![claim[w].job] = @ \cup {d}]
       /\ stored' = [stored EXCEPT ![w] = @ \cup {d}]
       /\ Goto(w, "discarding")
  /\ UNCHANGED <<job, media, original, claim, seen, item, retry>>

\* The thumbnail is put before the display image.
StoreDerivative(w) ==
  /\ pc[w] = "storing"
  /\ \E d \in Derivatives \ stored[w] :
       /\ d = "display" => "thumbnail" \in stored[w]
       /\ derived' = [derived EXCEPT ![claim[w].job] = @ \cup {d}]
       /\ stored' = [stored EXCEPT ![w] = @ \cup {d}]
       /\ IF stored'[w] = Derivatives THEN Goto(w, "discarding") ELSE UNCHANGED pc
  /\ UNCHANGED <<job, media, original, claim, seen, item, retry>>

\* Mutant: the delete is left out, the retention state is still written.
DiscardNothing(w) ==
  /\ pc[w] = "discarding"
  /\ Goto(w, "committing")
  /\ UNCHANGED <<job, media, blobs, claim, session, retry>>

\* discard_temporary_original decides with the row loaded at the start.
DiscardOriginal(w) ==
  /\ pc[w] = "discarding"
  /\ original' = IF item[w].retention = "temporary"
                 THEN original \ {claim[w].job} ELSE original
  /\ Goto(w, "committing")
  /\ UNCHANGED <<job, media, derived, claim, session, retry>>

\* The second commit.  It also rebuilds the map projection of the trip and asks
\* for an automatic story update (AutoStoryUpdate).
CommitIngest(w) ==
  LET m == claim[w].job
  IN  /\ pc[w] = "committing"
      /\ media' = [media EXCEPT
           ![m].state = Written("ready", item[w].state, @),
           ![m].retention = Written("deleted", item[w].retention, @),
           ![m].assets = TRUE]
      /\ stored' = [stored EXCEPT ![w] = {}]
      /\ Goto(w, "ingested")
      /\ UNCHANGED <<job, blobs, claim, seen, item, retry>>

\* A database or blob-store error at any point of the handler.  At the commit it
\* need not be a lost connection: a concurrent rebuild of the map projection or
\* a concurrent first request of the story update violates a unique constraint.
Fault(w) ==
  /\ pc[w] \in FaultPoints \cap (IngestPCs \cup {"completing"})
  /\ Raise(w, TRUE)
  /\ UNCHANGED <<job, media, blobs, seen, item, retry>>

-----------------------------------------------------------------------------
(* complete_job and fail_job.                                              *)

Release(w) ==
  /\ claim' = [claim EXCEPT ![w] = NoClaim]
  /\ seen' = [seen EXCEPT ![w] = AbsentRow]
  /\ item' = [item EXCEPT ![w] = AbsentMedia]
  /\ stored' = [stored EXCEPT ![w] = {}]

CompleteLoad(w) ==
  /\ pc[w] = "ingested"
  /\ seen' = [seen EXCEPT ![w] = job[claim[w].job]]
  /\ Goto(w, "completing")
  /\ UNCHANGED <<job, media, blobs, claim, item, stored, retry>>

CompleteCommit(w) ==
  /\ pc[w] = "completing"
  /\ job' = [job EXCEPT ![claim[w].job] = CompletedRow(@, seen[w], FALSE)]
  /\ Goto(w, "idle")
  /\ Release(w)
  /\ UNCHANGED <<media, blobs, retry>>

FailLoad(w) ==
  /\ pc[w] = "raised"
  /\ seen' = [seen EXCEPT ![w] = job[claim[w].job]]
  /\ item' = [item EXCEPT ![w] = media[claim[w].job]]
  /\ Goto(w, "failing")
  /\ UNCHANGED <<job, media, blobs, claim, stored, retry>>

\* Mutant: the photo is marked failed by every failure, not only a final one.
FailCommitMarksAlways(w) ==
  LET m     == claim[w].job
      final == IsFinalFailure(claim[w].attempt, MaxAttempts, claim[w].retryable)
  IN  /\ pc[w] = "failing"
      /\ RowIsFree(m)
      /\ job' = [job EXCEPT ![m] = FailedRow(@, seen[w], final)]
      /\ media' = [media EXCEPT ![m].state = Written("failed", item[w].state, @)]
      /\ Goto(w, "idle")
      /\ Release(w)
      /\ UNCHANGED <<blobs, retry>>

\* Mutant: a final failure forgets the photo.
FailCommitJobOnly(w) ==
  LET m     == claim[w].job
      final == IsFinalFailure(claim[w].attempt, MaxAttempts, claim[w].retryable)
  IN  /\ pc[w] = "failing"
      /\ job' = [job EXCEPT ![m] = FailedRow(@, seen[w], final)]
      /\ Goto(w, "idle")
      /\ Release(w)
      /\ UNCHANGED <<media, blobs, retry>>

\* Mutant: invalid bytes are tried again like any other failure.
FailCommitTriesAgain(w) ==
  LET m     == claim[w].job
      final == claim[w].attempt >= MaxAttempts
  IN  /\ pc[w] = "failing"
      /\ final => RowIsFree(m)
      /\ job' = [job EXCEPT ![m] = FailedRow(@, seen[w], final)]
      /\ media' = IF final
                  THEN [media EXCEPT ![m].state = Written("failed", item[w].state, @)]
                  ELSE media
      /\ Goto(w, "idle")
      /\ Release(w)
      /\ UNCHANGED <<blobs, retry>>

\* A final failure also marks the photo failed, whatever state it loaded.
FailCommit(w) ==
  LET m     == claim[w].job
      final == IsFinalFailure(claim[w].attempt, MaxAttempts, claim[w].retryable)
  IN  /\ pc[w] = "failing"
      /\ final => RowIsFree(m)
      /\ job' = [job EXCEPT ![m] = FailedRow(@, seen[w], final)]
      /\ media' = IF final
                  THEN [media EXCEPT ![m].state = Written("failed", item[w].state, @)]
                  ELSE media
      /\ Goto(w, "idle")
      /\ Release(w)
      /\ UNCHANGED <<blobs, retry>>

\* fail_job raised; the thread ends (see ProcessingJobs).
ThreadDies(w) ==
  /\ pc[w] = "failing" /\ "failing" \in FaultPoints
  /\ Goto(w, "dead")
  /\ Release(w)
  /\ UNCHANGED <<job, media, blobs, retry>>

Crash(w) ==
  /\ pc[w] \in FaultPoints
  /\ Goto(w, "down")
  /\ Release(w)
  /\ UNCHANGED <<job, media, blobs, retry>>

Restart(w) ==
  /\ pc[w] = "down"
  /\ Goto(w, "idle")
  /\ UNCHANGED <<job, media, blobs, claim, session, retry>>

-----------------------------------------------------------------------------
(* Time.                                                                   *)

BecomeDue(m) ==
  /\ job[m].state # "absent" /\ ~job[m].due
  /\ job' = [job EXCEPT ![m].due = TRUE]
  /\ UNCHANGED <<media, blobs, pc, claim, session, retry>>

LockExpires(m) ==
  /\ job[m].lock = "held"
  /\ LockOutlivesHandlers => Owners(m) = {}
  /\ job' = [job EXCEPT ![m].lock = "expired"]
  /\ UNCHANGED <<media, blobs, pc, claim, session, retry>>

-----------------------------------------------------------------------------
WorkerStep(w) ==
  \/ \E m \in Media : Claim(w, m)
  \/ LoadMedia(w)
  \/ MarkProcessing(w)
  \/ ReadOriginal(w)
  \/ ApplyMetadata(w)
  \/ StoreDerivative(w)
  \/ DiscardOriginal(w)
  \/ CommitIngest(w)
  \/ CompleteLoad(w)
  \/ CompleteCommit(w)
  \/ FailLoad(w)
  \/ FailCommit(w)

Next ==
  \/ \E m \in Media : CompleteUpload(m)
  \/ \E m \in Media : DeleteMedia(m)
  \/ \E m \in Media : RetryLoad(m)
  \/ \E m \in Media : RetryCommit(m)
  \/ \E w \in Workers : WorkerStep(w)
  \/ \E w \in Workers : Fault(w)
  \/ \E w \in Workers : ThreadDies(w)
  \/ \E w \in Workers : Crash(w)
  \/ \E w \in Workers : Restart(w)
  \/ \E m \in Media : BecomeDue(m)
  \/ \E m \in Media : LockExpires(m)

Spec == Init /\ [][Next]_vars

\* As in ProcessingJobs: threads that are up go on, killed processes are
\* restarted, time passes.
Fairness ==
  /\ \A w \in Workers : WF_vars(WorkerStep(w)) /\ WF_vars(Restart(w))
  /\ \A m \in Media : WF_vars(BecomeDue(m)) /\ WF_vars(LockExpires(m))

FairSpec == Spec /\ Fairness

-----------------------------------------------------------------------------
(* Properties.                                                             *)

TypeOK ==
  /\ job \in [Media -> JobRows]
  /\ \A m \in Media : job[m].attempts \in 0..MaxAttempts
  /\ media \in [Media -> MediaRows]
  /\ original \subseteq Media
  /\ derived \in [Media -> SUBSET Derivatives]
  /\ pc \in [Workers -> PCs]
  /\ claim \in [Workers -> Claims]
  /\ \A w \in Workers : Active(w) <=> claim[w].job # NoJob
  /\ seen \in [Workers -> JobRows]
  /\ item \in [Workers -> MediaRows]
  /\ stored \in [Workers -> SUBSET Derivatives]
  /\ retry \in [Media -> [job : JobRows, media : MediaRows]]

\* Whatever crashes, expires or is retried, a photo that is READY, or that has
\* its assets recorded, has both derivatives in the blob store: the rows are
\* committed after the last put, and no path removes a derivative.
ReadyHasDerivatives ==
  \A m \in Media :
    media[m].state = "ready" \/ media[m].assets => derived[m] = Derivatives

\* A photo whose original is recorded as deleted has none in the private store
\* (docs/PRIVACY_MODEL.md: originals are deleted after processing).
DeletedOriginalIsGone ==
  \A m \in Media : media[m].retention = "deleted" => m \notin original

\* The reverse direction, the one a crash can break: an original leaves the
\* store only when a worker holds both derivatives of the photo in it.
OriginalLeavesAfterDerivatives ==
  \A m \in Media :
    media[m].state # "absent" /\ m \notin original => derived[m] = Derivatives

\* A job that waits in the queue can still succeed: its photo has its original,
\* or is READY already.  (docs/architecture.md: "Jobs must be idempotent or
\* safely retryable.")
QueuedIngestCanSucceed ==
  \A m \in Media :
    job[m].state = "pending" => m \in original \/ media[m].state = "ready"

\* A valid photo is marked failed only when its attempts are used up.
FailureIsEarned ==
  \A m \in Media :
    media[m].state = "failed" /\ ~media[m].deleted =>
      m \in Invalid \/ job[m].attempts = MaxAttempts

\* The queue and the library agree: a job that succeeded left its photo READY
\* and without an original, one that failed left it failed.
JobAndPhotoAgree ==
  \A m \in Media :
    /\ job[m].state = "succeeded" => media[m].state = "ready" /\ m \notin original
    /\ job[m].state = "failed" => media[m].state = "failed"

\* Job and photo agree on the outcome, and no valid photo has failed early.
OutcomesAgree == FailureIsEarned /\ JobAndPhotoAgree

\* docs/worker-state-machine.md: "`INGEST_MEDIA` jobs are idempotent for a single
\* media item".  A photo that is READY, and that its contributor has not deleted,
\* stays READY: a job claimed again after a kill between the commit of READY and
\* the report does nothing to it.
ReadyStays ==
  [][\A m \in Media :
       media[m].state = "ready" /\ ~media[m].deleted => media'[m].state = "ready"]_vars

\* Every photo that is uploaded becomes READY or failed, and a photo that becomes
\* READY loses its original, as long as no worker is killed.
EveryPhotoSettles ==
  [](\A w \in Workers : pc[w] \notin {"down", "dead"}) =>
    \A m \in Media :
      media[m].state = "pending" ~>
        \/ media[m].state = "ready" /\ m \notin original
        \/ media[m].state = "failed"

-----------------------------------------------------------------------------
(* The queue behind the ingest.                                            *)

\* Where ProcessingJobs sees a worker.  Everything from the claim to the return
\* of ingest_media is one handler; a worker that has raised is still in it, or,
\* when complete_job loaded the row before, on its way out of complete_job.
QueuePC(w) ==
  CASE pc[w] \in IngestPCs \cup {"ingested"}        -> "working"
    [] pc[w] = "raised" /\ seen[w] = AbsentRow      -> "working"
    [] pc[w] = "raised" /\ seen[w] # AbsentRow      -> "completing"
    [] pc[w] \notin IngestPCs \cup {"ingested", "raised"} -> pc[w]

\* What went wrong is known to the queue when fail_job loads the row.
QueueClaim(w) ==
  [claim[w] EXCEPT !.retryable = pc[w] = "failing" /\ @]

\* Every behaviour of the ingest, whatever a photo, its blobs, a killed worker or
\* a user do to it, is a behaviour of the job queue: the handler writes its job
\* through claim_job, complete_job and fail_job alone, a retry request writes it
\* only as RetryCommit does, and a job row exists before anyone acts on it.
Queue == INSTANCE ProcessingJobs WITH
  Jobs <- Media,
  RetriableJobs <- IF UserRetries THEN Media ELSE {},
  Priority <- [m \in Media |-> 0],
  pc <- [w \in Workers |-> QueuePC(w)],
  claim <- [w \in Workers |-> QueueClaim(w)],
  retry <- [m \in Media |-> retry[m].job]

ImplementsQueue == Queue!Spec
=============================================================================
