---------------------------- MODULE AutoStoryUpdate ----------------------------
(***************************************************************************)
(* The automatic story update of one trip: the commit that makes a photo   *)
(* READY also asks, through one job row per trip, for a reconstruction     *)
(* some time later, and a photo that arrives while that job runs moves its *)
(* run_after so that complete_job puts it back in the queue.               *)
(*                                                                         *)
(* The same worker threads ingest photos and run the update.  Of an ingest *)
(* only its last transaction is kept (MediaIngest has the rest): by then   *)
(* the original is deleted, so an ingest whose commit fails is lost.       *)
(***************************************************************************)
EXTENDS JobRow, FiniteSets

CONSTANTS
  Photos,               \* photos that may be uploaded to the trip
  Workers,              \* worker threads
  MaxAttempts,          \* the column max_attempts
  LockOutlivesHandlers, \* TRUE: no handler runs longer than the lock timeout
  DelayOutlivesRun      \* TRUE: the delay of an update is longer than its run

NoPhoto == "no photo"

VARIABLES
  job,      \* the row with key auto-reconstruct-trip:{trip}
  photo,    \* how far each photo is
  placed,   \* the photos in a moment, or under an open review item
  pc,       \* where each worker is
  task,     \* the photo it ingests, or NoPhoto
  attempt,  \* the attempt of its claim of the update
  seen,     \* the job row its session loaded
  points    \* the photos its reconstruction loaded

vars == <<job, photo, placed, pc, task, attempt, seen, points>>
session == <<task, attempt, seen, points>>

PhotoStates == {"absent", "queued", "ready", "lost"}

UpdatePCs ==
  {"checking", "loading", "placing", "reporting", "completing", "raised", "failing"}

PCs == {"idle", "down", "dead", "asking"} \cup UpdatePCs

Ready == {p \in Photos : photo[p] = "ready"}

Updating(w) == pc[w] \in UpdatePCs

Init ==
  /\ job = AbsentRow
  /\ photo = [p \in Photos |-> "absent"]
  /\ placed = {}
  /\ pc = [w \in Workers |-> "idle"]
  /\ task = [w \in Workers |-> NoPhoto]
  /\ attempt = [w \in Workers |-> 0]
  /\ seen = [w \in Workers |-> AbsentRow]
  /\ points = [w \in Workers |-> {}]

Goto(w, step) == pc' = [pc EXCEPT ![w] = step]

Release(w) ==
  /\ task' = [task EXCEPT ![w] = NoPhoto]
  /\ attempt' = [attempt EXCEPT ![w] = 0]
  /\ seen' = [seen EXCEPT ![w] = AbsentRow]
  /\ points' = [points EXCEPT ![w] = {}]

-----------------------------------------------------------------------------
(* The end of an ingest.                                                   *)

Upload(p) ==
  /\ photo[p] = "absent"
  /\ photo' = [photo EXCEPT ![p] = "queued"]
  /\ UNCHANGED <<job, placed, pc, session>>

\* enqueue_auto_story_update looks the row up by its key, without locking it.
AskLoad(w, p) ==
  /\ pc[w] = "idle"
  /\ photo[p] = "queued"
  /\ \A v \in Workers : task[v] # p
  /\ task' = [task EXCEPT ![w] = p]
  /\ seen' = [seen EXCEPT ![w] = job]
  /\ Goto(w, "asking")
  /\ UNCHANGED <<job, photo, placed, attempt, points>>

(* Mutants of AskedRow.                                                    *)

AskedRowOnlyOnce(row, loaded) == IF loaded.state = "absent" THEN DelayedRow ELSE row

AskedRowKeepingAttempts(row, loaded) ==
  CASE loaded.state = "absent"  -> DelayedRow
    [] loaded.state = "running" -> [row EXCEPT !.due = FALSE]
    [] OTHER -> [row EXCEPT !.state = "pending", !.due = FALSE, !.lock = "null"]

AskedRowAtOnce(row, loaded) ==
  CASE loaded.state = "absent"  -> NewRow
    [] loaded.state = "running" -> [row EXCEPT !.due = FALSE]
    [] OTHER                    -> RequeuedRow(row, loaded, TRUE)

\* The row as the commit leaves it.  A running job is only asked to run later.
AskedRow(row, loaded) ==
  CASE loaded.state = "absent"  -> DelayedRow
    [] loaded.state = "running" -> [row EXCEPT !.due = FALSE]
    [] OTHER                    -> RequeuedRow(row, loaded, FALSE)

\* Two ingests that both found no row both insert it; the key is unique.
KeyConflict(w) == seen[w].state = "absent" /\ job.state # "absent"

AskCommit(w) ==
  /\ pc[w] = "asking"
  /\ ~KeyConflict(w)
  /\ job' = AskedRow(job, seen[w])
  /\ photo' = [photo EXCEPT ![task[w]] = "ready"]
  /\ Goto(w, "idle")
  /\ Release(w)
  /\ UNCHANGED placed

\* The transaction is rolled back; every retry finds the original missing.
LosePhoto(w) ==
  /\ photo' = [photo EXCEPT ![task[w]] = "lost"]
  /\ Goto(w, "idle")
  /\ Release(w)
  /\ UNCHANGED <<job, placed>>

AskConflict(w) ==
  /\ pc[w] = "asking"
  /\ KeyConflict(w)
  /\ LosePhoto(w)

\* Any other error of that transaction: of the database, or the unique key of the
\* map projection that it rebuilds.
AskFault(w) ==
  /\ pc[w] = "asking"
  /\ ~KeyConflict(w)
  /\ LosePhoto(w)

-----------------------------------------------------------------------------
(* The update.                                                             *)

\* Its priority is lower than that of an ingest: a thread that polls takes the
\* update only when no queued photo is left.
Claim(w) ==
  /\ pc[w] = "idle"
  /\ \A p \in Photos : photo[p] = "queued" => \E v \in Workers : task[v] = p
  /\ Eligible(job, MaxAttempts)
  /\ job' = ClaimedRow(job)
  /\ attempt' = [attempt EXCEPT ![w] = job.attempts + 1]
  /\ Goto(w, "checking")
  /\ UNCHANGED <<photo, placed, task, seen, points>>

\* should_auto_incremental_reconstruct
Check(w) ==
  /\ pc[w] = "checking"
  /\ Goto(w, IF Ready \subseteq placed THEN "reporting" ELSE "loading")
  /\ UNCHANGED <<job, photo, placed, session>>

\* load_media_points of reconstruct_trip
LoadPoints(w) ==
  /\ pc[w] = "loading"
  /\ points' = [points EXCEPT ![w] = Ready]
  /\ Goto(w, "placing")
  /\ UNCHANGED <<job, photo, placed, task, attempt, seen>>

\* The run is committed: every photo it loaded is in a moment or under review.
CommitRun(w) ==
  /\ pc[w] = "placing"
  /\ placed' = placed \cup points[w]
  /\ Goto(w, "reporting")
  /\ UNCHANGED <<job, photo, session>>

CompleteLoad(w) ==
  /\ pc[w] = "reporting"
  /\ seen' = [seen EXCEPT ![w] = job]
  /\ Goto(w, "completing")
  /\ UNCHANGED <<job, photo, placed, task, attempt, points>>

CompleteCommit(w) ==
  /\ pc[w] = "completing"
  /\ job' = CompletedRow(job, seen[w], TRUE)
  /\ Goto(w, "idle")
  /\ Release(w)
  /\ UNCHANGED <<photo, placed>>

\* The geocoder, the database or complete_job raised; all of it is retryable.
Fault(w) ==
  /\ Updating(w) /\ pc[w] \notin {"raised", "failing"}
  /\ Goto(w, "raised")
  /\ UNCHANGED <<job, photo, placed, session>>

FailLoad(w) ==
  /\ pc[w] = "raised"
  /\ seen' = [seen EXCEPT ![w] = job]
  /\ Goto(w, "failing")
  /\ UNCHANGED <<job, photo, placed, task, attempt, points>>

FailCommit(w) ==
  /\ pc[w] = "failing"
  /\ job' = FailedRow(job, seen[w], IsFinalFailure(attempt[w], MaxAttempts, TRUE))
  /\ Goto(w, "idle")
  /\ Release(w)
  /\ UNCHANGED <<photo, placed>>

ThreadDies(w) ==
  /\ pc[w] = "failing"
  /\ Goto(w, "dead")
  /\ Release(w)
  /\ UNCHANGED <<job, photo, placed>>

Crash(w) ==
  /\ pc[w] # "down"
  /\ photo' = IF pc[w] = "asking" THEN [photo EXCEPT ![task[w]] = "lost"] ELSE photo
  /\ Goto(w, "down")
  /\ Release(w)
  /\ UNCHANGED <<job, placed>>

Restart(w) ==
  /\ pc[w] = "down"
  /\ Goto(w, "idle")
  /\ UNCHANGED <<job, photo, placed, session>>

-----------------------------------------------------------------------------
BecomeDue ==
  /\ job.state # "absent" /\ ~job.due
  /\ DelayOutlivesRun => \A w \in Workers : ~Updating(w)
  /\ job' = [job EXCEPT !.due = TRUE]
  /\ UNCHANGED <<photo, placed, pc, session>>

LockExpires ==
  /\ job.lock = "held"
  /\ LockOutlivesHandlers => \A w \in Workers : ~Updating(w)
  /\ job' = [job EXCEPT !.lock = "expired"]
  /\ UNCHANGED <<photo, placed, pc, session>>

WorkerStep(w) ==
  \/ \E p \in Photos : AskLoad(w, p)
  \/ AskCommit(w)
  \/ AskConflict(w)
  \/ Claim(w)
  \/ Check(w)
  \/ LoadPoints(w)
  \/ CommitRun(w)
  \/ CompleteLoad(w)
  \/ CompleteCommit(w)
  \/ FailLoad(w)
  \/ FailCommit(w)

Next ==
  \/ \E p \in Photos : Upload(p)
  \/ \E w \in Workers : WorkerStep(w)
  \/ \E w \in Workers : Fault(w) \/ AskFault(w)
  \/ \E w \in Workers : ThreadDies(w)
  \/ \E w \in Workers : Crash(w)
  \/ \E w \in Workers : Restart(w)
  \/ BecomeDue
  \/ LockExpires

Spec == Init /\ [][Next]_vars

\* As in ProcessingJobs.
Fairness ==
  /\ \A w \in Workers : WF_vars(WorkerStep(w)) /\ WF_vars(Restart(w))
  /\ WF_vars(BecomeDue) /\ WF_vars(LockExpires)

FairSpec == Spec /\ Fairness

-----------------------------------------------------------------------------
(* Properties.                                                             *)

TypeOK ==
  /\ job \in JobRows /\ job.attempts <= MaxAttempts
  /\ photo \in [Photos -> PhotoStates]
  /\ placed \subseteq Ready
  /\ pc \in [Workers -> PCs]
  /\ task \in [Workers -> Photos \cup {NoPhoto}]
  /\ attempt \in [Workers -> 0..MaxAttempts]
  /\ seen \in [Workers -> JobRows]
  /\ points \in [Workers -> SUBSET Photos]

\* A READY photo that is in no moment and under no review is not forgotten: the
\* update is queued with attempts left, or runs, or was given up after all its
\* attempts.  (docs/reconstruction-algorithm.md: READY media is assigned to an
\* existing stop or creates a new one.)  It is never "succeeded" with a photo
\* left out.
NoPhotoForgotten ==
  \/ Ready \subseteq placed
  \/ job.state = "pending" /\ job.attempts < MaxAttempts
  \/ job.state = "running"
  \/ job.state = "failed" /\ job.attempts = MaxAttempts

\* docs/worker-state-machine.md: "Other media in the trip continue processing
\* independently": a photo is lost when its own worker is killed or meets an error,
\* never to what the worker of another photo has committed.
LostOnlyByItself ==
  [][\A p \in Photos :
       photo[p] # "lost" /\ photo'[p] = "lost"
         => \E w \in Workers : task[w] = p /\ (pc'[w] = "down" \/ ~KeyConflict(w))]_vars

\* Requests that arrive at any time never start a second update beside one that
\* runs, which would place the same photos twice.  A request that loaded the row
\* before it was claimed does reset it to pending (the check for `running' in
\* enqueue_auto_story_update does not see the claim); what keeps other workers
\* away is the delay, as long as it outlives the run.
OneUpdateAtATime ==
  \A v, w \in Workers : Updating(v) /\ Updating(w) => v = w

\* While no worker is killed or dies, a READY photo gets its place in the story,
\* or the update has failed for good.
ReadyIsPlaced ==
  [](\A w \in Workers : pc[w] \notin {"down", "dead"}) =>
    \A p \in Photos : photo[p] = "ready" ~> p \in placed \/ job.state = "failed"
=============================================================================
