------------------------------ MODULE MCSchedules ------------------------------
(* What depends on how long handlers take and on threads that keep going: the *)
(* ingest of two photos, the queue with handlers that outlive their locks and *)
(* with kills, and the automatic update of a trip with one worker thread.  A  *)
(* behaviour belongs to one of them, its mode; the others do not move.        *)
EXTENDS MediaIngest, TLC

CONSTANTS publication, photo, corrupt, p1, p2, p3, w1, w2

VARIABLES
  mode,
  queueJob, queuePc, queueClaim, queueSeen, queueRetry,
  storyJob, storyPhoto, placed, storyPc, task, attempt, storySeen, points

queueVars == <<queueJob, queuePc, queueClaim, queueSeen, queueRetry>>
storyVars == <<storyJob, storyPhoto, placed, storyPc, task, attempt, storySeen, points>>
all == <<mode, vars, queueVars, storyVars>>

\* The ingest, under the names of its module: faults anywhere but at the commit
\* that follows the deletion of the original, and where a worker has loaded a photo
\* that may be READY or reports one that is.
Tolerated == PCs \ {"down", "loading", "committing", "completing"}

(* The queue with handlers that may outlive their locks, and with handlers    *)
(* that do not.                                                               *)
Late ==
  INSTANCE ProcessingJobs WITH
    Jobs <- {publication}, RetriableJobs <- {}, Priority <- [j \in {publication} |-> 40],
    MaxAttempts <- 3, LockOutlivesHandlers <- FALSE,
    job <- queueJob, pc <- queuePc, claim <- queueClaim, seen <- queueSeen, retry <- queueRetry
Timely ==
  INSTANCE ProcessingJobs WITH
    Jobs <- {publication}, RetriableJobs <- {}, Priority <- [j \in {publication} |-> 40],
    MaxAttempts <- 3, LockOutlivesHandlers <- TRUE,
    job <- queueJob, pc <- queuePc, claim <- queueClaim, seen <- queueSeen, retry <- queueRetry

Story ==
  INSTANCE AutoStoryUpdate WITH
    Photos <- {p1, p2, p3}, Workers <- {w1}, MaxAttempts <- 2,
    LockOutlivesHandlers <- TRUE, DelayOutlivesRun <- FALSE,
    job <- storyJob, photo <- storyPhoto, pc <- storyPc, seen <- storySeen

SchedulesInit ==
  /\ mode \in {"ingest", "late", "timely", "story"}
  /\ Init /\ Late!Init /\ Story!Init

InIngest(A) == mode = "ingest" /\ A /\ UNCHANGED <<mode, queueVars, storyVars>>
InQueue(A) == A /\ UNCHANGED <<mode, vars, storyVars>>
InStory(A) == mode = "story" /\ A /\ UNCHANGED <<mode, vars, queueVars>>

SchedulesNext ==
  \/ InIngest(Next)
  \/ mode = "late" /\ InQueue(Late!Next)
  \/ mode = "timely" /\ InQueue(Timely!Next)
  \/ InStory(Story!Next)

\* The fairness each module states, within its mode; none for "late".
SchedulesFairness ==
  /\ \A w \in Workers :
       /\ WF_all(mode = "timely" /\ InQueue(Timely!WorkerStep(w)))
       /\ WF_all(mode = "timely" /\ InQueue(Timely!Restart(w)))
       /\ WF_all(InIngest(WorkerStep(w)))
       /\ WF_all(InIngest(Restart(w)))
  /\ WF_all(mode = "timely" /\ InQueue(Timely!BecomeDue(publication)))
  /\ WF_all(mode = "timely" /\ InQueue(Timely!LockExpires(publication)))
  /\ \A m \in Media : WF_all(InIngest(BecomeDue(m))) /\ WF_all(InIngest(LockExpires(m)))
  /\ WF_all(InStory(Story!WorkerStep(w1))) /\ WF_all(InStory(Story!Restart(w1)))
  /\ WF_all(InStory(Story!BecomeDue)) /\ WF_all(InStory(Story!LockExpires))

SchedulesSpec == SchedulesInit /\ [][SchedulesNext]_all /\ SchedulesFairness

(***************************************************************************)
(* Properties.  Those of the ingest keep the names of MediaIngest.         *)
(***************************************************************************)

\* However late a handler reports, the workers on a job hold different attempts.
LateClaimsAreCounted == Late!AttemptsIdentifyClaims

\* A running job with attempts left is recovered from killed workers; without
\* kills every inserted job reaches an outcome, and every uploaded photo becomes
\* READY and loses its original, or fails.
WorkSettles ==
  /\ mode = "timely" => Timely!RunningIsRecovered /\ Timely!EveryJobEnds
  /\ mode = "ingest" => EveryPhotoSettles

\* No READY photo is left out of the story with the update succeeded.
NoneForgotten == Story!TypeOK /\ Story!NoPhotoForgotten

\* While its thread lives a READY photo gets its place, or the update fails.
ReadyGetsPlaced == mode = "story" => Story!ReadyIsPlaced
================================================================================
