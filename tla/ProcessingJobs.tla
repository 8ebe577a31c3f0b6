---------------------------- MODULE ProcessingJobs ----------------------------
(***************************************************************************)
(* The durable job queue: worker threads claim rows of processing_jobs,    *)
(* run the handler of the job and report the outcome; the API inserts rows *)
(* and, for a media-ingest job, resets the row when a user retries.        *)
(*                                                                         *)
(* What a handler does to the rest of the database is abstracted to its    *)
(* outcome.  What is kept is every transaction on the job row, in the      *)
(* order the code issues them, including the gap between loading a row and *)
(* committing the change, a worker that is killed, a worker that outlives  *)
(* its lock, and a failure report that fails itself.                       *)
(*                                                                         *)
(* The automatic reconstruction job of a trip, which is requeued while it  *)
(* runs, is the subject of AutoStoryUpdate.                                *)
(***************************************************************************)
EXTENDS JobRow, FiniteSets

CONSTANTS
  Jobs,                \* the rows that may ever be inserted
  RetriableJobs,       \* those the endpoint POST /media/{id}/retry can reset
  Priority,            \* the column priority of each job
  Workers,             \* worker threads, of one or several worker processes
  MaxAttempts,         \* the column max_attempts
  LockOutlivesHandlers \* TRUE: no handler runs longer than the lock timeout

NoJob == "no job"

ASSUME JobsAssumption == NoJob \notin Jobs
ASSUME RetriableAssumption == RetriableJobs \subseteq Jobs
ASSUME PriorityAssumption == Priority \in [Jobs -> Nat]
ASSUME MaxAttemptsAssumption == MaxAttempts \in Nat \ {0}
ASSUME LockAssumption == LockOutlivesHandlers \in BOOLEAN

VARIABLES
  job,    \* the table: a row per job
  pc,     \* where each worker thread is
  claim,  \* its ClaimedJob: the job, the attempt, and how a failure is reported
  seen,   \* the row its session loaded
  retry   \* the row loaded by the retry request on a job, AbsentRow if none runs

vars == <<job, pc, claim, seen, retry>>

PCs == {"idle", "working", "completing", "failing", "down", "dead"}

Claims == [job : Jobs \cup {NoJob}, attempt : Nat, retryable : BOOLEAN]

NoClaim == [job |-> NoJob, attempt |-> 0, retryable |-> FALSE]

\* A worker that holds a claim: it is between claim_job and the end of handle_job.
Active(w) == pc[w] \in {"working", "completing", "failing"}

Owners(j) == {w \in Workers : Active(w) /\ claim[w].job = j}

Init ==
  /\ job = [j \in Jobs |-> AbsentRow]
  /\ pc = [w \in Workers |-> "idle"]
  /\ claim = [w \in Workers |-> NoClaim]
  /\ seen = [w \in Workers |-> AbsentRow]
  /\ retry = [j \in Jobs |-> AbsentRow]

-----------------------------------------------------------------------------
(* Producers.                                                              *)

\* A request inserts the row; the idempotency key is unique, so once only.
Enqueue(j) ==
  /\ job[j].state = "absent"
  /\ job' = [job EXCEPT ![j] = NewRow]
  /\ UNCHANGED <<pc, claim, seen, retry>>

\* The retry endpoint loads the row (any state passes its checks) ...
RetryLoad(j) ==
  /\ job[j].state # "absent"
  /\ retry[j] = AbsentRow
  /\ retry' = [retry EXCEPT ![j] = job[j]]
  /\ UNCHANGED <<job, pc, claim, seen>>

\* ... and commits the reset.
RetryCommit(j) ==
  /\ retry[j] # AbsentRow
  /\ job' = [job EXCEPT ![j] = RequeuedRow(@, retry[j], TRUE)]
  /\ retry' = [retry EXCEPT ![j] = AbsentRow]
  /\ UNCHANGED <<pc, claim, seen>>

-----------------------------------------------------------------------------
(* Workers.                                                                *)

\* The eligible rows that ORDER BY priority puts first (ties are broken by
\* timestamps, which this model does not order).
Candidates ==
  LET eligible == {j \in Jobs : Eligible(job[j], MaxAttempts)}
  IN  {j \in eligible : \A k \in eligible : Priority[j] <= Priority[k]}

Claim(w, j) ==
  /\ pc[w] = "idle"
  /\ j \in Candidates
  /\ job' = [job EXCEPT ![j] = ClaimedRow(@)]
  /\ pc' = [pc EXCEPT ![w] = "working"]
  /\ claim' = [claim EXCEPT ![w] = [job |-> j,
                                    attempt |-> job[j].attempts + 1,
                                    retryable |-> FALSE]]
  /\ UNCHANGED <<seen, retry>>

\* The handler returned; complete_job loads the row.
CompleteLoad(w) ==
  /\ pc[w] = "working"
  /\ pc' = [pc EXCEPT ![w] = "completing"]
  /\ seen' = [seen EXCEPT ![w] = job[claim[w].job]]
  /\ UNCHANGED <<job, claim, retry>>

Release(w) ==
  /\ claim' = [claim EXCEPT ![w] = NoClaim]
  /\ seen' = [seen EXCEPT ![w] = AbsentRow]

CompleteCommit(w) ==
  /\ pc[w] = "completing"
  /\ job' = [job EXCEPT ![claim[w].job] = CompletedRow(@, seen[w], FALSE)]
  /\ pc' = [pc EXCEPT ![w] = "idle"]
  /\ Release(w)
  /\ UNCHANGED retry

\* The handler, or the commit of complete_job, raised: handle_job opens a new
\* session and fail_job loads the row.  A database error is always retryable.
FailLoad(w) ==
  \E retryable \in BOOLEAN :
    /\ \/ pc[w] = "working"
       \/ pc[w] = "completing" /\ retryable
    /\ pc' = [pc EXCEPT ![w] = "failing"]
    /\ claim' = [claim EXCEPT ![w].retryable = retryable]
    /\ seen' = [seen EXCEPT ![w] = job[claim[w].job]]
    /\ UNCHANGED <<job, retry>>

FailCommit(w) ==
  /\ pc[w] = "failing"
  /\ LET final == IsFinalFailure(claim[w].attempt, MaxAttempts, claim[w].retryable)
     IN  job' = [job EXCEPT ![claim[w].job] = FailedRow(@, seen[w], final)]
  /\ pc' = [pc EXCEPT ![w] = "idle"]
  /\ Release(w)
  /\ UNCHANGED retry

\* fail_job itself raised: nothing in worker_loop catches that, so the thread
\* ends, while its process lives on and keeps writing heartbeats.
ThreadDies(w) ==
  /\ pc[w] = "failing"
  /\ pc' = [pc EXCEPT ![w] = "dead"]
  /\ Release(w)
  /\ UNCHANGED <<job, retry>>

\* The process is killed; what its session has not committed is rolled back.
Crash(w) ==
  /\ pc[w] # "down"
  /\ pc' = [pc EXCEPT ![w] = "down"]
  /\ Release(w)
  /\ UNCHANGED <<job, retry>>

\* The container starts a new process in its place.
Restart(w) ==
  /\ pc[w] = "down"
  /\ pc' = [pc EXCEPT ![w] = "idle"]
  /\ UNCHANGED <<job, claim, seen, retry>>

-----------------------------------------------------------------------------
(* Time.                                                                   *)

BecomeDue(j) ==
  /\ job[j].state # "absent" /\ ~job[j].due
  /\ job' = [job EXCEPT ![j].due = TRUE]
  /\ UNCHANGED <<pc, claim, seen, retry>>

LockExpires(j) ==
  /\ job[j].lock = "held"
  /\ LockOutlivesHandlers => Owners(j) = {}
  /\ job' = [job EXCEPT ![j].lock = "expired"]
  /\ UNCHANGED <<pc, claim, seen, retry>>

-----------------------------------------------------------------------------
WorkerStep(w) ==
  \/ \E j \in Jobs : Claim(w, j)
  \/ CompleteLoad(w)
  \/ CompleteCommit(w)
  \/ FailLoad(w)
  \/ FailCommit(w)

Next ==
  \/ \E j \in Jobs : Enqueue(j)
  \/ \E j \in RetriableJobs : RetryLoad(j)
  \/ \E j \in RetriableJobs : RetryCommit(j)
  \/ \E w \in Workers : WorkerStep(w)
  \/ \E w \in Workers : ThreadDies(w)
  \/ \E w \in Workers : Crash(w)
  \/ \E w \in Workers : Restart(w)
  \/ \E j \in Jobs : BecomeDue(j)
  \/ \E j \in Jobs : LockExpires(j)

Spec == Init /\ [][Next]_vars

(***************************************************************************)
(* Worker threads that are up keep polling and every handler ends (its     *)
(* I/O has timeouts); a killed process is started again (compose.prod.yml  *)
(* has restart: unless-stopped), a dead thread of a live process is not;   *)
(* time passes.  Nothing makes a user retry.                               *)
(***************************************************************************)
Fairness ==
  /\ \A w \in Workers : WF_vars(WorkerStep(w)) /\ WF_vars(Restart(w))
  /\ \A j \in Jobs : WF_vars(BecomeDue(j)) /\ WF_vars(LockExpires(j))

FairSpec == Spec /\ Fairness

-----------------------------------------------------------------------------
(* Properties.                                                             *)

TypeOK ==
  /\ job \in [Jobs -> JobRows]
  /\ \A j \in Jobs : job[j].attempts \in 0..MaxAttempts
  /\ pc \in [Workers -> PCs]
  /\ claim \in [Workers -> Claims]
  /\ \A w \in Workers : Active(w) <=> claim[w].job # NoJob
  /\ seen \in [Workers -> JobRows]
  /\ retry \in [Jobs -> JobRows]

\* Jobs whose rows only the queue itself changes once they are inserted.
QueueJobs == Jobs \ RetriableJobs

\* Two workers that work on one job at the same time, because the second took
\* it over when the lock of the first had expired, hold different attempt
\* numbers, and neither number is above the row's: one job is never run more
\* than max_attempts times, and a worker that has been superseded can be told
\* from the current one.  (claim_job increments attempts in the statement that
\* takes the lock, and nothing resets it while the job runs.)
AttemptsIdentifyClaims ==
  \A v, w \in Workers :
    Active(w) /\ claim[w].job \in QueueJobs =>
      /\ claim[w].attempt \in 1..job[claim[w].job].attempts
      /\ v # w /\ Active(v) /\ claim[v].job = claim[w].job
           => claim[v].attempt # claim[w].attempt

\* A job is executed by one worker at a time ("claimed transactionally by one
\* worker"), provided that handlers end within the lock timeout.
ExclusiveExecution ==
  \A j \in QueueJobs : \A v, w \in Owners(j) : v = w

\* A job in `pending' can be claimed once it is due: fail_job, which compares
\* the claim's attempt number with the budget, never leaves a pending row whose
\* attempts are used up, which no worker and no timeout would ever touch again.
PendingIsClaimable ==
  \A j \in QueueJobs : job[j].state = "pending" => job[j].attempts < MaxAttempts

\* A running job nobody works on any more (its worker was killed) still carries
\* the lock timestamp that lets claim_job find it again.
AbandonedIsLocked ==
  \A j \in QueueJobs :
    job[j].state = "running" /\ Owners(j) = {} => job[j].lock # "null"

\* What a worker reported is not taken back: no late report of another worker,
\* no expiring lock and no claim moves a job out of succeeded or failed.
OutcomeIsFinal ==
  [][\A j \in QueueJobs :
       job[j].state \in FinalStates => job'[j].state = job[j].state]_vars

\* docs/worker-state-machine.md: "Running jobs with `locked_at` older than the
\* timeout are eligible for recovery and can be claimed again."
ExpiredIsClaimable ==
  \A j \in Jobs :
    job[j].state = "running" /\ job[j].lock = "expired" => Eligible(job[j], MaxAttempts)

\* A running job with attempts left is not left behind by killed workers: its
\* worker reports, or its lock expires and another worker takes it over (once
\* the kills stop, and unless every thread of a live process has died).
RunningIsRecovered ==
  <>[](\A w \in Workers : pc[w] # "down") =>
    \A j \in QueueJobs :
      job[j].state = "running" /\ job[j].attempts < MaxAttempts
        ~> \/ job[j].state # "running"
           \/ job[j].attempts = MaxAttempts
           \/ \A w \in Workers : pc[w] = "dead"

\* If no worker is ever killed or dies, every inserted job reaches an outcome,
\* provided that handlers end within the lock timeout.
EveryJobEnds ==
  [](\A w \in Workers : pc[w] \notin {"down", "dead"}) =>
    \A j \in QueueJobs : job[j].state # "absent" ~> job[j].state \in FinalStates

\* The queue implements the lifecycle it promises, for the jobs no request
\* resets, provided that handlers end within the lock timeout.
Lifecycle == INSTANCE JobLifecycle WITH
  Jobs <- QueueJobs,
  phase <- [j \in QueueJobs |-> job[j].state],
  holder <- [j \in QueueJobs |-> Owners(j)]

ImplementsLifecycle == Lifecycle!Spec
=============================================================================
