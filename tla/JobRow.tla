------------------------------- MODULE JobRow -------------------------------
(***************************************************************************)
(* A row of the table processing_jobs and what each statement of the       *)
(* program does to it.  The modules that model processes working on the    *)
(* queue (ProcessingJobs, MediaIngest, AutoStoryUpdate) are built from     *)
(* these operators.                                                        *)
(*                                                                         *)
(* Time enters a row in two places only, so two columns are kept as what   *)
(* the code asks of them: run_after as `due' (run_after <= now) and        *)
(* locked_at as `lock' (NULL, younger or older than the lock timeout).     *)
(* locked_by, started_at, finished_at and the error columns are written    *)
(* by the code but never read by it, and are left out.                     *)
(***************************************************************************)
EXTENDS Naturals

\* ProcessingJobState, plus "absent" for a row not inserted yet.
JobStates == {"absent", "pending", "running", "succeeded", "failed"}

FinalStates == {"succeeded", "failed"}

Locks == {"null", "held", "expired"}

JobRows == [state : JobStates, attempts : Nat, due : BOOLEAN, lock : Locks]

AbsentRow == [state |-> "absent", attempts |-> 0, due |-> FALSE, lock |-> "null"]

\* A row inserted with the column defaults: pending, no attempts, run_after now.
NewRow == [state |-> "pending", attempts |-> 0, due |-> TRUE, lock |-> "null"]

\* A row inserted with a run_after in the future.
DelayedRow == [NewRow EXCEPT !.due = FALSE]

-----------------------------------------------------------------------------
(* Mutants of the definitions below, each a slip the statement could have;  *)
(* every property of the queue is shown to fail under one of them.          *)

EligibleAtBudget(row, max) ==
  /\ row.attempts <= max
  /\ \/ row.state = "pending" /\ row.due
     \/ row.state = "running" /\ row.lock = "expired"

EligibleInAnyState(row, max) ==
  row.attempts < max /\ (row.due \/ row.lock = "expired")

EligibleWhateverLockAge(row, max) ==
  /\ row.attempts < max
  /\ \/ row.state = "pending" /\ row.due
     \/ row.state = "running"

EligibleOnlyPending(row, max) ==
  row.attempts < max /\ row.state = "pending" /\ row.due

ClaimedRowWithoutAttempt(row) ==
  [row EXCEPT !.state = "running", !.lock = "held"]

ClaimedRowWithoutLock(row) ==
  [row EXCEPT !.state = "running", !.attempts = @ + 1]

ClaimedRowStillPending(row) ==
  [row EXCEPT !.attempts = @ + 1, !.lock = "held"]

FinalFailureOneAttemptLate(attempt, max, retryable) ==
  ~retryable \/ attempt > max

-----------------------------------------------------------------------------
(***************************************************************************)
(* The claim is one SQL statement: it selects an eligible row with         *)
(* FOR UPDATE SKIP LOCKED and updates it.                                  *)
(***************************************************************************)
Eligible(row, max) ==
  /\ row.attempts < max
  /\ \/ row.state = "pending" /\ row.due
     \/ row.state = "running" /\ row.lock = "expired"

ClaimedRow(row) ==
  [row EXCEPT !.state = "running", !.attempts = @ + 1, !.lock = "held"]

-----------------------------------------------------------------------------
(***************************************************************************)
(* Every other write goes through a SQLAlchemy session: the row is loaded  *)
(* (`seen'), attributes are assigned, and the commit issues an UPDATE of   *)
(* the attributes whose value now differs from the loaded one.  No row     *)
(* lock is taken by the load, so `row', the row at the commit, may have    *)
(* changed since.  A fresh timestamp assigned to run_after always differs. *)
(***************************************************************************)
Written(assigned, loaded, current) ==
  IF assigned = loaded THEN current ELSE assigned

Flush(row, seen, assigned) ==
  [state    |-> Written(assigned.state, seen.state, row.state),
   attempts |-> Written(assigned.attempts, seen.attempts, row.attempts),
   due      |-> row.due,
   lock     |-> Written(assigned.lock, seen.lock, row.lock)]

\* complete_job: an automatic story update asked for again while it ran
\* (its run_after lies in the future) goes back to the queue.
CompletedRow(row, seen, isAuto) ==
  IF isAuto /\ ~seen.due
  THEN Flush(row, seen,
             [seen EXCEPT !.state = "pending", !.attempts = 0, !.lock = "null"])
  ELSE Flush(row, seen, [seen EXCEPT !.state = "succeeded", !.lock = "null"])

\* fail_job decides with the attempt number of the claim, not of the row.
IsFinalFailure(attempt, max, retryable) == ~retryable \/ attempt >= max

FinallyFailedRow(row, seen) ==
  Flush(row, seen, [seen EXCEPT !.state = "failed", !.lock = "null"])

\* Back to the queue, with a run_after that backs off.
BackedOffRow(row, seen) ==
  [Flush(row, seen, [seen EXCEPT !.state = "pending", !.lock = "null"])
     EXCEPT !.due = FALSE]

FailedRowStaysRunning(row, seen, final) ==
  IF final
  THEN FinallyFailedRow(row, seen)
  ELSE [Flush(row, seen, [seen EXCEPT !.lock = "null"]) EXCEPT !.due = FALSE]

FailedRow(row, seen, final) ==
  IF final THEN FinallyFailedRow(row, seen) ELSE BackedOffRow(row, seen)

\* The assignments of the retry endpoint and of enqueue_auto_story_update.
RequeuedRow(row, seen, due) ==
  [Flush(row, seen,
         [seen EXCEPT !.state = "pending", !.attempts = 0, !.lock = "null"])
     EXCEPT !.due = due]
=============================================================================
