------------------------- MODULE ProcessingJobsProofs -------------------------
(***************************************************************************)
(* What ProcessingJobs promises, proved for every number of jobs, workers  *)
(* and attempts.  The first part proves that the rows stay within their    *)
(* types and their budget, the second what holds whatever the lock timeout *)
(* is, the third what needs handlers to end within it.                     *)
(***************************************************************************)
EXTENDS ProcessingJobs, TLAPS

-----------------------------------------------------------------------------
(* What each statement of the program can write to a row of processing_jobs,  *)
(* for every row, every row loaded before it and every budget of attempts.    *)

\* The rows within the CHECK constraint attempts <= max_attempts.
BudgetRows(max) == {row \in JobRows : row.attempts <= max}

\* complete_job (of a job that is not an automatic story update) writes the
\* outcome and gives up the lock; it touches neither attempts nor run_after.
\* A column that already had the value in the loaded row is left as it is.
LEMMA CompletedRowWrites ==
  ASSUME NEW row \in JobRows, NEW loaded \in JobRows
  PROVE  LET result == CompletedRow(row, loaded, FALSE)
         IN  /\ result \in JobRows
             /\ result.attempts = row.attempts
             /\ result.state \in {"succeeded", row.state}
             /\ loaded.state = "running" => result.state = "succeeded"
             /\ loaded.lock # "null" => result.lock = "null"
BY DEF CompletedRow, Flush, Written, JobRows, JobStates, Locks

\* A final fail_job writes "failed" and gives up the lock.
LEMMA FinalFailureWrites ==
  ASSUME NEW row \in JobRows, NEW loaded \in JobRows
  PROVE  LET result == FinallyFailedRow(row, loaded)
         IN  /\ result \in JobRows
             /\ result.attempts = row.attempts
             /\ result.state \in {"failed", row.state}
             /\ loaded.state = "running" => result.state = "failed"
             /\ loaded.lock # "null" => result.lock = "null"
BY DEF FinallyFailedRow, Flush, Written, JobRows, JobStates, Locks

\* Any other fail_job puts the job back to "pending" with a new run_after.
LEMMA RetriedFailureWrites ==
  ASSUME NEW row \in JobRows, NEW loaded \in JobRows
  PROVE  LET result == BackedOffRow(row, loaded)
         IN  /\ result \in JobRows
             /\ result.attempts = row.attempts
             /\ result.state \in {"pending", row.state}
             /\ loaded.state = "running" => result.state = "pending"
             /\ loaded.lock # "null" => result.lock = "null"
BY DEF BackedOffRow, Flush, Written, JobRows, JobStates, Locks

\* Whatever fail_job decides, it leaves the count of attempts alone.
LEMMA FailedRowWrites ==
  ASSUME NEW row \in JobRows, NEW loaded \in JobRows, NEW final \in BOOLEAN
  PROVE  LET result == FailedRow(row, loaded, final)
         IN  /\ result \in JobRows
             /\ result.attempts = row.attempts
             /\ result.state \in {"failed", "pending", row.state}
BY FinalFailureWrites, RetriedFailureWrites DEF FailedRow

\* The retry endpoint never takes a row over its budget.
LEMMA RequeuedRowWrites ==
  ASSUME NEW max \in Nat, NEW row \in BudgetRows(max), NEW loaded \in JobRows,
         NEW due \in BOOLEAN
  PROVE  LET result == RequeuedRow(row, loaded, due)
         IN  /\ result \in BudgetRows(max)
             /\ result.state \in {"pending", row.state}
BY DEF RequeuedRow, Flush, Written, JobRows, JobStates, Locks, BudgetRows

\* claim_job counts the attempt and takes the lock, within the budget.
LEMMA ClaimedRowWrites ==
  ASSUME NEW max \in Nat, NEW row \in JobRows, Eligible(row, max)
  PROVE  LET result == ClaimedRow(row)
         IN  /\ result \in BudgetRows(max)
             /\ result.state = "running"
             /\ result.lock = "held"
             /\ result.attempts = row.attempts + 1
<1> DEFINE result == ClaimedRow(row)
<1>1. row.attempts + 1 \in Nat /\ row.attempts + 1 <= max
  <2>1. row.attempts < max
    BY DEF Eligible
  <2> QED BY <2>1 DEF JobRows
<1>2. /\ result.state = "running"
      /\ result.lock = "held"
      /\ result.attempts = row.attempts + 1
  BY DEF ClaimedRow, JobRows
<1>3. result \in JobRows
  BY <1>1 DEF ClaimedRow, JobRows, JobStates, Locks
<1> QED BY <1>1, <1>2, <1>3 DEF BudgetRows

\* A run_after that comes due and a lock that expires change nothing else.
LEMMA TimeLeavesAttempts ==
  ASSUME NEW row \in JobRows
  PROVE  /\ [row EXCEPT !.due = TRUE] \in JobRows
         /\ [row EXCEPT !.due = TRUE].attempts = row.attempts
         /\ [row EXCEPT !.due = TRUE].state = row.state
         /\ [row EXCEPT !.due = TRUE].lock = row.lock
         /\ [row EXCEPT !.lock = "expired"] \in JobRows
         /\ [row EXCEPT !.lock = "expired"].attempts = row.attempts
         /\ [row EXCEPT !.lock = "expired"].state = row.state
         /\ [row EXCEPT !.lock = "expired"].lock = "expired"
BY DEF JobRows, Locks

-----------------------------------------------------------------------------
(* Types and budget.                                                       *)

\* Every row and every claim keeps its type, no row exceeds its budget of
\* attempts, and a worker holds a claim exactly while it handles a job.
THEOREM TypeCorrect == Spec => []TypeOK
<1>1. Init => TypeOK
  BY JobsAssumption, MaxAttemptsAssumption
  DEF Init, TypeOK, AbsentRow, NoClaim, JobRows, JobStates, Locks, Claims, PCs, Active
<1>2. TypeOK /\ [Next]_vars => TypeOK'
  <2> SUFFICES ASSUME TypeOK, [Next]_vars PROVE TypeOK'
    OBVIOUS
  <2> USE DEF TypeOK
  <2>a. /\ AbsentRow \in JobRows /\ NewRow \in BudgetRows(MaxAttempts)
        /\ NoClaim \in Claims /\ NoClaim.job = NoJob
    BY MaxAttemptsAssumption
    DEF AbsentRow, NewRow, NoClaim, JobRows, JobStates, Locks, Claims, BudgetRows
  <2>b. \A j \in Jobs : job[j] \in BudgetRows(MaxAttempts)
    BY MaxAttemptsAssumption DEF BudgetRows, JobRows
  <2>c. \A row \in BudgetRows(MaxAttempts) : row \in JobRows /\ row.attempts \in 0..MaxAttempts
    BY MaxAttemptsAssumption DEF BudgetRows, JobRows
  <2>d. ASSUME NEW w \in Workers, Active(w)
        PROVE  claim[w].job \in Jobs /\ claim[w] \in Claims
    BY <2>d DEF Claims
  <2>1. ASSUME NEW j \in Jobs, Enqueue(j) PROVE TypeOK'
    BY <2>1, <2>a, <2>c DEF Enqueue, Active
  <2>2. ASSUME NEW j \in RetriableJobs, RetryLoad(j) PROVE TypeOK'
    BY <2>2, RetriableAssumption DEF RetryLoad, Active
  <2>3. ASSUME NEW j \in RetriableJobs, RetryCommit(j) PROVE TypeOK'
    <3>1. RequeuedRow(job[j], retry[j], TRUE) \in BudgetRows(MaxAttempts)
      BY <2>b, RequeuedRowWrites, MaxAttemptsAssumption, RetriableAssumption
    <3> QED BY <2>3, <3>1, <2>a, <2>c, RetriableAssumption DEF RetryCommit, Active
  <2>4. ASSUME NEW w \in Workers, NEW j \in Jobs, Claim(w, j) PROVE TypeOK'
    <3>1. ClaimedRow(job[j]) \in BudgetRows(MaxAttempts)
      BY <2>4, ClaimedRowWrites, MaxAttemptsAssumption DEF Claim, Candidates
    <3>2. [job |-> j, attempt |-> job[j].attempts + 1, retryable |-> FALSE] \in Claims
      BY DEF Claims, JobRows
    <3> QED BY <2>4, <3>1, <3>2, <2>c, JobsAssumption DEF Claim, Active, PCs
  <2>5. ASSUME NEW w \in Workers, CompleteLoad(w) PROVE TypeOK'
    BY <2>5, <2>d DEF CompleteLoad, Active, PCs
  <2>6. ASSUME NEW w \in Workers, CompleteCommit(w) PROVE TypeOK'
    <3>1. claim[w].job \in Jobs
      BY <2>6, <2>d DEF CompleteCommit, Active
    <3>2. /\ CompletedRow(job[claim[w].job], seen[w], FALSE) \in JobRows
          /\ CompletedRow(job[claim[w].job], seen[w], FALSE).attempts
               = job[claim[w].job].attempts
      BY <3>1, CompletedRowWrites
    <3> QED BY <2>6, <3>1, <3>2, <2>a DEF CompleteCommit, Release, Active, PCs
  <2>7. ASSUME NEW w \in Workers, FailLoad(w) PROVE TypeOK'
    <3>1. PICK retryable \in BOOLEAN : claim' = [claim EXCEPT ![w].retryable = retryable]
      BY <2>7 DEF FailLoad
    <3>2. claim' \in [Workers -> Claims] /\ \A v \in Workers : claim'[v].job = claim[v].job
      BY <3>1 DEF Claims
    <3> QED BY <2>7, <2>d, <3>2 DEF FailLoad, Active, PCs
  <2>8. ASSUME NEW w \in Workers, FailCommit(w) PROVE TypeOK'
    <3> DEFINE row == job[claim[w].job]
    <3>1. claim[w].job \in Jobs /\ row \in JobRows /\ seen[w] \in JobRows
      BY <2>8, <2>d DEF FailCommit, Active
    <3> DEFINE final == IsFinalFailure(claim[w].attempt, MaxAttempts, claim[w].retryable)
               new == FailedRow(row, seen[w], final)
    <3>a. job' = [job EXCEPT ![claim[w].job] = new]
      BY <2>8 DEF FailCommit
    <3>b. claim[w].attempt \in Nat /\ claim[w].retryable \in BOOLEAN
      BY <2>8, <2>d DEF FailCommit, Active, Claims
    <3>2. \/ new = FinallyFailedRow(row, seen[w])
          \/ new = BackedOffRow(row, seen[w]) /\ claim[w].attempt < MaxAttempts
      BY <3>b, MaxAttemptsAssumption DEF FailedRow, IsFinalFailure
    <3> HIDE DEF new
    <3>3. new \in JobRows /\ new.attempts = row.attempts
      BY <3>1, <3>2, FinalFailureWrites, RetriedFailureWrites
    <3> QED BY <2>8, <3>a, <3>1, <3>3, <2>a DEF FailCommit, Release, Active, PCs
  <2>9. ASSUME NEW w \in Workers, ThreadDies(w) \/ Crash(w) PROVE TypeOK'
    BY <2>9, <2>a DEF ThreadDies, Crash, Release, Active, PCs
  <2>10. ASSUME NEW w \in Workers, Restart(w) PROVE TypeOK'
    BY <2>10 DEF Restart, Active, PCs
  <2>11. ASSUME NEW j \in Jobs, BecomeDue(j) \/ LockExpires(j) PROVE TypeOK'
    <3> DEFINE due == [job[j] EXCEPT !.due = TRUE]
               expired == [job[j] EXCEPT !.lock = "expired"]
    <3>1. /\ due \in JobRows /\ due.attempts = job[j].attempts
          /\ expired \in JobRows /\ expired.attempts = job[j].attempts
      BY TimeLeavesAttempts
    <3>2. job' = [job EXCEPT ![j] = due] \/ job' = [job EXCEPT ![j] = expired]
      BY <2>11 DEF BecomeDue, LockExpires
    <3>3. UNCHANGED <<pc, claim, seen, retry>>
      BY <2>11 DEF BecomeDue, LockExpires
    <3> HIDE DEF due, expired
    <3> QED BY <3>1, <3>2, <3>3 DEF Active
  <2>12. CASE UNCHANGED vars
    BY <2>12 DEF vars, Active
  <2> QED
    BY <2>1, <2>2, <2>3, <2>4, <2>5, <2>6, <2>7, <2>8, <2>9, <2>10, <2>11, <2>12
    DEF Next, WorkerStep
<1> QED BY <1>1, <1>2, PTL DEF Spec

-----------------------------------------------------------------------------
(* Whatever the lock timeout is.                                           *)

\* AttemptsIdentifyClaims made inductive: what is claimed has been inserted,
\* so no insertion sets its attempts back to zero.
CountedClaims ==
  /\ AttemptsIdentifyClaims
  /\ \A w \in Workers :
       Active(w) /\ claim[w].job \in QueueJobs => job[claim[w].job].state # "absent"

\* A step that leaves the claims alone, or drops them, and lets no row lose an
\* attempt or go back to "absent" keeps the claims counted.
LEMMA CountedClaimsKept ==
  ASSUME TypeOK, CountedClaims,
         \A w \in Workers : Active(w)' =>
            /\ Active(w)
            /\ claim'[w].job = claim[w].job
            /\ claim'[w].attempt = claim[w].attempt,
         \A j \in QueueJobs : job[j].state # "absent" =>
            /\ job'[j].state # "absent"
            /\ job'[j].attempts = job[j].attempts
  PROVE  CountedClaims'
<1> USE DEF CountedClaims
<1>1. \A w \in Workers :
        Active(w)' /\ claim'[w].job \in QueueJobs => job'[claim'[w].job].state # "absent"
  OBVIOUS
<1>2. ASSUME NEW v \in Workers, NEW w \in Workers,
             Active(w)', claim'[w].job \in QueueJobs
      PROVE  /\ claim'[w].attempt \in 1..job'[claim'[w].job].attempts
             /\ v # w /\ Active(v)' /\ claim'[v].job = claim'[w].job
                  => claim'[v].attempt # claim'[w].attempt
  <2>1. Active(w) /\ claim[w].job \in QueueJobs
    BY <1>2
  <2>2. /\ claim[w].attempt \in 1..job[claim[w].job].attempts
        /\ v # w /\ Active(v) /\ claim[v].job = claim[w].job
             => claim[v].attempt # claim[w].attempt
    BY <2>1 DEF AttemptsIdentifyClaims
  <2> QED BY <1>2, <2>1, <2>2
<1> QED BY <1>1, <1>2 DEF AttemptsIdentifyClaims, QueueJobs

\* However long handlers run and whichever workers are killed, the attempt
\* numbers of the workers on one job are distinct and within its budget.
THEOREM ClaimsCounted == Spec => []AttemptsIdentifyClaims
<1>1. Init => CountedClaims
  BY DEF Init, CountedClaims, AttemptsIdentifyClaims, Active
<1>2. TypeOK /\ CountedClaims /\ [Next]_vars => CountedClaims'
  <2> SUFFICES ASSUME TypeOK, CountedClaims, [Next]_vars PROVE CountedClaims'
    OBVIOUS
  <2>q. QueueJobs \subseteq Jobs /\ \A j \in RetriableJobs : j \notin QueueJobs
    BY DEF QueueJobs
  <2>d. ASSUME NEW w \in Workers, Active(w)
        PROVE  claim[w].job \in Jobs /\ claim[w] \in Claims
    BY <2>d DEF Claims, TypeOK
  <2>1. ASSUME NEW j \in Jobs, Enqueue(j) PROVE CountedClaims'
    BY <2>1, <2>q, CountedClaimsKept DEF Enqueue, Active, TypeOK
  <2>2. ASSUME NEW j \in RetriableJobs, RetryLoad(j) PROVE CountedClaims'
    BY <2>2, <2>q, CountedClaimsKept DEF RetryLoad, Active
  <2>3. ASSUME NEW j \in RetriableJobs, RetryCommit(j) PROVE CountedClaims'
    BY <2>3, <2>q, CountedClaimsKept DEF RetryCommit, Active, TypeOK
  <2>4. ASSUME NEW w \in Workers, NEW j \in Jobs, Claim(w, j) PROVE CountedClaims'
    <3>1. /\ job' = [job EXCEPT ![j] = ClaimedRow(job[j])]
          /\ job[j] \in JobRows
          /\ Eligible(job[j], MaxAttempts)
      BY <2>4 DEF Claim, Candidates, TypeOK
    <3>2. /\ ClaimedRow(job[j]).attempts = job[j].attempts + 1
          /\ ClaimedRow(job[j]).state = "running"
          /\ job[j].attempts \in Nat
      BY <3>1, ClaimedRowWrites, MaxAttemptsAssumption DEF JobRows
    <3>3. /\ claim'[w].job = j /\ claim'[w].attempt = job[j].attempts + 1
          /\ \A v \in Workers \ {w} : claim'[v] = claim[v] /\ (Active(v)' <=> Active(v))
      BY <2>4 DEF Claim, Active, TypeOK
    <3>4. \A k \in Jobs : job'[k] = IF k = j THEN ClaimedRow(job[j]) ELSE job[k]
      BY <3>1 DEF TypeOK
    <3>5. \A v \in Workers \ {w} : Active(v) /\ claim[v].job \in QueueJobs =>
            /\ claim[v].attempt \in 1..job[claim[v].job].attempts
            /\ job[claim[v].job].attempts \in Nat
      BY <2>q DEF CountedClaims, AttemptsIdentifyClaims, TypeOK, JobRows
    <3>6. \A v \in Workers :
            Active(v)' /\ claim'[v].job \in QueueJobs =>
              /\ job'[claim'[v].job].state # "absent"
              /\ claim'[v].attempt \in 1..job'[claim'[v].job].attempts
      BY <3>2, <3>3, <3>4, <3>5, <2>q DEF CountedClaims
    <3>7. \A u, v \in Workers :
            /\ Active(v)' /\ claim'[v].job \in QueueJobs
            /\ u # v /\ Active(u)' /\ claim'[u].job = claim'[v].job
            => claim'[u].attempt # claim'[v].attempt
      BY <3>2, <3>3, <3>5 DEF CountedClaims, AttemptsIdentifyClaims
    <3> QED BY <3>6, <3>7 DEF CountedClaims, AttemptsIdentifyClaims, QueueJobs
  <2>5. ASSUME NEW w \in Workers, CompleteLoad(w) PROVE CountedClaims'
    BY <2>5, CountedClaimsKept DEF CompleteLoad, Active, TypeOK
  <2>6. ASSUME NEW w \in Workers, CompleteCommit(w) PROVE CountedClaims'
    <3>1. claim[w].job \in Jobs /\ seen[w] \in JobRows /\ job[claim[w].job] \in JobRows
      BY <2>6, <2>d DEF CompleteCommit, Active, TypeOK
    <3>2. LET new == CompletedRow(job[claim[w].job], seen[w], FALSE)
          IN  /\ new.attempts = job[claim[w].job].attempts
              /\ new.state \in {"succeeded", job[claim[w].job].state}
      BY <3>1, CompletedRowWrites
    <3> QED BY <2>6, <3>1, <3>2, <2>q, CountedClaimsKept
            DEF CompleteCommit, Release, Active, TypeOK
  <2>7. ASSUME NEW w \in Workers, FailLoad(w) PROVE CountedClaims'
    <3>1. PICK retryable \in BOOLEAN : claim' = [claim EXCEPT ![w].retryable = retryable]
      BY <2>7 DEF FailLoad
    <3>2. \A v \in Workers : /\ claim'[v].job = claim[v].job
                             /\ claim'[v].attempt = claim[v].attempt
      BY <3>1 DEF TypeOK, Claims
    <3> QED BY <2>7, <3>2, CountedClaimsKept DEF FailLoad, Active, TypeOK
  <2>8. ASSUME NEW w \in Workers, FailCommit(w) PROVE CountedClaims'
    <3> DEFINE row == job[claim[w].job]
    <3>1. claim[w].job \in Jobs /\ row \in JobRows /\ seen[w] \in JobRows
      BY <2>8, <2>d DEF FailCommit, Active, TypeOK
    <3> DEFINE final == IsFinalFailure(claim[w].attempt, MaxAttempts, claim[w].retryable)
               new == FailedRow(row, seen[w], final)
    <3>a. job' = [job EXCEPT ![claim[w].job] = new]
      BY <2>8 DEF FailCommit
    <3>b. claim[w].attempt \in Nat /\ claim[w].retryable \in BOOLEAN
      BY <2>8, <2>d DEF FailCommit, Active, Claims
    <3>2. \/ new = FinallyFailedRow(row, seen[w])
          \/ new = BackedOffRow(row, seen[w]) /\ claim[w].attempt < MaxAttempts
      BY <3>b, MaxAttemptsAssumption DEF FailedRow, IsFinalFailure
    <3> HIDE DEF new
    <3>3. new.attempts = row.attempts /\ new.state \in {"failed", "pending", row.state}
      BY <3>1, <3>2, FinalFailureWrites, RetriedFailureWrites
    <3> QED BY <2>8, <3>a, <3>1, <3>3, <2>q, CountedClaimsKept
            DEF FailCommit, Release, Active, TypeOK
  <2>9. ASSUME NEW w \in Workers, ThreadDies(w) \/ Crash(w) \/ Restart(w)
        PROVE  CountedClaims'
    BY <2>9, CountedClaimsKept DEF ThreadDies, Crash, Restart, Release, Active, TypeOK
  <2>10. ASSUME NEW j \in Jobs, BecomeDue(j) \/ LockExpires(j) PROVE CountedClaims'
    <3> DEFINE due == [job[j] EXCEPT !.due = TRUE]
               expired == [job[j] EXCEPT !.lock = "expired"]
    <3>a. /\ due.attempts = job[j].attempts /\ due.state = job[j].state
          /\ expired.attempts = job[j].attempts /\ expired.state = job[j].state
      BY TimeLeavesAttempts DEF TypeOK
    <3>b. job' = [job EXCEPT ![j] = due] \/ job' = [job EXCEPT ![j] = expired]
      BY <2>10 DEF BecomeDue, LockExpires
    <3> HIDE DEF due, expired
    <3>1. \A k \in Jobs : /\ job'[k].attempts = job[k].attempts
                          /\ job'[k].state = job[k].state
      BY <3>a, <3>b DEF TypeOK
    <3> QED BY <2>10, <3>1, <2>q, CountedClaimsKept
            DEF BecomeDue, LockExpires, Active, TypeOK
  <2>11. CASE UNCHANGED vars
    BY <2>11, CountedClaimsKept DEF vars, Active
  <2> QED
    BY <2>1, <2>2, <2>3, <2>4, <2>5, <2>6, <2>7, <2>8, <2>9, <2>10, <2>11
    DEF Next, WorkerStep
<1>3. CountedClaims => AttemptsIdentifyClaims
  BY DEF CountedClaims
<1> QED BY <1>1, <1>2, <1>3, TypeCorrect, PTL DEF Spec

-----------------------------------------------------------------------------
(* When handlers end within the lock timeout.                              *)

\* The row of a job in execution is the row its worker claimed, and what the
\* worker loaded to report on is that row.
HandlersHoldLocks ==
  \A w \in Workers :
    Active(w) /\ claim[w].job \in QueueJobs =>
      LET row == job[claim[w].job]
      IN  /\ row.state = "running"
          /\ row.lock = "held"
          /\ row.attempts = claim[w].attempt
          /\ pc[w] # "working" => seen[w].state = "running" /\ seen[w].lock = "held"

RunningIsLocked ==
  \A j \in QueueJobs : job[j].state = "running" <=> job[j].lock # "null"

OneOwner ==
  \A v, w \in Workers :
    Active(v) /\ Active(w) /\ claim[v].job = claim[w].job /\ claim[w].job \in QueueJobs
      => v = w

\* The inductive invariant of the queue.
TimelyInv ==
  /\ HandlersHoldLocks
  /\ RunningIsLocked
  /\ OneOwner
  /\ PendingIsClaimable

\* A step that claims nothing keeps the invariant when it leaves the rows in
\* execution as they were and every row locked exactly while it runs.
LEMMA TimelyKept ==
  ASSUME TimelyInv,
         \A w \in Workers : Active(w)' =>
            /\ Active(w)
            /\ claim'[w].job = claim[w].job
            /\ claim'[w].attempt = claim[w].attempt
            /\ \/ pc'[w] = pc[w] /\ seen'[w] = seen[w]
               \/ seen'[w] = job[claim[w].job],
         \A w \in Workers : Active(w)' /\ claim[w].job \in QueueJobs =>
            /\ job'[claim[w].job].state = job[claim[w].job].state
            /\ job'[claim[w].job].lock = job[claim[w].job].lock
            /\ job'[claim[w].job].attempts = job[claim[w].job].attempts,
         RunningIsLocked', PendingIsClaimable'
  PROVE  TimelyInv'
<1>1. HandlersHoldLocks'
  BY DEF TimelyInv, HandlersHoldLocks, QueueJobs
<1>2. OneOwner'
  BY DEF TimelyInv, OneOwner, QueueJobs
<1> QED BY <1>1, <1>2 DEF TimelyInv

\* The queue keeps its invariant: while a handler runs, nobody else touches the
\* row of its job.
THEOREM Timely ==
  ASSUME LockOutlivesHandlers
  PROVE  Spec => []TimelyInv
<1>1. Init => TimelyInv
  BY DEF Init, TimelyInv, HandlersHoldLocks, RunningIsLocked, OneOwner,
         PendingIsClaimable, Active, AbsentRow, QueueJobs
<1>2. TypeOK /\ TimelyInv /\ [Next]_vars => TimelyInv'
  <2> SUFFICES ASSUME TypeOK, TimelyInv, [Next]_vars PROVE TimelyInv'
    OBVIOUS
  <2>q. QueueJobs \subseteq Jobs /\ \A j \in RetriableJobs : j \notin QueueJobs
    BY DEF QueueJobs
  <2>d. ASSUME NEW w \in Workers, Active(w)
        PROVE  claim[w].job \in Jobs /\ claim[w] \in Claims
    BY <2>d DEF Claims, TypeOK
  <2>e. ASSUME NEW w \in Workers, Active(w), claim[w].job \in QueueJobs
        PROVE  /\ job[claim[w].job].state = "running"
               /\ job[claim[w].job].lock = "held"
               /\ job[claim[w].job].attempts = claim[w].attempt
               /\ pc[w] # "working" => seen[w].state = "running" /\ seen[w].lock = "held"
    BY <2>e DEF TimelyInv, HandlersHoldLocks
  <2>r. ASSUME NEW j \in QueueJobs
        PROVE  /\ job[j].state = "running" <=> job[j].lock # "null"
               /\ job[j].state = "pending" => job[j].attempts < MaxAttempts
    BY DEF TimelyInv, RunningIsLocked, PendingIsClaimable
  <2>o. ASSUME NEW v \in Workers, NEW w \in Workers, Active(v), Active(w),
               claim[v].job = claim[w].job, claim[w].job \in QueueJobs
        PROVE  v = w
    BY <2>o DEF TimelyInv, OneOwner
  <2>1. ASSUME NEW j \in Jobs, Enqueue(j) PROVE TimelyInv'
    <3>1. \A w \in Workers : Active(w)' => Active(w) /\ (claim[w].job \in QueueJobs => claim[w].job # j)
      BY <2>1, <2>e DEF Enqueue, Active
    <3>2. RunningIsLocked' /\ PendingIsClaimable'
      BY <2>1, <2>r, <2>q, MaxAttemptsAssumption
      DEF Enqueue, NewRow, RunningIsLocked, PendingIsClaimable, TypeOK, QueueJobs
    <3> QED BY <2>1, <3>1, <3>2, <2>q, TimelyKept DEF Enqueue, Active, TypeOK
  <2>2. ASSUME NEW j \in RetriableJobs, RetryLoad(j) PROVE TimelyInv'
    <3>1. RunningIsLocked' /\ PendingIsClaimable'
      BY <2>2, <2>r DEF RetryLoad, RunningIsLocked, PendingIsClaimable, QueueJobs
    <3> QED BY <2>2, <3>1, TimelyKept DEF RetryLoad, Active
  <2>3. ASSUME NEW j \in RetriableJobs, RetryCommit(j) PROVE TimelyInv'
    <3>1. \A k \in QueueJobs : job'[k] = job[k]
      BY <2>3, <2>q DEF RetryCommit, TypeOK
    <3>2. RunningIsLocked' /\ PendingIsClaimable'
      BY <3>1, <2>r DEF RunningIsLocked, PendingIsClaimable, QueueJobs
    <3> QED BY <2>3, <3>1, <3>2, TimelyKept DEF RetryCommit, Active
  <2>4. ASSUME NEW w \in Workers, NEW j \in Jobs, Claim(w, j) PROVE TimelyInv'
    <3>1. /\ job' = [job EXCEPT ![j] = ClaimedRow(job[j])]
          /\ job[j] \in JobRows
          /\ Eligible(job[j], MaxAttempts)
      BY <2>4 DEF Claim, Candidates, TypeOK
    <3>2. /\ ClaimedRow(job[j]).attempts = job[j].attempts + 1
          /\ ClaimedRow(job[j]).state = "running"
          /\ ClaimedRow(job[j]).lock = "held"
      BY <3>1, ClaimedRowWrites, MaxAttemptsAssumption
    <3>3. /\ claim'[w].job = j /\ claim'[w].attempt = job[j].attempts + 1
          /\ pc'[w] = "working" /\ seen' = seen
          /\ \A v \in Workers \ {w} :
               claim'[v] = claim[v] /\ pc'[v] = pc[v] /\ (Active(v)' <=> Active(v))
      BY <2>4 DEF Claim, Active, TypeOK
    <3>4. \A k \in Jobs : job'[k] = IF k = j THEN ClaimedRow(job[j]) ELSE job[k]
      BY <3>1 DEF TypeOK
    <3>5. job[j].state = "pending" \/ job[j].lock = "expired"
      BY <3>1 DEF Eligible
    <3>6. \A v \in Workers \ {w} :
            Active(v)' /\ claim'[v].job \in QueueJobs => claim[v].job # j
      BY <3>3, <3>5, <2>e
    <3>7. RunningIsLocked' /\ PendingIsClaimable'
      BY <3>2, <3>4, <2>r, <2>q DEF RunningIsLocked, PendingIsClaimable, QueueJobs
    <3>8. OneOwner'
      BY <3>3, <3>6, <2>o DEF OneOwner, QueueJobs
    <3>9. HandlersHoldLocks'
      <4> SUFFICES ASSUME NEW v \in Workers, Active(v)', claim'[v].job \in QueueJobs
                   PROVE  /\ job'[claim'[v].job].state = "running"
                          /\ job'[claim'[v].job].lock = "held"
                          /\ job'[claim'[v].job].attempts = claim'[v].attempt
                          /\ pc'[v] # "working" =>
                               seen'[v].state = "running" /\ seen'[v].lock = "held"
        BY DEF HandlersHoldLocks, QueueJobs
      <4>1. CASE v = w
        BY <4>1, <3>2, <3>3, <3>4
      <4>2. CASE v # w
        BY <4>2, <3>3, <3>4, <3>6, <2>e, <2>q
      <4> QED BY <4>1, <4>2
    <3> QED BY <3>7, <3>8, <3>9 DEF TimelyInv
  <2>5. ASSUME NEW w \in Workers, CompleteLoad(w) PROVE TimelyInv'
    <3>1. RunningIsLocked' /\ PendingIsClaimable'
      BY <2>5, <2>r DEF CompleteLoad, RunningIsLocked, PendingIsClaimable, QueueJobs
    <3> QED BY <2>5, <3>1, TimelyKept DEF CompleteLoad, Active, TypeOK
  <2>6. ASSUME NEW w \in Workers, CompleteCommit(w) PROVE TimelyInv'
    <3> DEFINE j == claim[w].job
               new == CompletedRow(job[j], seen[w], FALSE)
    <3>1. j \in Jobs /\ seen[w] \in JobRows /\ job[j] \in JobRows /\ Active(w)
      BY <2>6, <2>d DEF CompleteCommit, Active, TypeOK
    <3>2. j \in QueueJobs => new.state = "succeeded" /\ new.lock = "null"
      BY <2>6, <2>e, <3>1, CompletedRowWrites DEF CompleteCommit
    <3>3. job' = [job EXCEPT ![j] = new]
      BY <2>6 DEF CompleteCommit
    <3>4. \A v \in Workers : Active(v)' =>
            /\ v # w /\ Active(v) /\ claim'[v] = claim[v] /\ seen'[v] = seen[v]
            /\ pc'[v] = pc[v]
      BY <2>6 DEF CompleteCommit, Release, Active, TypeOK
    <3> HIDE DEF new
    <3>5. RunningIsLocked' /\ PendingIsClaimable'
      BY <3>2, <3>3, <2>r, <2>q DEF RunningIsLocked, PendingIsClaimable, QueueJobs, TypeOK
    <3>6. \A v \in Workers : Active(v)' /\ claim[v].job \in QueueJobs =>
            job'[claim[v].job] = job[claim[v].job]
      BY <3>1, <3>3, <3>4, <2>o, <2>q DEF TypeOK
    <3> QED BY <3>4, <3>5, <3>6, TimelyKept
  <2>7. ASSUME NEW w \in Workers, FailLoad(w) PROVE TimelyInv'
    <3>1. PICK retryable \in BOOLEAN : claim' = [claim EXCEPT ![w].retryable = retryable]
      BY <2>7 DEF FailLoad
    <3>2. \A v \in Workers : /\ claim'[v].job = claim[v].job
                             /\ claim'[v].attempt = claim[v].attempt
      BY <3>1 DEF TypeOK, Claims
    <3>3. RunningIsLocked' /\ PendingIsClaimable'
      BY <2>7, <2>r DEF FailLoad, RunningIsLocked, PendingIsClaimable, QueueJobs
    <3> QED BY <2>7, <3>2, <3>3, TimelyKept DEF FailLoad, Active, TypeOK
  <2>8. ASSUME NEW w \in Workers, FailCommit(w) PROVE TimelyInv'
    <3> DEFINE j == claim[w].job
    <3>1. j \in Jobs /\ seen[w] \in JobRows /\ job[j] \in JobRows /\ Active(w)
      BY <2>8, <2>d DEF FailCommit, Active, TypeOK
    <3> DEFINE final == IsFinalFailure(claim[w].attempt, MaxAttempts, claim[w].retryable)
               new == FailedRow(job[j], seen[w], final)
    <3>a. job' = [job EXCEPT ![claim[w].job] = new]
      BY <2>8 DEF FailCommit
    <3>b. claim[w].attempt \in Nat /\ claim[w].retryable \in BOOLEAN
      BY <2>8, <2>d DEF FailCommit, Active, Claims
    <3>2. \/ new = FinallyFailedRow(job[j], seen[w])
          \/ new = BackedOffRow(job[j], seen[w]) /\ claim[w].attempt < MaxAttempts
      BY <3>b, MaxAttemptsAssumption DEF FailedRow, IsFinalFailure
    <3> HIDE DEF new
    <3>3. \A v \in Workers : Active(v)' =>
            /\ v # w /\ Active(v) /\ claim'[v] = claim[v] /\ seen'[v] = seen[v]
            /\ pc'[v] = pc[v]
      BY <2>8 DEF FailCommit, Release, Active, TypeOK
    <3>4. j \in QueueJobs => /\ seen[w].state = "running" /\ seen[w].lock = "held"
                             /\ job[j].attempts = claim[w].attempt
      BY <2>8, <2>e, <3>1 DEF FailCommit
    <3>5. j \in QueueJobs => /\ new.lock = "null"
                             /\ new.state # "running"
                             /\ new.state = "pending" => new.attempts < MaxAttempts
      BY <3>1, <3>2, <3>4, FinalFailureWrites, RetriedFailureWrites
    <3>6. RunningIsLocked' /\ PendingIsClaimable'
      BY <3>a, <3>5, <2>r, <2>q DEF RunningIsLocked, PendingIsClaimable, QueueJobs, TypeOK
    <3>7. \A v \in Workers : Active(v)' /\ claim[v].job \in QueueJobs =>
            job'[claim[v].job] = job[claim[v].job]
      BY <3>1, <3>a, <3>3, <2>o, <2>q DEF TypeOK
    <3> QED BY <3>3, <3>6, <3>7, TimelyKept
  <2>9. ASSUME NEW w \in Workers, ThreadDies(w) \/ Crash(w) \/ Restart(w)
        PROVE  TimelyInv'
    <3>1. RunningIsLocked' /\ PendingIsClaimable'
      BY <2>9, <2>r
      DEF ThreadDies, Crash, Restart, RunningIsLocked, PendingIsClaimable, QueueJobs
    <3> QED BY <2>9, <3>1, TimelyKept DEF ThreadDies, Crash, Restart, Release, Active, TypeOK
  <2>10. ASSUME NEW j \in Jobs, BecomeDue(j) PROVE TimelyInv'
    <3> DEFINE new == [job[j] EXCEPT !.due = TRUE]
    <3>1. /\ new.state = job[j].state /\ new.lock = job[j].lock
          /\ new.attempts = job[j].attempts
      BY TimeLeavesAttempts DEF TypeOK
    <3>2. job' = [job EXCEPT ![j] = new]
      BY <2>10 DEF BecomeDue
    <3> HIDE DEF new
    <3>3. \A k \in Jobs : /\ job'[k].state = job[k].state
                          /\ job'[k].lock = job[k].lock
                          /\ job'[k].attempts = job[k].attempts
      BY <3>1, <3>2 DEF TypeOK
    <3>4. RunningIsLocked' /\ PendingIsClaimable'
      BY <3>3, <2>r, <2>q DEF RunningIsLocked, PendingIsClaimable, QueueJobs
    <3> QED BY <2>10, <3>3, <3>4, <2>q, TimelyKept DEF BecomeDue, Active
  <2>11. ASSUME NEW j \in Jobs, LockExpires(j) PROVE TimelyInv'
    <3> DEFINE new == [job[j] EXCEPT !.lock = "expired"]
    <3>1. /\ new.state = job[j].state /\ new.lock = "expired"
          /\ new.attempts = job[j].attempts
      BY TimeLeavesAttempts DEF TypeOK
    <3>2. /\ job' = [job EXCEPT ![j] = new]
          /\ job[j].lock = "held"
          /\ Owners(j) = {}
      BY <2>11 DEF LockExpires
    <3> HIDE DEF new
    <3>3. RunningIsLocked' /\ PendingIsClaimable'
      BY <3>1, <3>2, <2>r, <2>q DEF RunningIsLocked, PendingIsClaimable, QueueJobs, TypeOK
    <3>4. \A v \in Workers : Active(v) => claim[v].job # j
      BY <3>2 DEF Owners
    <3> QED BY <2>11, <3>2, <3>3, <3>4, <2>q, TimelyKept DEF LockExpires, Active, TypeOK
  <2>12. CASE UNCHANGED vars
    <3>1. RunningIsLocked' /\ PendingIsClaimable'
      BY <2>12, <2>r DEF vars, RunningIsLocked, PendingIsClaimable, QueueJobs
    <3> QED BY <2>12, <3>1, TimelyKept DEF vars, Active
  <2> QED
    BY <2>1, <2>2, <2>3, <2>4, <2>5, <2>6, <2>7, <2>8, <2>9, <2>10, <2>11, <2>12
    DEF Next, WorkerStep
<1> QED BY <1>1, <1>2, TypeCorrect, PTL DEF Spec

\* A job is executed by one worker at a time.
THEOREM Exclusive ==
  ASSUME LockOutlivesHandlers
  PROVE  Spec => []ExclusiveExecution
<1>1. TimelyInv => ExclusiveExecution
  BY DEF TimelyInv, OneOwner, ExclusiveExecution, Owners
<1>2. Spec => []TimelyInv
  BY Timely
<1> QED BY <1>1, <1>2, PTL

\* No pending job has used up its attempts, so none waits for ever.
THEOREM PendingClaimable ==
  ASSUME LockOutlivesHandlers
  PROVE  Spec => []PendingIsClaimable
<1>1. TimelyInv => PendingIsClaimable
  BY DEF TimelyInv
<1>2. Spec => []TimelyInv
  BY Timely
<1> QED BY <1>1, <1>2, PTL

\* A job whose worker was killed keeps the timestamp that recovers it.
THEOREM AbandonedLocked ==
  ASSUME LockOutlivesHandlers
  PROVE  Spec => []AbandonedIsLocked
<1>1. TimelyInv => AbandonedIsLocked
  BY DEF TimelyInv, RunningIsLocked, AbandonedIsLocked
<1>2. Spec => []TimelyInv
  BY Timely
<1> QED BY <1>1, <1>2, PTL

-----------------------------------------------------------------------------
(* The queue implements the lifecycle.                                     *)

\* A step in which every worker keeps its claim leaves the owners alone.
LEMMA OwnersKept ==
  ASSUME \A w \in Workers : (Active(w)' <=> Active(w)) /\ claim'[w].job = claim[w].job
  PROVE  \A j \in QueueJobs : Owners(j)' = Owners(j)
BY DEF Owners

\* A worker that gives up its claim leaves the owners of its job, no others.
LEMMA OwnerLeaves ==
  ASSUME NEW w \in Workers, ~Active(w)',
         \A v \in Workers \ {w} : (Active(v)' <=> Active(v)) /\ claim'[v] = claim[v]
  PROVE  \A j \in QueueJobs : Owners(j)' = Owners(j) \ {w}
BY DEF Owners

\* Every step of the queue is a step of the lifecycle, or leaves it alone.
LEMMA LifecycleStep ==
  ASSUME LockOutlivesHandlers, TypeOK, TimelyInv, [Next]_vars
  PROVE  [Lifecycle!Next]_(Lifecycle!lifecycleVars)
<1> DEFINE kept == \A j \in QueueJobs : job'[j].state = job[j].state /\ Owners(j)' = Owners(j)
           phase == [j \in QueueJobs |-> job[j].state]
           holder == [j \in QueueJobs |-> Owners(j)]
<1>q. /\ QueueJobs \subseteq Jobs /\ \A j \in RetriableJobs : j \notin QueueJobs
      /\ QueueJobs' = QueueJobs
  BY DEF QueueJobs
<1>d. ASSUME NEW w \in Workers, Active(w)
      PROVE  claim[w].job \in Jobs /\ claim[w] \in Claims
  BY <1>d DEF Claims, TypeOK
<1>k. kept => UNCHANGED Lifecycle!lifecycleVars
  BY <1>q DEF Lifecycle!lifecycleVars
<1>e. ASSUME NEW w \in Workers, Active(w), claim[w].job \in QueueJobs
      PROVE  /\ job[claim[w].job].state = "running"
             /\ job[claim[w].job].lock = "held"
             /\ pc[w] # "working" => seen[w].state = "running"
  BY <1>e DEF TimelyInv, HandlersHoldLocks
<1>s. ASSUME NEW j \in QueueJobs, NEW v \in Workers, v \in Owners(j)
      PROVE  Owners(j) = {v}
  BY <1>s DEF TimelyInv, OneOwner, Owners
<1>l. \* a worker that loses its claim without a report
      ASSUME NEW w \in Workers, ~Active(w)', UNCHANGED job,
             \A v \in Workers \ {w} : (Active(v)' <=> Active(v)) /\ claim'[v] = claim[v]
      PROVE  Lifecycle!Next \/ UNCHANGED Lifecycle!lifecycleVars
  <2>1. \A j \in QueueJobs : Owners(j)' = Owners(j) \ {w}
    BY <1>l, OwnerLeaves
  <2>2. ASSUME NEW j \in QueueJobs, w \in Owners(j) PROVE Lifecycle!Lose(j)
    <3>1. Owners(j) = {w} /\ \A k \in QueueJobs \ {j} : w \notin Owners(k)
      BY <2>2, <1>s DEF Owners
    <3>2. holder' = [holder EXCEPT ![j] = {}]
      <4>1. Owners(j)' = {} /\ \A k \in QueueJobs \ {j} : Owners(k)' = Owners(k)
        BY <2>1, <3>1, <2>2
      <4> QED BY <1>q, <4>1
    <3> QED BY <1>l, <1>q, <3>1, <3>2 DEF Lifecycle!Lose
  <2>3. CASE \A j \in QueueJobs : w \notin Owners(j)
    BY <2>1, <2>3, <1>l, <1>k
  <2> QED BY <2>2, <2>3 DEF Lifecycle!Next
<1>r. \* a worker that reports the outcome of its job
      ASSUME NEW w \in Workers, Active(w), ~Active(w)',
             NEW j \in Jobs, claim[w].job = j, NEW state,
             \A k \in Jobs \ {j} : job'[k].state = job[k].state,
             job'[j].state = state,
             j \in QueueJobs => state \in {"pending", "succeeded", "failed"},
             \A v \in Workers \ {w} : (Active(v)' <=> Active(v)) /\ claim'[v] = claim[v]
      PROVE  Lifecycle!Next \/ UNCHANGED Lifecycle!lifecycleVars
  <2>1. \A k \in QueueJobs : Owners(k)' = Owners(k) \ {w}
    BY <1>r, OwnerLeaves
  <2>3. CASE j \in QueueJobs
    <3>1. Owners(j) = {w} /\ \A k \in QueueJobs \ {j} : w \notin Owners(k)
      BY <2>3, <1>r, <1>s DEF Owners
    <3>2. job[j].state = "running"
      BY <2>3, <1>r, <1>e
    <3>3. holder' = [holder EXCEPT ![j] = {}]
      <4>1. Owners(j)' = {} /\ \A k \in QueueJobs \ {j} : Owners(k)' = Owners(k)
        BY <2>1, <2>3, <3>1
      <4> QED BY <1>q, <4>1
    <3>4. phase' = [phase EXCEPT ![j] = state]
      BY <1>q, <1>r
    <3>5. Lifecycle!Report(j)
      BY <1>r, <2>3, <3>1, <3>2, <3>3, <3>4 DEF Lifecycle!Report
    <3> QED BY <2>3, <3>5 DEF Lifecycle!Next
  <2>4. CASE j \notin QueueJobs
    <3>1. \A k \in QueueJobs : w \notin Owners(k)
      BY <1>r, <2>4 DEF Owners
    <3> QED BY <1>r, <2>1, <2>4, <3>1, <1>q, <1>k
  <2> QED BY <2>3, <2>4
<1>1. ASSUME NEW j \in Jobs, Enqueue(j)
      PROVE  Lifecycle!Next \/ UNCHANGED Lifecycle!lifecycleVars
  <2>1. \A k \in QueueJobs : Owners(k)' = Owners(k)
    BY <1>1, OwnersKept DEF Enqueue, Active
  <2>2. \A k \in Jobs : job'[k] = IF k = j THEN NewRow ELSE job[k]
    BY <1>1 DEF Enqueue, TypeOK
  <2>3. CASE j \in QueueJobs
    <3>1. Lifecycle!Submit(j)
      <4>1. phase' = [phase EXCEPT ![j] = "pending"]
        <5>1. /\ job'[j].state = "pending"
              /\ \A k \in QueueJobs \ {j} : job'[k].state = job[k].state
          BY <1>q, <2>2 DEF NewRow
        <5> QED BY <1>q, <5>1
      <4>2. holder' = holder
        BY <1>q, <2>1
      <4> QED BY <1>1, <2>3, <4>1, <4>2 DEF Enqueue, Lifecycle!Submit
    <3> QED BY <2>3, <3>1 DEF Lifecycle!Next
  <2>4. CASE j \notin QueueJobs
    BY <2>1, <2>2, <2>4, <1>q, <1>k
  <2> QED BY <2>3, <2>4
<1>2. ASSUME NEW j \in RetriableJobs, RetryLoad(j) \/ RetryCommit(j)
      PROVE  UNCHANGED Lifecycle!lifecycleVars
  <2>1. \A k \in QueueJobs : Owners(k)' = Owners(k)
    BY <1>2, OwnersKept DEF RetryLoad, RetryCommit, Active
  <2>2. \A k \in QueueJobs : job'[k] = job[k]
    BY <1>2, <1>q DEF RetryLoad, RetryCommit, TypeOK
  <2> QED BY <2>1, <2>2, <1>k
<1>3. ASSUME NEW w \in Workers, NEW j \in Jobs, Claim(w, j)
      PROVE  Lifecycle!Next \/ UNCHANGED Lifecycle!lifecycleVars
  <2>1. /\ \A k \in Jobs : job'[k] = IF k = j THEN ClaimedRow(job[j]) ELSE job[k]
        /\ ClaimedRow(job[j]).state = "running"
        /\ job[j].state = "pending" \/ (job[j].state = "running" /\ job[j].lock = "expired")
    <3>1. job[j] \in JobRows /\ Eligible(job[j], MaxAttempts)
      BY <1>3 DEF Claim, Candidates, TypeOK
    <3>2. ClaimedRow(job[j]).state = "running"
      BY <3>1, ClaimedRowWrites, MaxAttemptsAssumption
    <3>3. \A k \in Jobs : job'[k] = IF k = j THEN ClaimedRow(job[j]) ELSE job[k]
      BY <1>3 DEF Claim, TypeOK
    <3>4. job[j].state = "pending" \/ (job[j].state = "running" /\ job[j].lock = "expired")
      BY <3>1 DEF Eligible
    <3> QED BY <3>2, <3>3, <3>4
  <2>2. /\ ~Active(w) /\ Active(w)' /\ claim'[w].job = j
        /\ \A v \in Workers \ {w} : (Active(v)' <=> Active(v)) /\ claim'[v] = claim[v]
    BY <1>3 DEF Claim, Active, TypeOK
  <2>3. /\ \A k \in QueueJobs \ {j} : Owners(k)' = Owners(k)
        /\ Owners(j)' = Owners(j) \cup {w}
        /\ \A k \in QueueJobs : w \notin Owners(k)
    BY <2>2 DEF Owners
  <2>4. CASE j \in QueueJobs
    <3>1. Owners(j) = {}
      BY <2>1, <2>4, <1>e DEF Owners
    <3>2. Lifecycle!Start(j, w)
      <4>1. phase' = [phase EXCEPT ![j] = "running"]
        BY <1>q, <2>1
      <4>2. holder' = [holder EXCEPT ![j] = {w}]
        BY <1>q, <2>3, <3>1
      <4> QED BY <2>1, <2>3, <2>4, <3>1, <4>1, <4>2 DEF Lifecycle!Start
    <3> QED BY <2>4, <3>2 DEF Lifecycle!Next
  <2>5. CASE j \notin QueueJobs
    BY <2>1, <2>3, <2>5, <1>q, <1>k
  <2> QED BY <2>4, <2>5
<1>4. ASSUME NEW w \in Workers, CompleteLoad(w) \/ FailLoad(w)
      PROVE  UNCHANGED Lifecycle!lifecycleVars
  <2>1. \A v \in Workers : claim'[v].job = claim[v].job
    <3>1. CASE CompleteLoad(w)
      BY <3>1 DEF CompleteLoad
    <3>2. CASE FailLoad(w)
      <4>1. PICK retryable \in BOOLEAN : claim' = [claim EXCEPT ![w].retryable = retryable]
        BY <3>2 DEF FailLoad
      <4> QED BY <4>1 DEF TypeOK, Claims
    <3> QED BY <1>4, <3>1, <3>2
  <2>2. \A v \in Workers : Active(v)' <=> Active(v)
    BY <1>4 DEF CompleteLoad, FailLoad, Active, TypeOK
  <2> QED BY <1>4, <2>1, <2>2, <1>k, OwnersKept DEF CompleteLoad, FailLoad
<1>5. ASSUME NEW w \in Workers, CompleteCommit(w)
      PROVE  Lifecycle!Next \/ UNCHANGED Lifecycle!lifecycleVars
  <2>j. PICK j \in Jobs : claim[w].job = j
    BY <1>5, <1>d DEF CompleteCommit, Active
  <2> DEFINE new == CompletedRow(job[j], seen[w], FALSE)
  <2>1. /\ j \in Jobs /\ job[j] \in JobRows /\ seen[w] \in JobRows /\ Active(w)
        /\ j \in QueueJobs => seen[w].state = "running"
    BY <1>5, <1>d, <1>e, <2>j DEF CompleteCommit, Active, TypeOK
  <2>2. j \in QueueJobs => new.state \in {"pending", "succeeded", "failed"}
    BY <2>1, CompletedRowWrites
  <2>3. /\ ~Active(w)'
        /\ \A v \in Workers \ {w} : (Active(v)' <=> Active(v)) /\ claim'[v] = claim[v]
    BY <1>5 DEF CompleteCommit, Release, Active, TypeOK
  <2>4. job' = [job EXCEPT ![j] = new]
    BY <1>5, <2>j DEF CompleteCommit
  <2> HIDE DEF new
  <2>5. job'[j].state = new.state /\ \A k \in Jobs \ {j} : job'[k].state = job[k].state
    BY <2>4 DEF TypeOK
  <2> QED BY <2>j, <2>1, <2>2, <2>3, <2>5, <1>r
<1>6. ASSUME NEW w \in Workers, FailCommit(w)
      PROVE  Lifecycle!Next \/ UNCHANGED Lifecycle!lifecycleVars
  <2>j. PICK j \in Jobs : claim[w].job = j
    BY <1>6, <1>d DEF FailCommit, Active
  <2> DEFINE final == IsFinalFailure(claim[w].attempt, MaxAttempts, claim[w].retryable)
             new == FailedRow(job[j], seen[w], final)
  <2>1. /\ j \in Jobs /\ job[j] \in JobRows /\ seen[w] \in JobRows /\ Active(w)
        /\ j \in QueueJobs => seen[w].state = "running"
    BY <1>6, <1>d, <1>e, <2>j DEF FailCommit, Active, TypeOK
  <2>2. \/ new = FinallyFailedRow(job[j], seen[w])
        \/ new = BackedOffRow(job[j], seen[w])
    BY DEF FailedRow
  <2>3. /\ ~Active(w)'
        /\ \A v \in Workers \ {w} : (Active(v)' <=> Active(v)) /\ claim'[v] = claim[v]
    BY <1>6 DEF FailCommit, Release, Active, TypeOK
  <2>4. job' = [job EXCEPT ![j] = new]
    BY <1>6, <2>j DEF FailCommit
  <2> HIDE DEF new
  <2>5. j \in QueueJobs => new.state \in {"pending", "succeeded", "failed"}
    BY <2>1, <2>2, FinalFailureWrites, RetriedFailureWrites
  <2>6. job'[j].state = new.state /\ \A k \in Jobs \ {j} : job'[k].state = job[k].state
    BY <2>4 DEF TypeOK
  <2> QED BY <2>j, <2>1, <2>3, <2>5, <2>6, <1>r
<1>7. ASSUME NEW w \in Workers, ThreadDies(w) \/ Crash(w) \/ Restart(w)
      PROVE  Lifecycle!Next \/ UNCHANGED Lifecycle!lifecycleVars
  BY <1>7, <1>l DEF ThreadDies, Crash, Restart, Release, Active, TypeOK
<1>8. ASSUME NEW j \in Jobs, BecomeDue(j) \/ LockExpires(j)
      PROVE  UNCHANGED Lifecycle!lifecycleVars
  <2>1. \A k \in QueueJobs : Owners(k)' = Owners(k)
    BY <1>8, OwnersKept DEF BecomeDue, LockExpires, Active
  <2>2. \A k \in Jobs : job'[k].state = job[k].state
    <3> DEFINE due == [job[j] EXCEPT !.due = TRUE]
               expired == [job[j] EXCEPT !.lock = "expired"]
    <3>1. due.state = job[j].state /\ expired.state = job[j].state
      BY TimeLeavesAttempts DEF TypeOK
    <3>2. job' = [job EXCEPT ![j] = due] \/ job' = [job EXCEPT ![j] = expired]
      BY <1>8 DEF BecomeDue, LockExpires
    <3> HIDE DEF due, expired
    <3> QED BY <3>1, <3>2 DEF TypeOK
  <2> QED BY <2>1, <2>2, <1>q, <1>k
<1>9. CASE UNCHANGED vars
  BY <1>9, <1>k, OwnersKept DEF vars, Active
<1> QED
  BY <1>1, <1>2, <1>3, <1>4, <1>5, <1>6, <1>7, <1>8, <1>9 DEF Next, WorkerStep

\* When handlers end within the lock timeout, the queue is the lifecycle: one
\* holder at a time, lost executions may start again, outcomes are final.
THEOREM QueueImplementsLifecycle ==
  ASSUME LockOutlivesHandlers
  PROVE  Spec => ImplementsLifecycle
<1>1. Init => Lifecycle!Init
  BY DEF Init, Lifecycle!Init, AbsentRow, Owners, Active, QueueJobs
<1>2. TypeOK /\ TimelyInv /\ [Next]_vars => [Lifecycle!Next]_(Lifecycle!lifecycleVars)
  BY LifecycleStep
<1>3. Spec => []TimelyInv
  BY Timely
<1> QED BY <1>1, <1>2, <1>3, TypeCorrect, PTL DEF Spec, ImplementsLifecycle, Lifecycle!Spec

\* A job that has succeeded or failed keeps that outcome, when handlers end
\* within the lock timeout.  (jobs_late_report shows that it need not otherwise.)
THEOREM OutcomeFinal ==
  ASSUME LockOutlivesHandlers
  PROVE  Spec => OutcomeIsFinal
<1> DEFINE Final == \A j \in QueueJobs :
                      job[j].state \in FinalStates => job'[j].state = job[j].state
<1>1. TypeOK /\ TimelyInv /\ [Next]_vars => [Final]_vars
  <2> SUFFICES ASSUME TypeOK, TimelyInv, [Next]_vars, NEW j \in QueueJobs,
                      job[j].state \in FinalStates
               PROVE  job'[j].state = job[j].state
    OBVIOUS
  <2>1. [Lifecycle!Next]_(Lifecycle!lifecycleVars)
    BY LifecycleStep
  <2>2. CASE UNCHANGED Lifecycle!lifecycleVars
    BY <2>2 DEF Lifecycle!lifecycleVars, QueueJobs
  <2>3. CASE Lifecycle!Next
    BY <2>3
    DEF Lifecycle!Next, Lifecycle!Submit, Lifecycle!Start, Lifecycle!Report,
        Lifecycle!Lose, FinalStates, QueueJobs
  <2> QED BY <2>1, <2>2, <2>3
<1>2. Spec => []TimelyInv
  BY Timely
<1> QED BY <1>1, <1>2, TypeCorrect, PTL DEF Spec, OutcomeIsFinal
=============================================================================
