--------------------------- MODULE MediaIngestProofs ---------------------------
(***************************************************************************)
(* What the rows of MediaIngest promise about the blobs, proved for every  *)
(* number of photos, workers and attempts, wherever workers are killed or  *)
(* see errors, however long handlers run and whenever users retry.         *)
(***************************************************************************)
EXTENDS MediaIngest, TLAPS

-----------------------------------------------------------------------------
(* The writes to a row of processing_jobs and to a media row.              *)

\* The rows within the CHECK constraint attempts <= max_attempts.
BudgetRows(max) == {row \in JobRows : row.attempts <= max}

\* No report, no retry and no passing of time changes the count of attempts,
\* whatever row was loaded before, but the retry may reset it; a report writes
\* its outcome or leaves the state alone.
LEMMA CompletedRowWrites ==
  ASSUME NEW row \in JobRows, NEW loaded \in JobRows
  PROVE  LET result == CompletedRow(row, loaded, FALSE)
         IN  /\ result \in JobRows
             /\ result.attempts = row.attempts
             /\ result.state \in {"succeeded", row.state}
             /\ loaded.state = "running" => result.state = "succeeded"
BY DEF CompletedRow, Flush, Written, JobRows, JobStates, Locks

\* fail_job, final or not.
LEMMA FailedRowWrites ==
  ASSUME NEW row \in JobRows, NEW loaded \in JobRows, NEW final \in BOOLEAN
  PROVE  LET result == FailedRow(row, loaded, final)
         IN  /\ result \in JobRows
             /\ result.attempts = row.attempts
             /\ result.state \in {"failed", "pending", row.state}
BY DEF FailedRow, FinallyFailedRow, BackedOffRow, Flush, Written, JobRows, JobStates, Locks

\* retry_media stays within the budget.
LEMMA RequeuedRowWrites ==
  ASSUME NEW max \in Nat, NEW row \in BudgetRows(max), NEW loaded \in JobRows,
         NEW due \in BOOLEAN
  PROVE  LET result == RequeuedRow(row, loaded, due)
         IN  /\ result \in BudgetRows(max)
             /\ result.state \in {"pending", row.state}
BY DEF RequeuedRow, Flush, Written, JobRows, JobStates, Locks, BudgetRows

\* claim_job counts the attempt, within the budget.
LEMMA ClaimedRowWrites ==
  ASSUME NEW max \in Nat, NEW row \in JobRows, Eligible(row, max)
  PROVE  ClaimedRow(row) \in BudgetRows(max)
<1>1. row.attempts + 1 \in Nat /\ row.attempts + 1 <= max
  BY DEF Eligible, JobRows
<1>2. ClaimedRow(row) \in JobRows /\ ClaimedRow(row).attempts = row.attempts + 1
  BY <1>1 DEF ClaimedRow, JobRows, JobStates, Locks
<1> QED BY <1>1, <1>2 DEF BudgetRows

\* Neither does a run_after that comes due, or a lock that expires.
LEMMA TimeLeavesAttempts ==
  ASSUME NEW row \in JobRows
  PROVE  /\ [row EXCEPT !.due = TRUE] \in JobRows
         /\ [row EXCEPT !.due = TRUE].attempts = row.attempts
         /\ [row EXCEPT !.due = TRUE].state = row.state
         /\ [row EXCEPT !.due = TRUE].lock = row.lock
         /\ [row EXCEPT !.lock = "expired"] \in JobRows
         /\ [row EXCEPT !.lock = "expired"].attempts = row.attempts
         /\ [row EXCEPT !.lock = "expired"].state = row.state
         /\ [row EXCEPT !.lock = "expired"].lock = "expired"
BY DEF JobRows, Locks

\* A write of the column state.
LEMMA StateWrites ==
  ASSUME NEW row \in MediaRows, NEW assigned \in MediaStates, NEW loaded \in MediaStates
  PROVE  LET result == [row EXCEPT !.state = Written(assigned, loaded, @)]
         IN  /\ result \in MediaRows
             /\ result.state \in {assigned, row.state}
             /\ result.retention = row.retention
             /\ result.assets = row.assets
             /\ result.deleted = row.deleted
BY DEF Written, MediaRows

\* The rows at the final commit of an ingest.
LEMMA IngestedRowWrites ==
  ASSUME NEW row \in MediaRows, NEW loaded \in MediaRows
  PROVE  LET result == [row EXCEPT !.state = Written("ready", loaded.state, @),
                                   !.retention = Written("deleted", loaded.retention, @),
                                   !.assets = TRUE]
         IN  /\ result \in MediaRows
             /\ result.state \in {"ready", row.state}
             /\ result.retention = IF loaded.retention = "deleted"
                                   THEN row.retention ELSE "deleted"
BY DEF Written, MediaRows, MediaStates

\* An exception keeps the claim and forgets what was put.
LEMMA RaiseKeeps ==
  ASSUME TypeOK, NEW w \in Workers, NEW retryable \in BOOLEAN, Raise(w, retryable)
  PROVE  /\ pc' \in [Workers -> PCs]
         /\ claim' \in [Workers -> Claims]
         /\ stored' \in [Workers -> SUBSET Derivatives]
         /\ pc'[w] = "raised" /\ stored'[w] = {}
         /\ \A v \in Workers :
              /\ claim'[v].job = claim[v].job
              /\ v # w => pc'[v] = pc[v] /\ stored'[v] = stored[v]
<1>1. claim' \in [Workers -> Claims] /\ \A v \in Workers : claim'[v].job = claim[v].job
  BY DEF Raise, TypeOK, Claims
<1> QED BY <1>1 DEF Raise, Goto, TypeOK, PCs

-----------------------------------------------------------------------------
(* Types and budget.                                                       *)

\* Every row and every session keeps its type, no ingest job exceeds its budget
\* of attempts, and a worker holds a claim exactly while it handles a job.
THEOREM TypeCorrect == Spec => []TypeOK
<1>1. Init => TypeOK
  BY MediaAssumption, MaxAttemptsAssumption
  DEF Init, TypeOK, AbsentRow, AbsentMedia, NoClaim, NoRetry, JobRows, JobStates, Locks,
      MediaRows, MediaStates, Claims, PCs, Active
<1>2. TypeOK /\ [Next]_vars => TypeOK'
  <2> SUFFICES ASSUME TypeOK, [Next]_vars PROVE TypeOK'
    OBVIOUS
  <2> USE DEF TypeOK
  <2>a. /\ AbsentRow \in JobRows /\ NewRow \in BudgetRows(MaxAttempts)
        /\ AbsentMedia \in MediaRows /\ NewMedia \in MediaRows
        /\ NoClaim \in Claims /\ NoClaim.job = NoJob
        /\ NoRetry \in [job : JobRows, media : MediaRows]
    <3>1. AbsentRow \in JobRows /\ NewRow \in BudgetRows(MaxAttempts)
      BY MaxAttemptsAssumption
      DEF AbsentRow, NewRow, JobRows, JobStates, Locks, BudgetRows
    <3>2. AbsentMedia \in MediaRows /\ NewMedia \in MediaRows
      BY DEF AbsentMedia, NewMedia, MediaRows, MediaStates
    <3>3. NoClaim \in Claims /\ NoClaim.job = NoJob
      BY DEF NoClaim, Claims
    <3> QED BY <3>1, <3>2, <3>3 DEF NoRetry
  <2>b. \A m \in Media : job[m] \in BudgetRows(MaxAttempts)
    BY MaxAttemptsAssumption DEF BudgetRows, JobRows
  <2>c. \A row \in BudgetRows(MaxAttempts) : row \in JobRows /\ row.attempts \in 0..MaxAttempts
    BY MaxAttemptsAssumption DEF BudgetRows, JobRows
  <2>d. ASSUME NEW w \in Workers, Active(w)
        PROVE  claim[w].job \in Media /\ claim[w] \in Claims
    BY <2>d DEF Claims
  <2>e. /\ \A m \in Media : media[m].state \in MediaStates
        /\ \A w \in Workers : item[w].state \in MediaStates
        /\ \A m \in Media : retry[m].media \in MediaRows /\ retry[m].media.state \in MediaStates
        /\ "pending" \in MediaStates /\ "processing" \in MediaStates
        /\ "failed" \in MediaStates
    BY DEF MediaRows, MediaStates
  <2>1. ASSUME NEW m \in Media, CompleteUpload(m) PROVE TypeOK'
    <3>1. job' \in [Media -> JobRows] /\ \A k \in Media : job'[k].attempts \in 0..MaxAttempts
      BY <2>1, <2>a, <2>c DEF CompleteUpload
    <3>2. media' \in [Media -> MediaRows] /\ original' \subseteq Media
      BY <2>1, <2>a DEF CompleteUpload
    <3> QED BY <2>1, <3>1, <3>2 DEF CompleteUpload, session, Active
  <2>2. ASSUME NEW m \in Media, DeleteMedia(m) PROVE TypeOK'
    BY <2>2 DEF DeleteMedia, MediaRows, blobs, session, Active
  <2>3. ASSUME NEW m \in Media, RetryLoad(m) PROVE TypeOK'
    BY <2>3 DEF RetryLoad, blobs, session, Active
  <2>4. ASSUME NEW m \in Media, RetryCommit(m) PROVE TypeOK'
    <3>1. RequeuedRow(job[m], retry[m].job, TRUE) \in BudgetRows(MaxAttempts)
      BY <2>b, RequeuedRowWrites, MaxAttemptsAssumption
    <3>2. media' \in [Media -> MediaRows]
      BY <2>4, <2>e, StateWrites DEF RetryCommit
    <3> QED BY <2>4, <3>1, <3>2, <2>a, <2>c DEF RetryCommit, blobs, session, Active
  <2>5. ASSUME NEW w \in Workers, NEW m \in Media, Claim(w, m) PROVE TypeOK'
    <3>1. ClaimedRow(job[m]) \in BudgetRows(MaxAttempts)
      BY <2>5, ClaimedRowWrites, MaxAttemptsAssumption DEF Claim
    <3>2. [job |-> m, attempt |-> job[m].attempts + 1, retryable |-> FALSE] \in Claims
      BY DEF Claims, JobRows
    <3> QED BY <2>5, <3>1, <3>2, <2>c, MediaAssumption
            DEF Claim, Goto, blobs, session, Active, PCs, IngestPCs
  <2>6. ASSUME NEW w \in Workers, LoadMedia(w) PROVE TypeOK'
    <3>1. claim[w].job \in Media
      BY <2>6, <2>d DEF LoadMedia, Active
    <3>2. CASE Raise(w, TRUE) /\ UNCHANGED item
      BY <2>6, <3>1, <3>2, RaiseKeeps DEF LoadMedia, blobs, Active
    <3>3. CASE ~Raise(w, TRUE)
      BY <2>6, <3>1, <3>3 DEF LoadMedia, Goto, blobs, Active, PCs, IngestPCs
    <3> QED BY <2>6, <3>2, <3>3 DEF LoadMedia, Raise, Goto
  <2>7. ASSUME NEW w \in Workers, MarkProcessing(w) PROVE TypeOK'
    <3>1. media' \in [Media -> MediaRows]
      BY <2>7, <2>d, <2>e, StateWrites DEF MarkProcessing, Active
    <3>2. item' \in [Workers -> MediaRows]
      <4>1. [item[w] EXCEPT !.state = "processing"] \in MediaRows
        BY DEF MediaRows, MediaStates
      <4> QED BY <2>7, <4>1 DEF MarkProcessing
    <3> QED BY <2>7, <3>1, <3>2 DEF MarkProcessing, Goto, blobs, Active, PCs, IngestPCs
  <2>8. ASSUME NEW w \in Workers, ReadOriginal(w) PROVE TypeOK'
    <3>1. claim[w].job \in Media
      BY <2>8, <2>d DEF ReadOriginal, Active
    <3>2. ASSUME NEW retryable \in BOOLEAN, Raise(w, retryable) PROVE TypeOK'
      BY <2>8, <3>1, <3>2, RaiseKeeps DEF ReadOriginal, blobs, Active
    <3>3. CASE Goto(w, "applying") /\ UNCHANGED <<claim, stored>>
      BY <2>8, <3>1, <3>3 DEF ReadOriginal, Goto, blobs, Active, PCs, IngestPCs
    <3> QED BY <2>8, <3>2, <3>3 DEF ReadOriginal
  <2>9. ASSUME NEW w \in Workers, ApplyMetadata(w) PROVE TypeOK'
    BY <2>9 DEF ApplyMetadata, Goto, blobs, session, Active, PCs, IngestPCs
  <2>10. ASSUME NEW w \in Workers, StoreDerivative(w) PROVE TypeOK'
    <3>1. claim[w].job \in Media
      BY <2>10, <2>d DEF StoreDerivative, Active
    <3>2. PICK d \in Derivatives :
            /\ derived' = [derived EXCEPT ![claim[w].job] = @ \cup {d}]
            /\ stored' = [stored EXCEPT ![w] = @ \cup {d}]
            /\ pc' = [pc EXCEPT ![w] = "discarding"] \/ pc' = pc
      BY <2>10 DEF StoreDerivative, Goto
    <3>3. /\ derived' \in [Media -> SUBSET Derivatives]
          /\ stored' \in [Workers -> SUBSET Derivatives]
      BY <3>1, <3>2
    <3>4. pc' \in [Workers -> PCs] /\ \A v \in Workers : Active(v)' <=> Active(v)
      BY <2>10, <3>2 DEF StoreDerivative, Active, PCs, IngestPCs
    <3> QED BY <2>10, <3>3, <3>4 DEF StoreDerivative, Active
  <2>11. ASSUME NEW w \in Workers, DiscardOriginal(w) PROVE TypeOK'
    BY <2>11 DEF DiscardOriginal, Goto, session, Active, PCs, IngestPCs
  <2>12. ASSUME NEW w \in Workers, CommitIngest(w) PROVE TypeOK'
    <3>1. media' \in [Media -> MediaRows]
      BY <2>12, <2>d, IngestedRowWrites DEF CommitIngest, Active
    <3> QED BY <2>12, <3>1 DEF CommitIngest, Goto, blobs, Active, PCs
  <2>13. ASSUME NEW w \in Workers, CompleteLoad(w) PROVE TypeOK'
    BY <2>13, <2>d DEF CompleteLoad, Goto, blobs, Active, PCs
  <2>14. ASSUME NEW w \in Workers, CompleteCommit(w) PROVE TypeOK'
    <3>1. claim[w].job \in Media
      BY <2>14, <2>d DEF CompleteCommit, Active
    <3>2. /\ CompletedRow(job[claim[w].job], seen[w], FALSE) \in JobRows
          /\ CompletedRow(job[claim[w].job], seen[w], FALSE).attempts
               = job[claim[w].job].attempts
      BY <3>1, CompletedRowWrites
    <3> QED BY <2>14, <3>1, <3>2, <2>a DEF CompleteCommit, Release, Goto, blobs, Active, PCs
  <2>15. ASSUME NEW w \in Workers, FailLoad(w) PROVE TypeOK'
    BY <2>15, <2>d DEF FailLoad, Goto, blobs, Active, PCs
  <2>16. ASSUME NEW w \in Workers, FailCommit(w) PROVE TypeOK'
    <3> DEFINE m == claim[w].job
               final == IsFinalFailure(claim[w].attempt, MaxAttempts, claim[w].retryable)
               new == FailedRow(job[m], seen[w], final)
    <3>1. m \in Media /\ final \in BOOLEAN
      BY <2>16, <2>d DEF FailCommit, Active, IsFinalFailure, Claims
    <3>2. new \in JobRows /\ new.attempts = job[m].attempts
      BY <3>1, FailedRowWrites
    <3>3. media' \in [Media -> MediaRows]
      BY <2>16, <3>1, <2>e, StateWrites DEF FailCommit
    <3>4. job' = [job EXCEPT ![m] = new]
      BY <2>16 DEF FailCommit
    <3> HIDE DEF new
    <3> QED BY <2>16, <3>1, <3>2, <3>3, <3>4, <2>a
            DEF FailCommit, Release, Goto, blobs, Active, PCs
  <2>17. ASSUME NEW w \in Workers, Fault(w) PROVE TypeOK'
    <3>1. Active(w)
      BY <2>17 DEF Fault, Active, IngestPCs
    <3> QED BY <2>17, <3>1, RaiseKeeps DEF Fault, blobs, Active
  <2>18. ASSUME NEW w \in Workers, ThreadDies(w) \/ Crash(w) PROVE TypeOK'
    <3>1. /\ pc' \in [Workers -> PCs] /\ ~Active(w)'
          /\ \A v \in Workers \ {w} : pc'[v] = pc[v]
      BY <2>18 DEF ThreadDies, Crash, Goto, Active, PCs
    <3>2. Release(w) /\ UNCHANGED <<job, media, blobs, retry>>
      BY <2>18 DEF ThreadDies, Crash
    <3> QED BY <3>1, <3>2, <2>a DEF Release, blobs, Active
  <2>19. ASSUME NEW w \in Workers, Restart(w) PROVE TypeOK'
    BY <2>19 DEF Restart, Goto, blobs, session, Active, PCs
  <2>20. ASSUME NEW m \in Media, BecomeDue(m) \/ LockExpires(m) PROVE TypeOK'
    <3> DEFINE due == [job[m] EXCEPT !.due = TRUE]
               expired == [job[m] EXCEPT !.lock = "expired"]
    <3>1. /\ due \in JobRows /\ due.attempts = job[m].attempts
          /\ expired \in JobRows /\ expired.attempts = job[m].attempts
      BY TimeLeavesAttempts
    <3>2. job' = [job EXCEPT ![m] = due] \/ job' = [job EXCEPT ![m] = expired]
      BY <2>20 DEF BecomeDue, LockExpires
    <3>3. UNCHANGED <<media, blobs, pc, claim, session, retry>>
      BY <2>20 DEF BecomeDue, LockExpires
    <3> HIDE DEF due, expired
    <3> QED BY <3>1, <3>2, <3>3 DEF blobs, session, Active
  <2>21. CASE UNCHANGED vars
    BY <2>21 DEF vars, Active
  <2> QED
    BY <2>1, <2>2, <2>3, <2>4, <2>5, <2>6, <2>7, <2>8, <2>9, <2>10, <2>11, <2>12, <2>13,
       <2>14, <2>15, <2>16, <2>17, <2>18, <2>19, <2>20, <2>21
    DEF Next, WorkerStep
<1> QED BY <1>1, <1>2, PTL DEF Spec

-----------------------------------------------------------------------------
(* What the rows promise about the blobs.                                  *)

\* Whatever is queued, claimed or being retried has been uploaded, so that no
\* write makes an absent photo appear without its original.
OnlyUploaded ==
  /\ \A m \in Media : job[m].state # "absent" => media[m].state # "absent"
  /\ \A w \in Workers : Active(w) => media[claim[w].job].state # "absent"
  /\ \A m \in Media : retry[m] # NoRetry => media[m].state # "absent"

\* What a worker has put is in the blob store; once it discards it has put both
\* derivatives, and once it commits the original is gone.
PutBeforeDiscard ==
  /\ \A w \in Workers : ~Active(w) => stored[w] = {}
  /\ \A w \in Workers : Active(w) =>
       /\ stored[w] \subseteq derived[claim[w].job]
       /\ pc[w] \in {"discarding", "committing"} => stored[w] = Derivatives
       /\ pc[w] = "committing" =>
            claim[w].job \notin original \/ item[w].retention = "deleted"

\* The inductive invariant of the ingest.
IngestInv ==
  /\ OnlyUploaded
  /\ PutBeforeDiscard
  /\ ReadyHasDerivatives
  /\ DeletedOriginalIsGone
  /\ OriginalLeavesAfterDerivatives

\* A worker that works on, on the same photo, without new puts and without
\* reaching the deletion of the original.
GoesOn(w) ==
  /\ Active(w) /\ Active(w)'
  /\ claim'[w].job = claim[w].job
  /\ stored'[w] = stored[w]
  /\ \/ pc'[w] = pc[w] /\ item'[w].retention = item[w].retention
     \/ pc'[w] \notin {"discarding", "committing"}

\* A worker that has put nothing, as it begins or has raised.
StartsOver(w) ==
  /\ Active(w)'
  /\ claim'[w].job \in Media /\ media[claim'[w].job].state # "absent"
  /\ stored'[w] = {}
  /\ pc'[w] \notin {"discarding", "committing"}

Stops(w) == ~Active(w)' /\ stored'[w] = {}

WorkersKeep == \A w \in Workers : GoesOn(w) \/ StartsOver(w) \/ Stops(w)

OthersUntouched(w) ==
  \A v \in Workers \ {w} :
    /\ pc'[v] = pc[v] /\ claim'[v].job = claim[v].job
    /\ stored'[v] = stored[v] /\ item'[v] = item[v]

\* No photo appears or becomes READY; its assets and retention are left alone.
MediaKept ==
  \A m \in Media :
    /\ media'[m].state = "absent" <=> media[m].state = "absent"
    /\ media'[m].state = "ready" => media[m].state = "ready"
    /\ media'[m].assets = media[m].assets
    /\ media'[m].retention = media[m].retention

\* Only photos that were uploaded are queued or retried.
RequestsKept ==
  \A m \in Media :
    /\ job'[m].state # "absent" => media[m].state # "absent"
    /\ retry'[m] # NoRetry => media[m].state # "absent"

\* A step that touches no blob and is of these three kinds keeps the invariant.
LEMMA IngestKept ==
  ASSUME TypeOK, IngestInv, UNCHANGED blobs, MediaKept, RequestsKept, WorkersKeep
  PROVE  IngestInv'
<1> USE DEF IngestInv, MediaKept, RequestsKept, WorkersKeep
<1>d. \A w \in Workers : Active(w) => claim[w].job \in Media
  BY DEF TypeOK, Claims
<1>1. OnlyUploaded'
  <2>1. ASSUME NEW w \in Workers, Active(w)' PROVE media'[claim'[w].job].state # "absent"
    BY <2>1, <1>d DEF OnlyUploaded, GoesOn, StartsOver, Stops
  <2> QED BY <2>1 DEF OnlyUploaded
<1>2. PutBeforeDiscard'
  <2>1. ASSUME NEW w \in Workers, ~Active(w)' PROVE stored'[w] = {}
    BY <2>1 DEF GoesOn, StartsOver, Stops
  <2>2. ASSUME NEW w \in Workers, Active(w)'
        PROVE  /\ stored'[w] \subseteq derived'[claim'[w].job]
               /\ pc'[w] \in {"discarding", "committing"} => stored'[w] = Derivatives
               /\ pc'[w] = "committing" =>
                    claim'[w].job \notin original' \/ item'[w].retention = "deleted"
    <3>1. CASE GoesOn(w)
      BY <3>1, <2>2 DEF PutBeforeDiscard, GoesOn, blobs
    <3>2. CASE StartsOver(w)
      BY <3>2, <2>2 DEF StartsOver
    <3> QED BY <3>1, <3>2, <2>2 DEF Stops
  <2> QED BY <2>1, <2>2 DEF PutBeforeDiscard
<1>3. ReadyHasDerivatives' /\ DeletedOriginalIsGone' /\ OriginalLeavesAfterDerivatives'
  BY DEF ReadyHasDerivatives, DeletedOriginalIsGone, OriginalLeavesAfterDerivatives, blobs
<1> QED BY <1>1, <1>2, <1>3

\* Every step of ingest_media, complete_job, fail_job, the retry endpoint and the
\* contributor's deletion keeps the invariant, and so does a worker that is killed
\* or sees an error at any point.
THEOREM BlobsBackRows == Spec => []IngestInv
<1>1. Init => IngestInv
  BY DEF Init, IngestInv, OnlyUploaded, PutBeforeDiscard, ReadyHasDerivatives,
         DeletedOriginalIsGone, OriginalLeavesAfterDerivatives, Active, AbsentRow, AbsentMedia
<1>2. TypeOK /\ IngestInv /\ [Next]_vars => IngestInv'
  <2> SUFFICES ASSUME TypeOK, IngestInv, [Next]_vars PROVE IngestInv'
    OBVIOUS
  <2>d. ASSUME NEW w \in Workers, Active(w)
        PROVE  /\ claim[w].job \in Media
               /\ media[claim[w].job].state # "absent"
               /\ media[claim[w].job] \in MediaRows
               /\ item[w] \in MediaRows
    BY <2>d DEF TypeOK, Claims, IngestInv, OnlyUploaded
  <2>j. job' = job /\ retry' = retry => RequestsKept
    BY DEF IngestInv, OnlyUploaded, RequestsKept
  <2>k. \A m \in Media : /\ job[m].state # "absent" => media[m].state # "absent"
                         /\ retry[m] # NoRetry => media[m].state # "absent"
    BY DEF IngestInv, OnlyUploaded
  <2>m. media' = media => MediaKept
    BY DEF MediaKept
  <2>s. ASSUME UNCHANGED <<pc, claim, session>> PROVE WorkersKeep
    BY <2>s DEF GoesOn, Stops, WorkersKeep, session, Active, IngestInv, PutBeforeDiscard
  <2>t. ASSUME NEW w \in Workers, OthersUntouched(w),
               GoesOn(w) \/ StartsOver(w) \/ Stops(w)
        PROVE  WorkersKeep
    <3>1. ASSUME NEW v \in Workers \ {w} PROVE GoesOn(v) \/ Stops(v)
      BY <2>t DEF OthersUntouched, GoesOn, Stops, Active, IngestInv, PutBeforeDiscard
    <3> QED BY <3>1, <2>t DEF WorkersKeep
  <2>f. /\ job \in [Media -> JobRows] /\ media \in [Media -> MediaRows]
        /\ pc \in [Workers -> PCs] /\ claim \in [Workers -> Claims]
        /\ item \in [Workers -> MediaRows] /\ stored \in [Workers -> SUBSET Derivatives]
        /\ DOMAIN retry = Media
    BY DEF TypeOK
  <2>r. ASSUME NEW w \in Workers, NEW retryable \in BOOLEAN, Active(w),
               Raise(w, retryable), UNCHANGED item
        PROVE  WorkersKeep
    <3>1. /\ pc'[w] = "raised" /\ stored'[w] = {}
          /\ \A v \in Workers :
               /\ claim'[v].job = claim[v].job
               /\ v # w => pc'[v] = pc[v] /\ stored'[v] = stored[v]
      BY <2>r, RaiseKeeps
    <3>2. StartsOver(w)
      BY <2>r, <3>1, <2>d DEF StartsOver, Active
    <3>3. OthersUntouched(w)
      BY <2>r, <3>1 DEF OthersUntouched
    <3> QED BY <3>2, <3>3, <2>t
  <2>g. ASSUME NEW w \in Workers, Active(w), UNCHANGED <<claim, stored, item>>,
               NEW step \in {"applying", "storing", "completing"}, Goto(w, step)
        PROVE  WorkersKeep
    <3>1. pc'[w] = step /\ \A v \in Workers : v # w => pc'[v] = pc[v]
      BY <2>g, <2>f DEF Goto
    <3>2. GoesOn(w)
      BY <2>g, <3>1 DEF GoesOn, Active
    <3>3. OthersUntouched(w)
      BY <2>g, <3>1 DEF OthersUntouched
    <3> QED BY <3>2, <3>3, <2>t
  <2>o. ASSUME NEW w \in Workers, Release(w),
               NEW step \in {"idle", "dead", "down"}, Goto(w, step)
        PROVE  WorkersKeep
    <3>1. pc'[w] = step /\ \A v \in Workers : v # w => pc'[v] = pc[v]
      BY <2>o, <2>f DEF Goto
    <3>2. /\ stored'[w] = {}
          /\ \A v \in Workers : v # w =>
               /\ stored'[v] = stored[v] /\ item'[v] = item[v]
               /\ claim'[v] = claim[v]
      BY <2>o, <2>f DEF Release
    <3>3. Stops(w) /\ OthersUntouched(w)
      BY <3>1, <3>2 DEF Stops, Active, OthersUntouched
    <3> QED BY <3>3, <2>t
  <2>1. ASSUME NEW m \in Media, CompleteUpload(m) PROVE IngestInv'
    <3>1. /\ media' = [media EXCEPT ![m] = NewMedia] /\ media[m].state = "absent"
          /\ job' = [job EXCEPT ![m] = NewRow]
          /\ original' = original \cup {m}
          /\ UNCHANGED <<derived, pc, claim, session, retry>>
      BY <2>1 DEF CompleteUpload
    <3>2. \A w \in Workers : Active(w) => claim[w].job # m
      BY <3>1, <2>d
    <3>3. OnlyUploaded'
      BY <3>1, <3>2, <2>d, <2>k DEF OnlyUploaded, NewMedia, AbsentMedia, Active, TypeOK
    <3>4. PutBeforeDiscard'
      BY <3>1, <3>2 DEF IngestInv, PutBeforeDiscard, Active, session
    <3>5. ReadyHasDerivatives' /\ DeletedOriginalIsGone' /\ OriginalLeavesAfterDerivatives'
      BY <3>1 DEF IngestInv, ReadyHasDerivatives, DeletedOriginalIsGone,
                  OriginalLeavesAfterDerivatives, NewMedia, AbsentMedia, TypeOK
    <3> QED BY <3>3, <3>4, <3>5 DEF IngestInv
  <2>2. ASSUME NEW m \in Media, DeleteMedia(m) PROVE IngestInv'
    <3>1. MediaKept
      BY <2>2, <2>f DEF DeleteMedia, MediaKept, MediaRows
    <3> QED BY <2>2, <3>1, <2>j, <2>s, IngestKept DEF DeleteMedia
  <2>3. ASSUME NEW m \in Media, RetryLoad(m) PROVE IngestInv'
    <3>1. /\ media[m].state # "absent"
          /\ job' = job /\ \A k \in Media : k # m => retry'[k] = retry[k]
      BY <2>3, <2>f DEF RetryLoad
    <3>2. RequestsKept
      BY <3>1, <2>k DEF RequestsKept
    <3> QED BY <2>3, <3>2, <2>m, <2>s, IngestKept DEF RetryLoad
  <2>4. ASSUME NEW m \in Media, RetryCommit(m) PROVE IngestInv'
    <3> DEFINE new == [media[m] EXCEPT !.state = Written("pending", retry[m].media.state, @)]
    <3>1. media[m].state # "absent"
      BY <2>4, <2>k DEF RetryCommit
    <3>2. /\ new.state \in {"pending", media[m].state}
          /\ new.retention = media[m].retention /\ new.assets = media[m].assets
      BY <2>f DEF Written, MediaRows
    <3>3. media' = [media EXCEPT ![m] = new]
      BY <2>4 DEF RetryCommit
    <3> HIDE DEF new
    <3>4. MediaKept
      BY <3>1, <3>2, <3>3, <2>f DEF MediaKept
    <3>5. \A k \in Media : k # m => job'[k] = job[k] /\ retry'[k] = retry[k]
      BY <2>4, <2>f DEF RetryCommit
    <3>6. RequestsKept
      BY <3>1, <3>5, <2>k DEF RequestsKept
    <3> QED BY <2>4, <3>4, <3>6, <2>s, IngestKept DEF RetryCommit
  <2>5. ASSUME NEW w \in Workers, NEW m \in Media, Claim(w, m) PROVE IngestInv'
    <3>1. job[m].state # "absent"
      BY <2>5 DEF Claim, Eligible
    <3>2. media[m].state # "absent"
      BY <3>1, <2>k
    <3>3. /\ \A k \in Media : k # m => job'[k] = job[k]
          /\ retry' = retry
      BY <2>5, <2>f DEF Claim
    <3>4. RequestsKept
      BY <3>2, <3>3, <2>k DEF RequestsKept
    <3>5. /\ pc[w] = "idle" /\ pc'[w] = "loading"
          /\ claim'[w].job = m /\ stored'[w] = stored[w]
      BY <2>5, <2>f DEF Claim, Goto, session
    <3>6. StartsOver(w)
      BY <3>2, <3>5 DEF StartsOver, Active, IngestInv, PutBeforeDiscard
    <3>7. OthersUntouched(w)
      BY <2>5, <2>f DEF Claim, Goto, session, OthersUntouched
    <3>8. WorkersKeep
      BY <3>6, <3>7, <2>t
    <3> QED BY <2>5, <3>4, <3>8, <2>m, IngestKept DEF Claim
  <2>6. ASSUME NEW w \in Workers, LoadMedia(w) PROVE IngestInv'
    <3>a. /\ Active(w) /\ UNCHANGED <<job, media, blobs, seen, retry>>
      BY <2>6 DEF LoadMedia, Active
    <3>1. CASE Raise(w, TRUE) /\ UNCHANGED item
      BY <3>1, <3>a, <2>r, <2>m, <2>j, IngestKept
    <3>2. CASE /\ \/ Goto(w, "ingested") /\ UNCHANGED item
                  \/ /\ Goto(w, "marking")
                     /\ item' = [item EXCEPT ![w] = media[claim[w].job]]
               /\ UNCHANGED <<claim, stored>>
      <4>1. pc'[w] \in {"ingested", "marking"}
        BY <3>2, <2>f DEF Goto
      <4>2. GoesOn(w)
        BY <3>2, <3>a, <4>1 DEF GoesOn, Active
      <4>3. OthersUntouched(w)
        BY <3>2, <2>f DEF Goto, OthersUntouched
      <4>4. WorkersKeep
        BY <4>2, <4>3, <2>t
      <4> QED BY <4>4, <3>a, <2>m, <2>j, IngestKept
    <3> QED BY <2>6, <3>1, <3>2 DEF LoadMedia
  <2>7. ASSUME NEW w \in Workers, MarkProcessing(w) PROVE IngestInv'
    <3> DEFINE m == claim[w].job
               new == [media[m] EXCEPT !.state = Written("processing", item[w].state, @)]
    <3>1. Active(w) /\ m \in Media /\ media[m].state # "absent"
      BY <2>7, <2>d DEF MarkProcessing, Active
    <3>2. /\ new.state \in {"processing", media[m].state}
          /\ new.retention = media[m].retention /\ new.assets = media[m].assets
      BY <3>1, <2>f DEF Written, MediaRows
    <3>3. media' = [media EXCEPT ![m] = new]
      BY <2>7 DEF MarkProcessing
    <3> HIDE DEF new
    <3>4. MediaKept
      BY <3>1, <3>2, <3>3, <2>f DEF MediaKept
    <3>5. pc'[w] = "reading" /\ UNCHANGED <<claim, stored>>
      BY <2>7, <2>f DEF MarkProcessing, Goto
    <3>6. GoesOn(w)
      BY <3>1, <3>5 DEF GoesOn, Active
    <3>7. OthersUntouched(w)
      BY <2>7, <2>f DEF MarkProcessing, Goto, OthersUntouched
    <3>8. WorkersKeep
      BY <3>6, <3>7, <2>t
    <3> QED BY <2>7, <3>4, <3>8, <2>j, IngestKept DEF MarkProcessing
  <2>8. ASSUME NEW w \in Workers, ReadOriginal(w) PROVE IngestInv'
    <3>a. Active(w) /\ UNCHANGED <<job, media, blobs, seen, item, retry>>
      BY <2>8 DEF ReadOriginal, Active
    <3>1. CASE Raise(w, TRUE) \/ Raise(w, FALSE)
      BY <3>1, <3>a, <2>r, <2>m, <2>j, IngestKept
    <3>2. CASE Goto(w, "applying") /\ UNCHANGED <<claim, stored>>
      BY <3>2, <3>a, <2>g, <2>m, <2>j, IngestKept
    <3> QED BY <2>8, <3>1, <3>2 DEF ReadOriginal
  <2>9. ASSUME NEW w \in Workers, ApplyMetadata(w) PROVE IngestInv'
    <3>1. /\ Active(w) /\ Goto(w, "storing")
          /\ UNCHANGED <<job, media, blobs, claim, stored, item, retry>>
      BY <2>9 DEF ApplyMetadata, Active, session
    <3> QED BY <3>1, <2>g, <2>m, <2>j, IngestKept
  <2>10. ASSUME NEW w \in Workers, StoreDerivative(w) PROVE IngestInv'
    <3>1. Active(w) /\ claim[w].job \in Media
      BY <2>10, <2>d DEF StoreDerivative, Active
    <3>2. PICK d \in Derivatives :
            /\ derived' = [derived EXCEPT ![claim[w].job] = @ \cup {d}]
            /\ stored' = [stored EXCEPT ![w] = @ \cup {d}]
            /\ IF stored'[w] = Derivatives THEN Goto(w, "discarding") ELSE UNCHANGED pc
      BY <2>10 DEF StoreDerivative
    <3>3. /\ pc[w] = "storing"
          /\ UNCHANGED <<job, media, original, claim, seen, item, retry>>
      BY <2>10 DEF StoreDerivative
    <3>4. \A m \in Media : derived[m] \subseteq derived'[m] /\ derived'[m] \subseteq Derivatives
      BY <3>1, <3>2 DEF TypeOK
    <3>5. \A v \in Workers : Active(v)' <=> Active(v)
      BY <3>1, <3>2, <3>3 DEF Goto, Active, TypeOK
    <3>6. /\ stored'[w] \subseteq derived'[claim[w].job]
          /\ \/ pc'[w] = "discarding" /\ stored'[w] = Derivatives
             \/ pc'[w] = "storing"
      BY <3>1, <3>2, <3>3 DEF Goto, TypeOK, IngestInv, PutBeforeDiscard
    <3>7. \A v \in Workers \ {w} : stored'[v] = stored[v] /\ pc'[v] = pc[v]
      BY <3>2 DEF Goto, TypeOK
    <3>8. PutBeforeDiscard'
      <4>1. ASSUME NEW v \in Workers, Active(v)'
            PROVE  /\ stored'[v] \subseteq derived'[claim'[v].job]
                   /\ pc'[v] \in {"discarding", "committing"} => stored'[v] = Derivatives
                   /\ pc'[v] = "committing" =>
                        claim'[v].job \notin original' \/ item'[v].retention = "deleted"
        <5>1. CASE v = w
          BY <5>1, <3>3, <3>6
        <5>2. CASE v # w
          BY <5>2, <4>1, <3>3, <3>4, <3>5, <3>7, <2>d DEF IngestInv, PutBeforeDiscard
        <5> QED BY <5>1, <5>2
      <4>2. ASSUME NEW v \in Workers, ~Active(v)' PROVE stored'[v] = {}
        BY <4>2, <3>1, <3>5, <3>7 DEF IngestInv, PutBeforeDiscard
      <4> QED BY <4>1, <4>2 DEF PutBeforeDiscard
    <3>9. OnlyUploaded'
      BY <3>3, <3>5 DEF IngestInv, OnlyUploaded
    <3>10. ReadyHasDerivatives' /\ DeletedOriginalIsGone' /\ OriginalLeavesAfterDerivatives'
      BY <3>3, <3>4 DEF IngestInv, ReadyHasDerivatives, DeletedOriginalIsGone,
                        OriginalLeavesAfterDerivatives
    <3> QED BY <3>8, <3>9, <3>10 DEF IngestInv
  <2>11. ASSUME NEW w \in Workers, DiscardOriginal(w) PROVE IngestInv'
    <3>1. /\ Active(w) /\ claim[w].job \in Media
          /\ item[w].retention \in {"temporary", "deleted"}
      BY <2>11, <2>d DEF DiscardOriginal, Active, MediaRows
    <3>2. /\ original' = IF item[w].retention = "temporary"
                         THEN original \ {claim[w].job} ELSE original
          /\ pc[w] = "discarding" /\ pc' = [pc EXCEPT ![w] = "committing"]
          /\ UNCHANGED <<job, media, derived, claim, session, retry>>
      BY <2>11 DEF DiscardOriginal, Goto
    <3>3. derived[claim[w].job] = Derivatives
      <4>1. stored[w] = Derivatives /\ stored[w] \subseteq derived[claim[w].job]
        BY <3>1, <3>2 DEF IngestInv, PutBeforeDiscard
      <4>2. derived[claim[w].job] \subseteq Derivatives
        BY <3>1 DEF TypeOK
      <4> QED BY <4>1, <4>2
    <3>4. \A v \in Workers : /\ Active(v)' <=> Active(v)
                             /\ v # w => pc'[v] = pc[v]
      BY <3>2 DEF Active, TypeOK
    <3>5. pc'[w] = "committing"
      BY <3>2 DEF TypeOK
    <3>6. PutBeforeDiscard'
      BY <3>1, <3>2, <3>4, <3>5 DEF IngestInv, PutBeforeDiscard, session
    <3>7. OnlyUploaded'
      BY <3>2, <3>4 DEF IngestInv, OnlyUploaded
    <3>8. ReadyHasDerivatives' /\ DeletedOriginalIsGone' /\ OriginalLeavesAfterDerivatives'
      BY <3>2, <3>3 DEF IngestInv, ReadyHasDerivatives, DeletedOriginalIsGone,
                        OriginalLeavesAfterDerivatives
    <3> QED BY <3>6, <3>7, <3>8 DEF IngestInv
  <2>12. ASSUME NEW w \in Workers, CommitIngest(w) PROVE IngestInv'
    <3> DEFINE m == claim[w].job
               new == [media[m] EXCEPT !.state = Written("ready", item[w].state, @),
                                       !.retention = Written("deleted", item[w].retention, @),
                                       !.assets = TRUE]
    <3>1. /\ Active(w) /\ m \in Media /\ media[m].state # "absent"
          /\ media[m] \in MediaRows /\ item[w] \in MediaRows
      BY <2>12, <2>d DEF CommitIngest, Active
    <3>2. /\ media' = [media EXCEPT ![m] = new]
          /\ pc[w] = "committing" /\ pc' = [pc EXCEPT ![w] = "ingested"]
          /\ stored' = [stored EXCEPT ![w] = {}]
          /\ UNCHANGED <<job, blobs, claim, seen, item, retry>>
      BY <2>12 DEF CommitIngest, Goto
    <3>3. /\ new.state \in {"ready", media[m].state}
          /\ new.retention = IF item[w].retention = "deleted"
                             THEN media[m].retention ELSE "deleted"
      BY <3>1, IngestedRowWrites
    <3> HIDE DEF new
    <3>4. derived[m] = Derivatives /\ (m \notin original \/ item[w].retention = "deleted")
      <4>1. /\ stored[w] = Derivatives /\ stored[w] \subseteq derived[m]
            /\ m \notin original \/ item[w].retention = "deleted"
        BY <3>1, <3>2 DEF IngestInv, PutBeforeDiscard
      <4>2. derived[m] \subseteq Derivatives
        BY <3>1 DEF TypeOK
      <4> QED BY <4>1, <4>2
    <3>5. \A k \in Media : media'[k] = IF k = m THEN new ELSE media[k]
      BY <3>2 DEF TypeOK
    <3>6. \A v \in Workers : /\ Active(v)' <=> Active(v)
                             /\ v # w => pc'[v] = pc[v] /\ stored'[v] = stored[v]
      BY <3>2 DEF Active, TypeOK
    <3>7. pc'[w] = "ingested" /\ stored'[w] = {}
      BY <3>2 DEF TypeOK
    <3>8. OnlyUploaded'
      BY <3>1, <3>2, <3>3, <3>5, <3>6, <2>d, <2>k DEF OnlyUploaded
    <3>9. PutBeforeDiscard'
      BY <3>2, <3>6, <3>7 DEF IngestInv, PutBeforeDiscard, blobs
    <3>10. ReadyHasDerivatives' /\ DeletedOriginalIsGone' /\ OriginalLeavesAfterDerivatives'
      BY <3>1, <3>2, <3>3, <3>4, <3>5
      DEF IngestInv, ReadyHasDerivatives, DeletedOriginalIsGone,
          OriginalLeavesAfterDerivatives, blobs
    <3> QED BY <3>8, <3>9, <3>10 DEF IngestInv
  <2>13. ASSUME NEW w \in Workers, CompleteLoad(w) PROVE IngestInv'
    <3>1. /\ Active(w) /\ Goto(w, "completing")
          /\ UNCHANGED <<job, media, blobs, claim, stored, item, retry>>
      BY <2>13 DEF CompleteLoad, Active
    <3> QED BY <3>1, <2>g, <2>m, <2>j, IngestKept
  <2>14. ASSUME NEW w \in Workers, CompleteCommit(w) PROVE IngestInv'
    <3>1. /\ Active(w) /\ Goto(w, "idle") /\ Release(w)
          /\ UNCHANGED <<media, blobs, retry>>
      BY <2>14 DEF CompleteCommit, Active
    <3>2. \A k \in Media : k # claim[w].job => job'[k] = job[k]
      BY <2>14, <2>f DEF CompleteCommit
    <3>3. RequestsKept
      BY <3>1, <3>2, <2>d, <2>k DEF RequestsKept
    <3>4. WorkersKeep
      BY <3>1, <2>o
    <3> QED BY <3>1, <3>3, <3>4, <2>m, IngestKept
  <2>15. ASSUME NEW w \in Workers, FailLoad(w) PROVE IngestInv'
    <3>1. /\ Active(w) /\ pc'[w] = "failing"
          /\ UNCHANGED <<job, media, blobs, claim, stored, retry>>
      BY <2>15, <2>f DEF FailLoad, Goto, Active
    <3>2. GoesOn(w)
      BY <3>1 DEF GoesOn, Active
    <3>3. OthersUntouched(w)
      BY <2>15, <2>f DEF FailLoad, Goto, OthersUntouched
    <3>4. WorkersKeep
      BY <3>2, <3>3, <2>t
    <3> QED BY <3>1, <3>4, <2>m, <2>j, IngestKept
  <2>16. ASSUME NEW w \in Workers, FailCommit(w) PROVE IngestInv'
    <3> DEFINE m == claim[w].job
               new == [media[m] EXCEPT !.state = Written("failed", item[w].state, @)]
    <3>1. /\ Active(w) /\ Goto(w, "idle") /\ Release(w)
          /\ UNCHANGED <<blobs, retry>>
      BY <2>16 DEF FailCommit, Active
    <3>2. m \in Media /\ media[m].state # "absent"
      BY <3>1, <2>d
    <3>3. /\ new.state \in {"failed", media[m].state}
          /\ new.retention = media[m].retention /\ new.assets = media[m].assets
      BY <3>2, <2>f DEF Written, MediaRows
    <3>4. media' = [media EXCEPT ![m] = new] \/ media' = media
      BY <2>16 DEF FailCommit
    <3> HIDE DEF new
    <3>5. MediaKept
      BY <3>2, <3>3, <3>4, <2>f DEF MediaKept
    <3>6. \A k \in Media : k # m => job'[k] = job[k]
      BY <2>16, <2>f DEF FailCommit
    <3>7. RequestsKept
      BY <3>1, <3>2, <3>6, <2>k DEF RequestsKept
    <3>8. WorkersKeep
      BY <3>1, <2>o
    <3> QED BY <3>1, <3>5, <3>7, <3>8, IngestKept
  <2>17. ASSUME NEW w \in Workers, Fault(w) PROVE IngestInv'
    <3>1. /\ Active(w) /\ Raise(w, TRUE)
          /\ UNCHANGED <<job, media, blobs, item, retry>>
      BY <2>17 DEF Fault, Active, IngestPCs
    <3> QED BY <3>1, <2>r, <2>j, <2>m, IngestKept
  <2>18. ASSUME NEW w \in Workers, ThreadDies(w) \/ Crash(w) PROVE IngestInv'
    <3>1. /\ Release(w) /\ UNCHANGED <<job, media, blobs, retry>>
          /\ Goto(w, "dead") \/ Goto(w, "down")
      BY <2>18 DEF ThreadDies, Crash
    <3>2. WorkersKeep
      BY <3>1, <2>o
    <3> QED BY <3>1, <3>2, <2>j, <2>m, IngestKept
  <2>19. ASSUME NEW w \in Workers, Restart(w) PROVE IngestInv'
    <3>1. /\ pc[w] = "down" /\ Goto(w, "idle")
          /\ UNCHANGED <<job, media, blobs, claim, stored, item, retry>>
      BY <2>19 DEF Restart, session
    <3>2. Stops(w)
      BY <3>1, <2>f DEF Goto, Stops, Active, IngestInv, PutBeforeDiscard
    <3>3. OthersUntouched(w)
      BY <3>1, <2>f DEF Goto, OthersUntouched
    <3>4. WorkersKeep
      BY <3>2, <3>3, <2>t
    <3> QED BY <3>1, <3>4, <2>j, <2>m, IngestKept
  <2>20. ASSUME NEW m \in Media, BecomeDue(m) \/ LockExpires(m) PROVE IngestInv'
    <3>1. job[m].state # "absent" \/ job'[m].state = job[m].state
      BY <2>20, <2>f, TimeLeavesAttempts DEF BecomeDue, LockExpires
    <3>2. /\ \A k \in Media : k # m => job'[k] = job[k]
          /\ UNCHANGED <<media, blobs, pc, claim, session, retry>>
      BY <2>20, <2>f DEF BecomeDue, LockExpires
    <3>3. RequestsKept
      BY <3>1, <3>2, <2>k DEF RequestsKept
    <3> QED BY <3>2, <3>3, <2>m, <2>s, IngestKept
  <2>21. CASE UNCHANGED vars
    BY <2>21, <2>j, <2>m, <2>s, IngestKept DEF vars, blobs, session
  <2> QED
    BY <2>1, <2>2, <2>3, <2>4, <2>5, <2>6, <2>7, <2>8, <2>9, <2>10, <2>11, <2>12, <2>13,
       <2>14, <2>15, <2>16, <2>17, <2>18, <2>19, <2>20, <2>21
    DEF Next, WorkerStep
<1> QED BY <1>1, <1>2, TypeCorrect, PTL DEF Spec

\* A photo that is READY, or has its assets recorded, has both derivatives: the
\* last commit of ingest_media follows both puts.
THEOREM ReadyIsBacked == Spec => []ReadyHasDerivatives
<1>1. IngestInv => ReadyHasDerivatives
  BY DEF IngestInv
<1> QED BY <1>1, BlobsBackRows, PTL

\* A photo whose original is recorded as deleted has none: the commit follows the
\* delete of discard_temporary_original.
THEOREM DeletedMeansGone == Spec => []DeletedOriginalIsGone
<1>1. IngestInv => DeletedOriginalIsGone
  BY DEF IngestInv
<1> QED BY <1>1, BlobsBackRows, PTL

\* No photo loses its original before both derivatives are in the store, whether
\* or not the worker that deletes it reaches its commit.
THEOREM NoPhotoIsLost == Spec => []OriginalLeavesAfterDerivatives
<1>1. IngestInv => OriginalLeavesAfterDerivatives
  BY DEF IngestInv
<1> QED BY <1>1, BlobsBackRows, PTL

-----------------------------------------------------------------------------
(* Outcomes, when no handler outlives its lock, users retry nothing and no *)
(* worker fails between the deletion of an original and its commit.        *)

Undisturbed == LockOutlivesHandlers /\ ~UserRetries /\ "committing" \notin FaultPoints

\* The photo can still be ingested.
Waiting(m) ==
  media[m].state \in {"pending", "processing"} /\ media[m].retention = "temporary" /\ m \in original

\* The photo is ingested, whether its job says so yet or not.
Done(m) == media[m].state = "ready" /\ media[m].assets /\ m \notin original

\* One worker at a time has a job in its hands.
Alone ==
  \A v, w \in Workers : Active(v) /\ Active(w) /\ claim[v].job = claim[w].job => v = w

\* What is known of the row of that job, and of what the worker has loaded of it.
HoldsRow(w) ==
  LET row == job[claim[w].job]
  IN  /\ row.state = "running" /\ row.lock = "held" /\ row.attempts = claim[w].attempt
      /\ pc[w] \in {"completing", "failing"} => seen[w].state = "running" /\ seen[w].lock = "held"

\* What is known of its photo: the original is gone before the commit says so.
HoldsPhoto(w) ==
  LET m == claim[w].job
  IN  /\ pc[w] \in IngestPCs \ {"loading", "committing"} => Waiting(m)
      /\ pc[w] \in {"loading", "raised", "failing"} => Waiting(m) \/ Done(m)
      /\ pc[w] = "committing" => m \notin original
      /\ pc[w] \in {"ingested", "completing"} => Done(m)
      /\ pc[w] \in IngestPCs \ {"loading", "marking"} => media[m].state = "processing"
      /\ pc[w] \in IngestPCs \ {"loading"} =>
           item[w].state = media[m].state /\ item[w].retention = "temporary"
      /\ pc[w] = "failing" => item[w].state = media[m].state
      /\ pc[w] \in {"raised", "failing"} /\ ~claim[w].retryable => m \in Invalid

\* What the row of a job says of its photo.
JobTells(m) ==
  /\ job[m].state = "absent" <=> media[m].state = "absent"
  /\ job[m].state = "running" <=> job[m].lock # "null"
  /\ job[m].state = "pending" \/ (job[m].state = "running" /\ Owners(m) = {}) => Waiting(m) \/ Done(m)
  /\ job[m].state = "succeeded" => media[m].state = "ready" /\ m \notin original
  /\ job[m].state = "failed" =>
       media[m].state = "failed" /\ (m \in Invalid \/ job[m].attempts = MaxAttempts)
  /\ media[m].state = "failed" => job[m].state = "failed"

SettlingInv ==
  /\ \A m \in Media : retry[m] = NoRetry /\ JobTells(m)
  /\ Alone
  /\ \A w \in Workers : Active(w) => HoldsRow(w) /\ HoldsPhoto(w)

SessionsKept(v) ==
  pc'[v] = pc[v] /\ claim'[v] = claim[v] /\ seen'[v] = seen[v] /\ item'[v] = item[v]

\* A step of a worker concerns one photo, which no other worker has in its hands.
LEMMA OnePhotoAtATime ==
  ASSUME TypeOK, SettlingInv, NEW w \in Workers, NEW m \in Media,
         \A v \in Workers \ {w} : SessionsKept(v) /\ (Active(v) => claim[v].job # m),
         \A n \in Media \ {m} : job'[n] = job[n] /\ media'[n] = media[n] /\ (n \in original' <=> n \in original),
         Active(w) => claim[w].job = m, Active(w)' => claim'[w].job = m,
         UNCHANGED retry, JobTells(m)', Active(w)' => HoldsRow(w)' /\ HoldsPhoto(w)'
  PROVE  SettlingInv'
<1>1. \A v \in Workers \ {w} : Active(v)' <=> Active(v)
  BY DEF SessionsKept, Active
<1>2. ASSUME NEW v \in Workers \ {w}, Active(v)'
      PROVE  claim'[v].job # m /\ HoldsRow(v)' /\ HoldsPhoto(v)'
  <2>1. SessionsKept(v) /\ Active(v) /\ claim[v].job \in Media \ {m}
    BY <1>1, <1>2 DEF TypeOK, Claims
  <2>2. HoldsRow(v) /\ HoldsPhoto(v)
    BY <2>1 DEF SettlingInv
  <2> QED BY <2>1, <2>2 DEF SessionsKept, HoldsRow, HoldsPhoto, Waiting, Done
<1>3. Alone'
  <2>1. ASSUME NEW u \in Workers, NEW v \in Workers, Active(u)', Active(v)', claim'[u].job = claim'[v].job
        PROVE  u = v
    <3>1. CASE u = w \/ v = w
      BY <2>1, <3>1, <1>2
    <3>2. CASE u # w /\ v # w
      BY <2>1, <3>2, <1>1 DEF SessionsKept, SettlingInv, Alone
    <3> QED BY <3>1, <3>2
  <2> QED BY <2>1 DEF Alone
<1>4. ASSUME NEW n \in Media \ {m} PROVE JobTells(n)'
  <2>1. Owners(n)' = Owners(n)
    <3>1. \A v \in Workers : v \in Owners(n)' <=> v \in Owners(n)
      BY <1>1 DEF Owners, SessionsKept
    <3> QED BY <3>1 DEF Owners
  <2> QED BY <1>4, <2>1 DEF SettlingInv, JobTells, Waiting, Done
<1> QED BY <1>2, <1>3, <1>4 DEF SettlingInv

\* Time and the deletion of a photo by its contributor leave all this alone.
LEMMA NothingOfNote ==
  ASSUME TypeOK, SettlingInv, UNCHANGED <<pc, claim, seen, item, original, retry>>,
         \A m \in Media :
           /\ media'[m].state = media[m].state /\ media'[m].retention = media[m].retention
           /\ media'[m].assets = media[m].assets
           /\ job'[m].state = job[m].state /\ job'[m].attempts = job[m].attempts
           /\ \/ job'[m].lock = job[m].lock
              \/ Owners(m) = {} /\ job[m].lock # "null" /\ job'[m].lock # "null"
  PROVE  SettlingInv'
<1>1. ASSUME NEW m \in Media PROVE JobTells(m)' /\ retry'[m] = NoRetry
  <2>1. Owners(m)' = Owners(m)
    BY DEF Owners, Active
  <2> QED BY <2>1 DEF SettlingInv, JobTells, Waiting, Done
<1>2. ASSUME NEW w \in Workers, Active(w)' PROVE HoldsRow(w)' /\ HoldsPhoto(w)'
  <2>1. Active(w) /\ claim[w].job \in Media /\ w \in Owners(claim[w].job)
    BY <1>2 DEF Active, TypeOK, Claims, Owners
  <2>2. HoldsRow(w) /\ HoldsPhoto(w)
    BY <2>1 DEF SettlingInv
  <2> QED BY <2>1, <2>2 DEF HoldsRow, HoldsPhoto, Waiting, Done
<1>3. Alone'
  BY DEF SettlingInv, Alone, Active
<1> QED BY <1>1, <1>2, <1>3 DEF SettlingInv

\* What a worker at some step holds, with its types.
LEMMA InHands ==
  ASSUME TypeOK, SettlingInv, NEW w \in Workers, Active(w)
  PROVE  LET m == claim[w].job
         IN  /\ m \in Media /\ claim[w] \in Claims /\ item[w] \in MediaRows
             /\ seen[w] \in JobRows /\ job[m] \in JobRows /\ media[m] \in MediaRows
             /\ \A v \in Workers \ {w} : Active(v) => claim[v].job # m
             /\ JobTells(m) /\ HoldsRow(w) /\ HoldsPhoto(w)
BY DEF TypeOK, SettlingInv, Claims, Alone

\* A worker that goes on with the job it has, or has done with it.
LEMMA WorkerGoesOn ==
  ASSUME TypeOK, SettlingInv, NEW w \in Workers, Active(w), NEW m \in Media, claim[w].job = m,
         \A v \in Workers \ {w} : SessionsKept(v),
         \A n \in Media \ {m} : job'[n] = job[n] /\ media'[n] = media[n] /\ (n \in original' <=> n \in original),
         Active(w)' => claim'[w].job = m,
         UNCHANGED retry, JobTells(m)', Active(w)' => HoldsRow(w)' /\ HoldsPhoto(w)'
  PROVE  SettlingInv'
BY InHands, OnePhotoAtATime

\* A worker that leaves the rows alone keeps what it knows of the job's row.
LEMMA OnlyReads ==
  ASSUME TypeOK, SettlingInv, NEW w \in Workers, Active(w), NEW m \in Media, claim[w].job = m,
         \A v \in Workers \ {w} : SessionsKept(v), UNCHANGED <<job, media, retry>>,
         original' \subseteq original, original \ original' \subseteq {m},
         Active(w)', claim'[w].job = m, claim'[w].attempt = claim[w].attempt,
         pc'[w] \in {"completing", "failing"} => seen'[w] = job[m], HoldsPhoto(w)'
  PROVE  SettlingInv'
<1>1. HoldsRow(w) /\ JobTells(m)
  BY InHands
<1>2. HoldsRow(w)'
  BY <1>1 DEF HoldsRow
<1>3. job[m].state = "running" /\ w \in Owners(m)'
  BY <1>1 DEF HoldsRow, Owners
<1>4. JobTells(m)'
  BY <1>1, <1>3 DEF JobTells
<1> QED BY <1>2, <1>4, WorkerGoesOn

\* A worker that raises before the original is gone, or after the commit.
LEMMA RaiseKeepsJob ==
  ASSUME TypeOK, SettlingInv, NEW w \in Workers, Active(w), pc[w] # "committing",
         NEW retryable \in BOOLEAN, Raise(w, retryable), retryable \/ claim[w].job \in Invalid,
         UNCHANGED <<job, media, original, seen, item, retry>>
  PROVE  SettlingInv'
<1> DEFINE m == claim[w].job
<1>1. m \in Media /\ claim[w] \in Claims /\ HoldsPhoto(w)
  BY InHands
<1>2. /\ pc'[w] = "raised" /\ claim'[w].job = m /\ claim'[w].attempt = claim[w].attempt
      /\ claim'[w].retryable = retryable
      /\ \A v \in Workers \ {w} : SessionsKept(v)
  BY <1>1 DEF Raise, Goto, TypeOK, SessionsKept, Claims
<1>3. Active(w)'
  BY <1>2 DEF Active
<1>4. HoldsPhoto(w)'
  BY <1>1, <1>2, <1>3 DEF HoldsPhoto, Waiting, Done, IngestPCs, Active, TypeOK, PCs
<1> QED BY <1>1, <1>2, <1>3, <1>4, OnlyReads

\* A worker that has done with its job, whatever it leaves.
LEMMA ReleaseFrees ==
  ASSUME TypeOK, NEW w \in Workers, Release(w), NEW step \in {"idle", "dead", "down"}, Goto(w, step)
  PROVE  ~Active(w)' /\ \A v \in Workers \ {w} : SessionsKept(v)
BY DEF Release, Goto, TypeOK, Active, SessionsKept

\* A job that waits or was left by its worker can still be done, or is.
LEMMA WaitingTells ==
  ASSUME TypeOK, NEW m \in Media, Waiting(m)' \/ Done(m)',
         job'[m].state \in {"pending", "running"}, job'[m].state = "running" <=> job'[m].lock # "null"
  PROVE  JobTells(m)'
BY DEF JobTells, Waiting, Done

\* A deleted photo raises at once, a READY one is left as it is, and another goes on
\* to be marked.
LEMMA LoadMediaSettles ==
  ASSUME TypeOK, SettlingInv, NEW w \in Workers, LoadMedia(w)
  PROVE  SettlingInv'
<1> DEFINE m == claim[w].job
<1>0. pc[w] = "loading" /\ Active(w)
  BY DEF LoadMedia, Active
<1>1. m \in Media /\ claim[w] \in Claims /\ HoldsPhoto(w) /\ (Waiting(m) \/ Done(m))
  BY <1>0, InHands DEF HoldsPhoto
<1>2. CASE media[m].deleted
  <2>1. Raise(w, TRUE) /\ UNCHANGED <<job, media, original, seen, item, retry>>
    BY <1>2 DEF LoadMedia, blobs
  <2> QED BY <1>0, <2>1, RaiseKeepsJob
<1>3. CASE ~media[m].deleted
  <2> DEFINE done == media[m].state = "ready" /\ media[m].assets
  <2>1. /\ IF done THEN Goto(w, "ingested") /\ UNCHANGED item
                   ELSE Goto(w, "marking") /\ item' = [item EXCEPT ![w] = media[m]]
        /\ UNCHANGED <<claim, seen, job, media, original, retry>>
    BY <1>3 DEF LoadMedia, blobs
  <2>2. /\ pc'[w] = IF done THEN "ingested" ELSE "marking"
        /\ ~done => item'[w] = media[m]
        /\ \A v \in Workers \ {w} : SessionsKept(v)
    BY <2>1 DEF Goto, TypeOK, SessionsKept
  <2>3. IF done THEN Done(m) ELSE Waiting(m)
    BY <1>1 DEF Waiting, Done
  <2>4. HoldsPhoto(w)'
    BY <1>1, <2>1, <2>2, <2>3 DEF HoldsPhoto, Waiting, Done, IngestPCs
  <2>5. Active(w)' /\ claim'[w] = claim[w] /\ pc'[w] \notin {"completing", "failing"} /\ UNCHANGED original
    BY <2>1, <2>2 DEF Active
  <2>6. /\ \A v \in Workers \ {w} : SessionsKept(v)
        /\ UNCHANGED <<job, media, retry>> /\ original' \subseteq original /\ original \ original' = {}
        /\ claim'[w].job = m /\ claim'[w].attempt = claim[w].attempt
    BY <2>1, <2>2, <2>5
  <2> QED BY <1>0, <1>1, <2>4, <2>5, <2>6, OnlyReads
<1> QED BY <1>2, <1>3

\* The first commit finds the photo as the worker loaded it.
LEMMA MarkProcessingSettles ==
  ASSUME TypeOK, SettlingInv, NEW w \in Workers, MarkProcessing(w)
  PROVE  SettlingInv'
<1> DEFINE m == claim[w].job
<1>0. pc[w] = "marking" /\ Active(w)
  BY DEF MarkProcessing, Active
<1>1. /\ m \in Media /\ item[w] \in MediaRows /\ media[m] \in MediaRows
      /\ HoldsPhoto(w) /\ HoldsRow(w) /\ JobTells(m) /\ Waiting(m)
      /\ item[w].state = media[m].state /\ item[w].retention = "temporary"
  BY <1>0, InHands DEF HoldsPhoto, IngestPCs
<1> DEFINE row == [media[m] EXCEPT !.state = Written("processing", item[w].state, media[m].state)]
<1>2. /\ media' = [media EXCEPT ![m] = row] /\ item' = [item EXCEPT ![w].state = "processing"]
      /\ UNCHANGED <<job, original, claim, seen, retry>>
  BY DEF MarkProcessing, blobs
<1>3. row.state = "processing" /\ row.retention = "temporary"
  BY <1>1 DEF Written, MediaRows, Waiting
<1>4. media'[m] = row /\ \A n \in Media \ {m} : media'[n] = media[n]
  BY <1>1, <1>2 DEF TypeOK
<1>5. item'[w].state = "processing" /\ item'[w].retention = "temporary"
  BY <1>1, <1>2 DEF TypeOK, MediaRows
<1>6. pc'[w] = "reading" /\ \A v \in Workers \ {w} : SessionsKept(v)
  BY <1>2 DEF MarkProcessing, Goto, TypeOK, SessionsKept
<1> HIDE DEF row
<1>7. Waiting(m)'
  BY <1>1, <1>2, <1>3, <1>4 DEF Waiting
<1>8. HoldsPhoto(w)' /\ HoldsRow(w)'
  BY <1>1, <1>2, <1>3, <1>4, <1>5, <1>6, <1>7 DEF HoldsPhoto, HoldsRow, Waiting, IngestPCs
<1>9. JobTells(m)'
  BY <1>1, <1>2, <1>7, WaitingTells DEF HoldsRow, JobTells
<1> QED BY <1>0, <1>1, <1>2, <1>4, <1>6, <1>8, <1>9, WorkerGoesOn DEF Active

\* The original is there to be read; bytes that are not valid raise.
LEMMA ReadOriginalSettles ==
  ASSUME TypeOK, SettlingInv, NEW w \in Workers, ReadOriginal(w)
  PROVE  SettlingInv'
<1> DEFINE m == claim[w].job
<1>0. pc[w] = "reading" /\ Active(w)
  BY DEF ReadOriginal, Active
<1>1. m \in Media /\ HoldsPhoto(w) /\ Waiting(m)
  BY <1>0, InHands DEF HoldsPhoto, IngestPCs
<1>2. UNCHANGED <<job, media, original, seen, item, retry>>
  BY DEF ReadOriginal, blobs
<1>3. CASE Raise(w, FALSE) /\ m \in Invalid
  BY <1>0, <1>2, <1>3, RaiseKeepsJob
<1>4. CASE Goto(w, "applying") /\ UNCHANGED <<claim, stored>>
  <2>1. pc'[w] = "applying" /\ \A v \in Workers \ {w} : SessionsKept(v)
    BY <1>2, <1>4 DEF Goto, TypeOK, SessionsKept
  <2>2. HoldsPhoto(w)'
    BY <1>0, <1>1, <1>2, <1>4, <2>1 DEF HoldsPhoto, Waiting, IngestPCs
  <2>3. /\ Active(w)' /\ pc'[w] \notin {"completing", "failing"}
        /\ claim'[w].job = m /\ claim'[w].attempt = claim[w].attempt
        /\ original' \subseteq original /\ original \ original' \subseteq {m}
    BY <1>2, <1>4, <2>1 DEF Active
  <2> QED BY <1>0, <1>1, <1>2, <2>1, <2>2, <2>3, OnlyReads
<1> QED BY <1>1, <1>3, <1>4 DEF ReadOriginal, Waiting

\* The two steps that write only to the blob store or to nothing, and go on.
LEMMA GoesOnSettles ==
  ASSUME TypeOK, SettlingInv, NEW w \in Workers, pc[w] \in {"applying", "storing"},
         NEW step \in {"storing", "discarding"}, Goto(w, step),
         UNCHANGED <<job, media, original, claim, seen, item, retry>>
  PROVE  SettlingInv'
<1> DEFINE m == claim[w].job
<1>0. Active(w)
  BY DEF Active
<1>1. m \in Media /\ HoldsPhoto(w)
  BY <1>0, InHands
<1>2. pc'[w] = step /\ \A v \in Workers \ {w} : SessionsKept(v)
  BY DEF Goto, TypeOK, SessionsKept
<1>3. HoldsPhoto(w)'
  BY <1>1, <1>2 DEF HoldsPhoto, Waiting, IngestPCs
<1>4. /\ Active(w)' /\ pc'[w] \notin {"completing", "failing"}
      /\ claim'[w].job = m /\ claim'[w].attempt = claim[w].attempt
      /\ original' \subseteq original /\ original \ original' \subseteq {m}
  BY <1>2 DEF Active
<1> QED BY <1>0, <1>1, <1>2, <1>3, <1>4, OnlyReads

\* The metadata and the derivatives leave the original in the store.
LEMMA StoreSettles ==
  ASSUME TypeOK, SettlingInv, NEW w \in Workers, ApplyMetadata(w) \/ StoreDerivative(w)
  PROVE  SettlingInv'
<1>1. CASE ApplyMetadata(w)
  BY <1>1, GoesOnSettles DEF ApplyMetadata, blobs, session
<1>2. CASE StoreDerivative(w)
  <2>1. pc[w] = "storing" /\ UNCHANGED <<job, media, original, claim, seen, item, retry>>
    BY <1>2 DEF StoreDerivative
  <2>2. Goto(w, "discarding") \/ UNCHANGED pc
    BY <1>2 DEF StoreDerivative
  <2>3. UNCHANGED pc => Goto(w, "storing")
    BY <2>1 DEF Goto, TypeOK
  <2> QED BY <2>1, <2>2, <2>3, GoesOnSettles
<1> QED BY <1>1, <1>2

\* The original goes, and from here to its last report the worker does not fail.
LEMMA DiscardOriginalSettles ==
  ASSUME TypeOK, SettlingInv, NEW w \in Workers, DiscardOriginal(w)
  PROVE  SettlingInv'
<1> DEFINE m == claim[w].job
<1>0. pc[w] = "discarding" /\ Active(w)
  BY DEF DiscardOriginal, Active
<1>1. m \in Media /\ HoldsPhoto(w) /\ item[w].retention = "temporary"
  BY <1>0, InHands DEF HoldsPhoto, IngestPCs
<1>2. Goto(w, "committing") /\ original' = original \ {m} /\ UNCHANGED <<job, media, claim, seen, item, retry>>
  BY <1>1 DEF DiscardOriginal, session
<1>3. pc'[w] = "committing" /\ \A v \in Workers \ {w} : SessionsKept(v)
  BY <1>2 DEF Goto, TypeOK, SessionsKept
<1>4. m \notin original'
  BY <1>2
<1>5. HoldsPhoto(w)'
  BY <1>0, <1>1, <1>2, <1>3, <1>4 DEF HoldsPhoto, IngestPCs
<1>6. /\ Active(w)' /\ pc'[w] \notin {"completing", "failing"}
      /\ claim'[w].job = m /\ claim'[w].attempt = claim[w].attempt
      /\ original' \subseteq original /\ original \ original' \subseteq {m}
  BY <1>2, <1>3 DEF Active
<1> QED BY <1>0, <1>1, <1>2, <1>3, <1>5, <1>6, OnlyReads

\* The second commit writes READY over PROCESSING.
LEMMA CommitIngestSettles ==
  ASSUME TypeOK, SettlingInv, NEW w \in Workers, CommitIngest(w)
  PROVE  SettlingInv'
<1> DEFINE m == claim[w].job
<1>0. pc[w] = "committing" /\ Active(w)
  BY DEF CommitIngest, Active
<1>1. /\ m \in Media /\ media[m] \in MediaRows /\ HoldsPhoto(w) /\ HoldsRow(w) /\ JobTells(m)
      /\ item[w].state = "processing" /\ item[w].retention = "temporary" /\ m \notin original
  BY <1>0, InHands DEF HoldsPhoto, IngestPCs
<1> DEFINE row == [media[m] EXCEPT !.state = Written("ready", item[w].state, media[m].state),
                                   !.retention = Written("deleted", item[w].retention, media[m].retention),
                                   !.assets = TRUE]
<1>2. media' = [media EXCEPT ![m] = row] /\ UNCHANGED <<job, original, claim, seen, item, retry>> /\ Goto(w, "ingested")
  BY DEF CommitIngest, blobs
<1>3. row.state = "ready" /\ row.assets
  BY <1>1 DEF Written, MediaRows
<1>4. media'[m] = row /\ \A n \in Media \ {m} : media'[n] = media[n]
  BY <1>1, <1>2 DEF TypeOK
<1>5. pc'[w] = "ingested" /\ \A v \in Workers \ {w} : SessionsKept(v)
  BY <1>2 DEF Goto, TypeOK, SessionsKept
<1> HIDE DEF row
<1>6. HoldsPhoto(w)' /\ HoldsRow(w)'
  BY <1>1, <1>2, <1>3, <1>4, <1>5 DEF HoldsPhoto, HoldsRow, Done, IngestPCs
<1>7. w \in Owners(m)'
  BY <1>2, <1>5 DEF Owners, Active
<1>8. JobTells(m)'
  BY <1>1, <1>2, <1>3, <1>4, <1>7 DEF JobTells, HoldsRow
<1> QED BY <1>0, <1>1, <1>2, <1>4, <1>5, <1>6, <1>8, WorkerGoesOn DEF Active

\* The reports load the job, and a failure its photo, as they are.
LEMMA LoadSettles ==
  ASSUME TypeOK, SettlingInv, NEW w \in Workers, CompleteLoad(w) \/ FailLoad(w)
  PROVE  SettlingInv'
<1> DEFINE m == claim[w].job
<1>0. pc[w] \in {"ingested", "raised"} /\ Active(w)
  BY DEF CompleteLoad, FailLoad, Active
<1>1. m \in Media /\ HoldsPhoto(w)
  BY <1>0, InHands
<1>2. /\ UNCHANGED <<job, media, original, claim, retry>> /\ seen'[w] = job[m]
      /\ \A v \in Workers \ {w} : SessionsKept(v)
      /\ \/ pc[w] = "ingested" /\ pc'[w] = "completing"
         \/ pc[w] = "raised" /\ pc'[w] = "failing" /\ item'[w] = media[m]
  BY DEF CompleteLoad, FailLoad, Goto, TypeOK, SessionsKept, blobs
<1>3. HoldsPhoto(w)'
  BY <1>1, <1>2 DEF HoldsPhoto, Waiting, Done, IngestPCs
<1>4. /\ Active(w)' /\ claim'[w].job = m /\ claim'[w].attempt = claim[w].attempt
      /\ original' \subseteq original /\ original \ original' \subseteq {m}
  BY <1>2 DEF Active
<1> QED BY <1>0, <1>1, <1>2, <1>3, <1>4, OnlyReads

\* The report of a success closes the job of a photo that is READY.
LEMMA CompleteCommitSettles ==
  ASSUME TypeOK, SettlingInv, NEW w \in Workers, CompleteCommit(w),
         NEW m \in Media, claim[w].job = m
  PROVE  SettlingInv'
<1>0. pc[w] = "completing" /\ Active(w)
  BY DEF CompleteCommit, Active
<1>1. /\ job[m] \in JobRows /\ seen[w] \in JobRows /\ HoldsPhoto(w) /\ HoldsRow(w) /\ JobTells(m)
      /\ media[m].state = "ready" /\ m \notin original
  BY <1>0, InHands DEF HoldsPhoto, Done
<1> DEFINE row == CompletedRow(job[m], seen[w], FALSE)
<1>2. job' = [job EXCEPT ![m] = row] /\ UNCHANGED <<media, original, retry>> /\ Goto(w, "idle") /\ Release(w)
  BY DEF CompleteCommit, blobs
<1>3. row.state = "succeeded" /\ row.lock = "null"
  BY <1>0, <1>1 DEF HoldsRow, CompletedRow, Flush, Written, JobRows
<1> HIDE DEF row
<1>4. job'[m] = row /\ \A n \in Media \ {m} : job'[n] = job[n]
  BY <1>1, <1>2 DEF TypeOK
<1>5. ~Active(w)' /\ \A v \in Workers \ {w} : SessionsKept(v)
  BY <1>2, ReleaseFrees
<1>6. JobTells(m)'
  BY <1>1, <1>2, <1>3, <1>4 DEF JobTells
<1> QED BY <1>0, <1>1, <1>2, <1>4, <1>5, <1>6, WorkerGoesOn

\* The report of a failure closes the job and its photo together, or puts back a
\* job whose photo is untouched.
LEMMA FailCommitSettles ==
  ASSUME TypeOK, SettlingInv, NEW w \in Workers, FailCommit(w),
         NEW m \in Media, claim[w].job = m
  PROVE  SettlingInv'
<1> DEFINE final == IsFinalFailure(claim[w].attempt, MaxAttempts, claim[w].retryable)
           row == FailedRow(job[m], seen[w], final)
           photo == [media[m] EXCEPT !.state = Written("failed", item[w].state, media[m].state)]
<1>0. pc[w] = "failing" /\ Active(w)
  BY DEF FailCommit, Active
<1>1. /\ claim[w] \in Claims /\ job[m] \in JobRows /\ seen[w] \in JobRows /\ media[m] \in MediaRows
      /\ HoldsPhoto(w) /\ HoldsRow(w) /\ JobTells(m) /\ (Waiting(m) \/ Done(m))
      /\ item[w].state = media[m].state
      /\ ~claim[w].retryable => m \in Invalid
  BY <1>0, InHands DEF HoldsPhoto
<1>2. /\ job' = [job EXCEPT ![m] = row] /\ UNCHANGED <<original, retry>> /\ Goto(w, "idle") /\ Release(w)
      /\ media' = IF final THEN [media EXCEPT ![m] = photo] ELSE media
  BY DEF FailCommit, blobs
<1>3. row.state = (IF final THEN "failed" ELSE "pending") /\ row.lock = "null" /\ row.attempts = claim[w].attempt
  BY <1>0, <1>1 DEF HoldsRow, FailedRow, FinallyFailedRow, BackedOffRow, Flush, Written, JobRows
<1>4. photo.state = "failed"
  BY <1>1 DEF Waiting, Done, Written, MediaRows
<1>5. final => m \in Invalid \/ claim[w].attempt = MaxAttempts
  <2>1. claim[w].attempt = job[m].attempts /\ job[m].attempts \in 0..MaxAttempts
    BY <1>1 DEF HoldsRow, TypeOK
  <2> QED BY <1>1, <2>1, MaxAttemptsAssumption DEF IsFinalFailure
<1> HIDE DEF row, photo, final
<1>6. job'[m] = row /\ \A n \in Media \ {m} : job'[n] = job[n] /\ media'[n] = media[n]
  BY <1>1, <1>2 DEF TypeOK
<1>7. ~Active(w)' /\ \A v \in Workers \ {w} : SessionsKept(v)
  BY <1>2, ReleaseFrees
<1>8. JobTells(m)'
  <2>1. CASE final
    <3>1. media'[m].state = "failed"
      BY <1>1, <1>2, <1>4, <2>1 DEF TypeOK
    <3> QED BY <1>3, <1>5, <1>6, <2>1, <3>1 DEF JobTells
  <2>2. CASE ~final
    <3>1. Waiting(m)' \/ Done(m)'
      BY <1>1, <1>2, <2>2 DEF Waiting, Done
    <3> QED BY <1>3, <1>6, <2>2, <3>1, WaitingTells
  <2> QED BY <2>1, <2>2
<1> QED BY <1>0, <1>1, <1>2, <1>6, <1>7, <1>8, WorkerGoesOn

\* A claim takes a job nobody has: its lock was null, or expired without an owner.
LEMMA ClaimSettles ==
  ASSUME TypeOK, SettlingInv, LockOutlivesHandlers, NEW w \in Workers, NEW m \in Media, Claim(w, m)
  PROVE  SettlingInv'
<1> DEFINE row == ClaimedRow(job[m])
<1>0. ~Active(w) /\ Eligible(job[m], MaxAttempts) /\ job[m] \in JobRows /\ JobTells(m)
  BY DEF Claim, Active, TypeOK, SettlingInv
<1>1. job[m].state \in {"pending", "running"} /\ job[m].lock # "held"
  BY <1>0 DEF Eligible, JobTells
<1>2. Owners(m) = {}
  BY <1>1 DEF SettlingInv, HoldsRow, Owners
<1>3. Waiting(m) \/ Done(m)
  BY <1>0, <1>1, <1>2 DEF JobTells
<1>4. /\ job' = [job EXCEPT ![m] = row] /\ UNCHANGED <<media, original, seen, item, retry>>
      /\ claim' = [claim EXCEPT ![w] = [job |-> m, attempt |-> job[m].attempts + 1, retryable |-> FALSE]]
      /\ pc' = [pc EXCEPT ![w] = "loading"]
  BY DEF Claim, Goto, blobs, session
<1>5. row.state = "running" /\ row.lock = "held" /\ row.attempts = job[m].attempts + 1
  BY <1>0 DEF ClaimedRow, JobRows
<1> HIDE DEF row
<1>6. job'[m] = row /\ \A n \in Media \ {m} : job'[n] = job[n]
  BY <1>4 DEF TypeOK
<1>7. /\ pc'[w] = "loading" /\ claim'[w].job = m /\ claim'[w].attempt = job[m].attempts + 1
      /\ \A v \in Workers \ {w} : SessionsKept(v)
  BY <1>4 DEF TypeOK, SessionsKept
<1>8. Waiting(m)' \/ Done(m)'
  BY <1>3, <1>4 DEF Waiting, Done
<1>9. HoldsPhoto(w)' /\ HoldsRow(w)'
  BY <1>5, <1>6, <1>7, <1>8 DEF HoldsPhoto, HoldsRow, IngestPCs
<1>10. JobTells(m)'
  BY <1>5, <1>6, <1>8, WaitingTells
<1>11. \A v \in Workers \ {w} : Active(v) => claim[v].job # m
  BY <1>2 DEF Owners
<1> QED BY <1>0, <1>4, <1>6, <1>7, <1>9, <1>10, <1>11, OnePhotoAtATime

\* A worker that is killed, or whose thread ends, leaves a photo that can be done, or is.
LEMMA EndSettles ==
  ASSUME TypeOK, SettlingInv, "committing" \notin FaultPoints, NEW w \in Workers, ThreadDies(w) \/ Crash(w),
         Active(w), NEW m \in Media, claim[w].job = m
  PROVE  SettlingInv'
<1>1. /\ pc[w] # "committing" /\ UNCHANGED <<job, media, original, retry>>
      /\ Release(w) /\ (Goto(w, "dead") \/ Goto(w, "down"))
  BY DEF ThreadDies, Crash, blobs
<1>2. HoldsRow(w) /\ JobTells(m) /\ (Waiting(m) \/ Done(m))
  BY <1>1, InHands DEF HoldsPhoto, TypeOK, PCs, Active, IngestPCs
<1>3. ~Active(w)' /\ \A v \in Workers \ {w} : SessionsKept(v)
  BY <1>1, ReleaseFrees
<1>4. Waiting(m)' \/ Done(m)'
  BY <1>1, <1>2 DEF Waiting, Done
<1>5. JobTells(m)'
  BY <1>1, <1>2, <1>4, WaitingTells DEF HoldsRow, JobTells
<1> QED BY <1>1, <1>2, <1>3, <1>5, WorkerGoesOn

\* An error anywhere else.
LEMMA FaultSettles ==
  ASSUME TypeOK, SettlingInv, "committing" \notin FaultPoints, NEW w \in Workers, Fault(w)
  PROVE  SettlingInv'
<1>1. pc[w] # "committing" /\ Active(w) /\ Raise(w, TRUE)
  BY DEF Fault, IngestPCs, Active
<1>2. UNCHANGED <<job, media, original, seen, item, retry>>
  BY DEF Fault, blobs
<1> QED BY <1>1, <1>2, RaiseKeepsJob

\* A worker without a job can be killed and started again.
LEMMA IdleSettles ==
  ASSUME TypeOK, SettlingInv, NEW w \in Workers, ~Active(w), ~Active(w)',
         \A v \in Workers \ {w} : SessionsKept(v), UNCHANGED <<job, media, original, retry>>
  PROVE  SettlingInv'
<1>1. \A v \in Workers : Active(v)' <=> Active(v)
  BY DEF Active, SessionsKept
<1>2. \A v \in Workers : Active(v)' => SessionsKept(v)
  OBVIOUS
<1>3. ASSUME NEW v \in Workers, Active(v)' PROVE HoldsRow(v)' /\ HoldsPhoto(v)'
  <2>1. SessionsKept(v) /\ HoldsRow(v) /\ HoldsPhoto(v)
    BY <1>1, <1>2, <1>3 DEF SettlingInv
  <2> QED BY <2>1 DEF SessionsKept, HoldsRow, HoldsPhoto, Waiting, Done
<1>4. Alone'
  BY <1>1, <1>2 DEF SettlingInv, Alone, SessionsKept
<1>5. ASSUME NEW m \in Media PROVE JobTells(m)' /\ retry'[m] = NoRetry
  <2>1. \A v \in Workers : v \in Owners(m)' <=> v \in Owners(m)
    BY <1>1, <1>2 DEF Owners, SessionsKept
  <2>2. Owners(m)' = Owners(m)
    BY <2>1 DEF Owners
  <2> QED BY <2>2 DEF SettlingInv, JobTells, Waiting, Done
<1> QED BY <1>3, <1>4, <1>5 DEF SettlingInv

\* An upload inserts a photo and its job, of which no worker knows.
LEMMA CompleteUploadSettles ==
  ASSUME TypeOK, SettlingInv, NEW m \in Media, CompleteUpload(m)
  PROVE  SettlingInv'
<1>1. /\ UNCHANGED <<pc, claim, seen, item, retry>> /\ original' = original \cup {m}
      /\ job' = [job EXCEPT ![m] = NewRow] /\ media' = [media EXCEPT ![m] = NewMedia]
  BY DEF CompleteUpload, session
<1>2. /\ job'[m] = NewRow /\ media'[m] = NewMedia
      /\ \A n \in Media \ {m} : job'[n] = job[n] /\ media'[n] = media[n] /\ (n \in original' <=> n \in original)
  BY <1>1 DEF TypeOK
<1>3. job[m].state = "absent"
  BY DEF CompleteUpload, SettlingInv, JobTells
<1>4. Waiting(m)'
  BY <1>1, <1>2 DEF Waiting, NewMedia, AbsentMedia
<1>5. JobTells(m)'
  BY <1>2, <1>4, WaitingTells DEF NewRow
<1>6. ASSUME NEW n \in Media \ {m} PROVE JobTells(n)'
  <2>1. Owners(n)' = Owners(n)
    BY <1>1 DEF Owners, Active
  <2> QED BY <1>1, <1>2, <2>1 DEF SettlingInv, JobTells, Waiting, Done
<1>7. ASSUME NEW w \in Workers, Active(w)' PROVE HoldsRow(w)' /\ HoldsPhoto(w)'
  <2>1. Active(w) /\ claim[w].job \in Media
    BY <1>1, <1>7 DEF Active, TypeOK, Claims
  <2>2. HoldsRow(w) /\ HoldsPhoto(w) /\ claim[w].job # m
    BY <1>3, <2>1 DEF SettlingInv, HoldsRow
  <2> QED BY <1>1, <1>2, <2>1, <2>2 DEF HoldsRow, HoldsPhoto, Waiting, Done
<1>8. Alone'
  BY <1>1 DEF SettlingInv, Alone, Active
<1> QED BY <1>1, <1>5, <1>6, <1>7, <1>8 DEF SettlingInv

\* Each step, under the conditions this section is about.
LEMMA Settles ==
  ASSUME TypeOK, TypeOK', SettlingInv, Undisturbed, [Next]_vars
  PROVE  SettlingInv'
<1>1. ASSUME NEW w \in Workers, WorkerStep(w) PROVE SettlingInv'
  BY <1>1, ClaimSettles, LoadMediaSettles, MarkProcessingSettles, ReadOriginalSettles, StoreSettles,
     DiscardOriginalSettles, CommitIngestSettles, LoadSettles, CompleteCommitSettles, FailCommitSettles, InHands
     DEF WorkerStep, Undisturbed, CompleteCommit, FailCommit, Active
<1>2. ASSUME NEW w \in Workers, ThreadDies(w) \/ Crash(w) \/ Restart(w) PROVE SettlingInv'
  <2>1. CASE (ThreadDies(w) \/ Crash(w)) /\ Active(w)
    BY <2>1, EndSettles, InHands DEF Undisturbed
  <2>2. CASE (ThreadDies(w) \/ Crash(w)) /\ ~Active(w)
    <3>1. UNCHANGED <<job, media, original, retry>> /\ Release(w) /\ (Goto(w, "dead") \/ Goto(w, "down"))
      BY <2>2 DEF ThreadDies, Crash, blobs
    <3> QED BY <2>2, <3>1, ReleaseFrees, IdleSettles
  <2>3. CASE Restart(w)
    <3>1. UNCHANGED <<job, media, original, claim, seen, item, retry>> /\ ~Active(w) /\ Goto(w, "idle")
      BY <2>3 DEF Restart, blobs, session, Active
    <3>2. ~Active(w)' /\ \A v \in Workers \ {w} : SessionsKept(v)
      BY <3>1 DEF Goto, TypeOK, Active, SessionsKept
    <3> QED BY <3>1, <3>2, IdleSettles
  <2> QED BY <1>2, <2>1, <2>2, <2>3
<1>3. ASSUME NEW m \in Media, DeleteMedia(m) \/ BecomeDue(m) \/ LockExpires(m) PROVE SettlingInv'
  <2>1. UNCHANGED <<pc, claim, seen, item, original, retry>>
    BY <1>3 DEF DeleteMedia, BecomeDue, LockExpires, blobs, session
  <2>2. ASSUME NEW n \in Media
        PROVE  /\ media'[n].state = media[n].state /\ media'[n].retention = media[n].retention
               /\ media'[n].assets = media[n].assets
               /\ job'[n].state = job[n].state /\ job'[n].attempts = job[n].attempts
               /\ \/ job'[n].lock = job[n].lock
                  \/ Owners(n) = {} /\ job[n].lock # "null" /\ job'[n].lock # "null"
    <3>1. job[m] \in JobRows /\ media[m] \in MediaRows
      BY DEF TypeOK
    <3>2. CASE DeleteMedia(m)
      BY <3>1, <3>2 DEF DeleteMedia, TypeOK, MediaRows
    <3>3. CASE BecomeDue(m)
      BY <3>1, <3>3 DEF BecomeDue, TypeOK, JobRows
    <3>4. CASE LockExpires(m)
      BY <3>1, <3>4 DEF LockExpires, TypeOK, JobRows, Undisturbed
    <3> QED BY <1>3, <3>2, <3>3, <3>4
  <2> QED BY <2>1, <2>2, NothingOfNote
<1>4. ASSUME NEW m \in Media, RetryLoad(m) \/ RetryCommit(m) PROVE SettlingInv'
  BY <1>4 DEF RetryLoad, RetryCommit, Undisturbed, SettlingInv
<1>5. CASE UNCHANGED vars
  BY <1>5, NothingOfNote DEF vars, blobs, session
<1> QED BY <1>1, <1>2, <1>3, <1>4, <1>5, FaultSettles, CompleteUploadSettles DEF Next, Undisturbed

\* SettlingInv made an invariant: workers are killed or fail anywhere but between the
\* deletion of an original and the commit that follows, and locks outlive handlers.
THEOREM PhotosStayInHand ==
  ASSUME Undisturbed
  PROVE  Spec => []SettlingInv
<1>1. Init => SettlingInv
  BY DEF Init, SettlingInv, JobTells, Alone, Active, AbsentRow, AbsentMedia
<1>2. TypeOK /\ TypeOK' /\ SettlingInv /\ [Next]_vars => SettlingInv'
  BY Settles
<1> QED BY <1>1, <1>2, TypeCorrect, PTL DEF Spec

\* A queued ingest has what it needs: as long as no worker fails between the
\* deletion of the original and the commit that follows, a job that waits still has
\* the original of its photo, or its photo is READY.
THEOREM QueuedCanSucceed ==
  ASSUME Undisturbed
  PROVE  Spec => []QueuedIngestCanSucceed
<1>1. SettlingInv => QueuedIngestCanSucceed
  BY DEF SettlingInv, JobTells, Waiting, Done, QueuedIngestCanSucceed
<1> QED BY <1>1, PhotosStayInHand, PTL

\* The queue and the library tell the same outcome of every ingest, and a valid
\* photo is marked failed only when its job has used all its attempts.
THEOREM OutcomesAreTrue ==
  ASSUME Undisturbed
  PROVE  Spec => []OutcomesAgree
<1>1. SettlingInv => OutcomesAgree
  BY DEF SettlingInv, JobTells, OutcomesAgree, FailureIsEarned, JobAndPhotoAgree
<1> QED BY <1>1, PhotosStayInHand, PTL

\* A photo nobody sees, or of which a failure takes nothing.
Hidden(m) == media[m].state # "ready" \/ media[m].deleted

\* A photo comes into sight only when the worker that has it commits.
LEMMA StaysHidden ==
  ASSUME TypeOK, SettlingInv, [Next]_vars, ~UserRetries, NEW m \in Media, Hidden(m),
         \A w \in Workers : pc[w] = "committing" => claim[w].job # m
  PROVE  Hidden(m)'
<1>0. media[m] \in MediaRows
  BY DEF TypeOK
<1>1. ASSUME NEW n \in Media, CompleteUpload(n) \/ DeleteMedia(n) PROVE Hidden(m)'
  <2>1. CASE n # m
    BY <1>1, <2>1 DEF CompleteUpload, DeleteMedia, Hidden, TypeOK
  <2>2. CASE n = m
    <3>1. media'[m] = NewMedia \/ media'[m] = [media[m] EXCEPT !.deleted = TRUE]
      BY <1>1, <2>2 DEF CompleteUpload, DeleteMedia, TypeOK
    <3> QED BY <1>0, <3>1 DEF Hidden, NewMedia, AbsentMedia, MediaRows
  <2> QED BY <2>1, <2>2
<1>2. ASSUME NEW n \in Media, RetryCommit(n) PROVE FALSE
  BY <1>2 DEF RetryCommit, SettlingInv
<1>3. ASSUME NEW w \in Workers, MarkProcessing(w) \/ FailCommit(w) PROVE Hidden(m)'
  <2> DEFINE written(state) == [media[m] EXCEPT !.state = Written(state, item[w].state, media[m].state)]
  <2>1. media'[m] \in {media[m], written("processing"), written("failed")}
    <3>1. CASE claim[w].job # m
      BY <1>3, <3>1 DEF MarkProcessing, FailCommit, TypeOK
    <3>2. CASE claim[w].job = m
      BY <1>3, <3>2 DEF MarkProcessing, FailCommit, TypeOK
    <3> QED BY <3>1, <3>2
  <2> QED BY <1>0, <2>1 DEF Hidden, Written, MediaRows
<1>4. ASSUME NEW w \in Workers, CommitIngest(w) PROVE Hidden(m)'
  BY <1>0, <1>4 DEF CommitIngest, Hidden, TypeOK
<1>5. CASE UNCHANGED media
  BY <1>5 DEF Hidden
<1>6. ASSUME NEW w \in Workers, WorkerStep(w) PROVE Hidden(m)'
  BY <1>3, <1>4, <1>5, <1>6
     DEF WorkerStep, Claim, LoadMedia, ReadOriginal, ApplyMetadata, StoreDerivative, DiscardOriginal,
         CompleteLoad, CompleteCommit, FailLoad
<1> QED
  BY <1>1, <1>2, <1>5, <1>6
     DEF Next, vars, RetryLoad, Fault, ThreadDies, Crash, Restart, BecomeDue, LockExpires

\* A failure begins where the photo is not READY yet, or is deleted, if there is no
\* error where a worker may hold a READY one.
LEMMA FailsEarly ==
  ASSUME TypeOK, SettlingInv, [Next]_vars, FaultPoints \cap {"loading", "committing", "completing"} = {},
         NEW w \in Workers, pc'[w] \in {"raised", "failing"}
  PROVE  /\ Active(w) /\ pc[w] # "committing" /\ claim'[w].job = claim[w].job
         /\ pc[w] \in {"raised", "failing"} \/ Hidden(claim[w].job)
<1> DEFINE Goal == /\ Active(w) /\ pc[w] # "committing" /\ claim'[w].job = claim[w].job
                   /\ pc[w] \in {"raised", "failing"} \/ Hidden(claim[w].job)
<1>1. CASE pc'[w] = pc[w] /\ claim'[w] = claim[w]
  BY <1>1 DEF Active
<1>2. ASSUME NEW u \in Workers, LoadMedia(u) \/ ReadOriginal(u) \/ Fault(u),
             NEW retryable \in BOOLEAN, Raise(u, retryable)
      PROVE  Goal
  <2>1. CASE u # w
    BY <1>1, <1>2, <2>1 DEF Raise, Goto, TypeOK
  <2>2. CASE u = w
    <3>1. claim'[w].job = claim[w].job
      BY <1>2, <2>2, RaiseKeeps
    <3>2. Active(w) /\ pc[w] # "committing"
      BY <1>2, <2>2 DEF LoadMedia, ReadOriginal, Fault, Active, IngestPCs
    <3>3. pc[w] \in {"marking", "reading", "applying", "storing", "discarding"} => Hidden(claim[w].job)
      BY <3>2, InHands DEF HoldsPhoto, Waiting, Hidden, IngestPCs
    <3>4. CASE LoadMedia(w)
      BY <1>2, <2>2, <3>1, <3>2, <3>4 DEF LoadMedia, Raise, Goto, TypeOK, Hidden
    <3>5. CASE ReadOriginal(w) \/ Fault(w)
      BY <3>1, <3>2, <3>3, <3>5 DEF ReadOriginal, Fault, IngestPCs
    <3> QED BY <1>2, <2>2, <3>4, <3>5
  <2> QED BY <2>1, <2>2
<1>3. ASSUME NEW u \in Workers, NEW step, Goto(u, step), step \notin {"raised", "failing"}, u # w => claim'[w] = claim[w]
      PROVE  Goal
  <2>1. u # w
    BY <1>3 DEF Goto, TypeOK
  <2> QED BY <1>1, <1>3, <2>1 DEF Goto, TypeOK
<1>4. ASSUME NEW u \in Workers, LoadMedia(u) \/ ReadOriginal(u) \/ Fault(u) PROVE Goal
  BY <1>2, <1>3, <1>4 DEF LoadMedia, ReadOriginal, Fault
<1>5. ASSUME NEW u \in Workers, FailLoad(u) PROVE Goal
  BY <1>5 DEF FailLoad, Goto, TypeOK, Active
<1>6. ASSUME NEW u \in Workers, Release(u) PROVE u # w => claim'[w] = claim[w]
  BY <1>6 DEF Release, TypeOK
<1>7. ASSUME NEW u \in Workers, CompleteCommit(u) \/ FailCommit(u) \/ ThreadDies(u) \/ Crash(u) \/ Restart(u)
      PROVE  Goal
  BY <1>3, <1>6, <1>7 DEF CompleteCommit, FailCommit, ThreadDies, Crash, Restart
<1>8. ASSUME NEW u \in Workers, NEW m \in Media, Claim(u, m) PROVE Goal
  BY <1>3, <1>8 DEF Claim, TypeOK
<1>9. ASSUME NEW u \in Workers,
             MarkProcessing(u) \/ ApplyMetadata(u) \/ DiscardOriginal(u) \/ CommitIngest(u) \/ CompleteLoad(u)
      PROVE  Goal
  BY <1>3, <1>9 DEF MarkProcessing, ApplyMetadata, DiscardOriginal, CommitIngest, CompleteLoad
<1>10. ASSUME NEW u \in Workers, StoreDerivative(u) PROVE Goal
  BY <1>1, <1>3, <1>10 DEF StoreDerivative
<1>11. ASSUME NEW u \in Workers, WorkerStep(u) PROVE Goal
  BY <1>4, <1>5, <1>7, <1>8, <1>9, <1>10, <1>11 DEF WorkerStep
<1>12. CASE UNCHANGED <<pc, claim>>
  BY <1>1, <1>12
<1> QED
  BY <1>4, <1>7, <1>11, <1>12
     DEF Next, vars, CompleteUpload, DeleteMedia, RetryLoad, RetryCommit, BecomeDue, LockExpires

\* A worker that reports a failure has no photo in its hands that people see.
BlamesNoReadyPhoto ==
  \A w \in Workers : pc[w] \in {"raised", "failing"} => Hidden(claim[w].job)

\* docs/worker-state-machine.md, "idempotent": no step takes a READY photo that is
\* not deleted out of that state, whatever is killed between the commit of READY and
\* the report, as long as no error meets a worker that may hold one.
THEOREM ReadyIsKept ==
  ASSUME Undisturbed, FaultPoints \cap {"loading", "completing"} = {}
  PROVE  Spec => ReadyStays
<1> USE DEF Undisturbed
<1>1. Init => BlamesNoReadyPhoto
  BY DEF Init, BlamesNoReadyPhoto
<1>2. ASSUME TypeOK, SettlingInv, BlamesNoReadyPhoto, [Next]_vars PROVE BlamesNoReadyPhoto'
  <2> SUFFICES ASSUME NEW w \in Workers, pc'[w] \in {"raised", "failing"} PROVE Hidden(claim[w].job)' 
    BY DEF BlamesNoReadyPhoto, Hidden
  <2>1. /\ Active(w) /\ pc[w] # "committing" /\ claim'[w].job = claim[w].job
        /\ pc[w] \in {"raised", "failing"} \/ Hidden(claim[w].job)
    BY <1>2, FailsEarly
  <2>2. claim[w].job \in Media /\ Hidden(claim[w].job)
    BY <1>2, <2>1, InHands DEF BlamesNoReadyPhoto
  <2>3. \A v \in Workers : pc[v] = "committing" => claim[v].job # claim[w].job
    BY <1>2, <2>1, InHands DEF Active
  <2>4. \A m \in Media : m = claim[w].job => Hidden(m)'
    BY <1>2, <2>2, <2>3, StaysHidden
  <2> QED BY <2>1, <2>2, <2>4 DEF Hidden
<1>3. ASSUME TypeOK, SettlingInv, BlamesNoReadyPhoto, [Next]_vars, NEW m \in Media, ~Hidden(m)
      PROVE  media'[m].state = "ready"
  <2>0. media[m] \in MediaRows /\ media[m].state = "ready" /\ ~media[m].deleted
    BY <1>3 DEF TypeOK, Hidden
  <2>1. ASSUME NEW n \in Media, CompleteUpload(n) PROVE media'[m].state = "ready"
    BY <1>3, <2>0, <2>1 DEF CompleteUpload, TypeOK
  <2>2. ASSUME NEW n \in Media, DeleteMedia(n) PROVE media'[m].state = "ready"
    BY <1>3, <2>0, <2>2 DEF DeleteMedia, TypeOK, MediaRows
  <2>3. ASSUME NEW n \in Media, RetryCommit(n) PROVE FALSE
    BY <1>3, <2>3 DEF RetryCommit, SettlingInv
  <2>4. ASSUME NEW w \in Workers, MarkProcessing(w) \/ FailCommit(w) PROVE media'[m].state = "ready"
    <3>1. Active(w) /\ pc[w] \in {"marking", "failing"}
      BY <2>4 DEF MarkProcessing, FailCommit, Active
    <3>2. claim[w].job \in Media /\ Hidden(claim[w].job)
      BY <1>3, <3>1, InHands DEF HoldsPhoto, Waiting, Hidden, IngestPCs, BlamesNoReadyPhoto
    <3>3. claim[w].job # m
      BY <1>3, <3>2
    <3> QED BY <2>0, <2>4, <3>2, <3>3, <1>3 DEF MarkProcessing, FailCommit, TypeOK
  <2>5. ASSUME NEW w \in Workers, CommitIngest(w) PROVE media'[m].state = "ready"
    <3>1. claim[w].job \in Media /\ (claim[w].job = m => media[m].state = "processing")
      BY <1>3, <2>5, InHands DEF HoldsPhoto, IngestPCs, CommitIngest, Active
    <3> QED BY <1>3, <2>0, <2>5, <3>1 DEF CommitIngest, TypeOK
  <2>6. CASE UNCHANGED media
    BY <2>0, <2>6
  <2>7. ASSUME NEW w \in Workers, WorkerStep(w) PROVE media'[m].state = "ready"
    BY <2>4, <2>5, <2>6, <2>7
       DEF WorkerStep, Claim, LoadMedia, ReadOriginal, ApplyMetadata, StoreDerivative, DiscardOriginal,
           CompleteLoad, CompleteCommit, FailLoad
  <2> QED
    BY <1>3, <2>1, <2>2, <2>3, <2>6, <2>7
       DEF Next, vars, RetryLoad, Fault, ThreadDies, Crash, Restart, BecomeDue, LockExpires
<1>4. TypeOK /\ SettlingInv /\ BlamesNoReadyPhoto /\ [Next]_vars =>
        [\A m \in Media :
           media[m].state = "ready" /\ ~media[m].deleted => media'[m].state = "ready"]_vars
  BY <1>3 DEF Hidden
<1> QED BY <1>1, <1>2, <1>4, TypeCorrect, PhotosStayInHand, PTL DEF Spec, ReadyStays

-----------------------------------------------------------------------------
(* The ingest as a handler of the job queue.                               *)

\* What a worker has loaded of its job: nothing while it handles it, an inserted
\* row from complete_job on; what fails after that is retryable.
KnowsRow(w) ==
  /\ ~Active(w) => claim[w] = NoClaim /\ seen[w] = AbsentRow
  /\ Active(w) => job[claim[w].job].state # "absent"
  /\ pc[w] \in IngestPCs \cup {"ingested"} => seen[w] = AbsentRow
  /\ pc[w] = "completing" => seen[w].state # "absent"
  /\ pc[w] = "raised" /\ seen[w] # AbsentRow => claim[w].retryable

\* A photo and its job are inserted together, and a request has loaded both.
KnowsJob(m) ==
  /\ job[m].state = "absent" <=> media[m].state = "absent"
  /\ retry[m] # NoRetry => UserRetries /\ retry[m].job.state # "absent"

\* The inductive invariant of the refinement.
QueueInv == (\A m \in Media : KnowsJob(m)) /\ (\A w \in Workers : KnowsRow(w))

Elsewhere(w) ==
  \A v \in Workers \ {w} : pc'[v] = pc[v] /\ claim'[v] = claim[v] /\ seen'[v] = seen[v]

\* No inserted row disappears.
RowsStay == \A m \in Media : job[m].state # "absent" => job'[m].state # "absent"

\* A step of one worker, or of none, keeps what the others know.
LEMMA OthersKnow ==
  ASSUME TypeOK, QueueInv, RowsStay, NEW w \in Workers, Elsewhere(w), KnowsRow(w)',
         \A m \in Media : KnowsJob(m)'
  PROVE  QueueInv'
<1>1. ASSUME NEW v \in Workers, v # w PROVE KnowsRow(v)'
  <2>1. KnowsRow(v) /\ pc'[v] = pc[v] /\ claim'[v] = claim[v] /\ seen'[v] = seen[v]
    BY <1>1 DEF QueueInv, Elsewhere
  <2>2. Active(v) => claim[v].job \in Media
    BY DEF TypeOK, Claims
  <2> QED BY <2>1, <2>2 DEF KnowsRow, RowsStay, Active
<1> QED BY <1>1 DEF QueueInv

\* The abstract worker of a worker that did nothing has done nothing.
LEMMA OthersMap ==
  ASSUME NEW w \in Workers, Elsewhere(w)
  PROVE  /\ [v \in Workers |-> QueuePC(v)]'
              = [[v \in Workers |-> QueuePC(v)] EXCEPT ![w] = QueuePC(w)']
         /\ [v \in Workers |-> QueueClaim(v)]'
              = [[v \in Workers |-> QueueClaim(v)] EXCEPT ![w] = QueueClaim(w)']
<1>1. \A v \in Workers \ {w} : QueuePC(v)' = QueuePC(v) /\ QueueClaim(v)' = QueueClaim(v)
  BY DEF Elsewhere, QueuePC, QueueClaim
<1> QED BY <1>1

\* The steps of ingest_media, and an error in it, are inside one step of the queue.
LEMMA HandlerStep ==
  ASSUME TypeOK, QueueInv, NEW w \in Workers, Elsewhere(w),
         pc[w] \in IngestPCs, pc'[w] \in IngestPCs \cup {"ingested", "raised"},
         claim'[w] = [claim[w] EXCEPT !.retryable = claim'[w].retryable],
         UNCHANGED <<job, seen, retry>>,
         \A m \in Media : media'[m].state = "absent" <=> media[m].state = "absent"
  PROVE  QueueInv' /\ UNCHANGED Queue!vars
<1>1. KnowsRow(w) /\ Active(w) /\ Active(w)' /\ claim[w] \in Claims
  BY DEF QueueInv, Active, TypeOK, IngestPCs
<1>2. claim'[w].job = claim[w].job
  BY <1>1 DEF Claims
<1>3. KnowsRow(w)'
  BY <1>1, <1>2 DEF KnowsRow, IngestPCs
<1>4. \A m \in Media : KnowsJob(m)'
  BY DEF QueueInv, KnowsJob
<1>5. QueueInv'
  BY <1>3, <1>4, OthersKnow DEF RowsStay
<1>6. QueuePC(w) = "working" /\ QueuePC(w)' = "working"
  BY <1>1 DEF QueuePC, KnowsRow, IngestPCs
<1>7. QueueClaim(w)' = QueueClaim(w)
  BY <1>1 DEF QueueClaim, Claims, IngestPCs
<1>8. UNCHANGED <<[v \in Workers |-> QueuePC(v)], [v \in Workers |-> QueueClaim(v)]>>
  BY <1>6, <1>7, OthersMap
<1> QED BY <1>5, <1>8 DEF Queue!vars

\* The rest of ingest_media marks and reads the photo under its claim.
LEMMA IngestMaps ==
  ASSUME TypeOK, QueueInv, IngestInv, NEW w \in Workers,
         \/ LoadMedia(w) \/ MarkProcessing(w) \/ ReadOriginal(w) \/ ApplyMetadata(w)
         \/ StoreDerivative(w) \/ DiscardOriginal(w) \/ CommitIngest(w)
  PROVE  QueueInv' /\ UNCHANGED Queue!vars
<1>1. Active(w) /\ pc[w] \in IngestPCs /\ claim[w].job \in Media /\ claim[w] \in Claims
  BY DEF LoadMedia, MarkProcessing, ReadOriginal, ApplyMetadata, StoreDerivative,
         DiscardOriginal, CommitIngest, IngestPCs, Active, TypeOK, Claims
<1>2. media[claim[w].job].state # "absent"
  BY <1>1 DEF IngestInv, OnlyUploaded
<1>3. UNCHANGED <<job, seen, retry>>
  BY DEF LoadMedia, MarkProcessing, ReadOriginal, ApplyMetadata, StoreDerivative,
         DiscardOriginal, CommitIngest, blobs, session
<1>4. /\ pc'[w] \in IngestPCs \cup {"ingested", "raised"}
      /\ \A v \in Workers \ {w} : pc'[v] = pc[v]
  <2>1. CASE LoadMedia(w) \/ ReadOriginal(w)
    BY <2>1 DEF LoadMedia, ReadOriginal, Raise, Goto, IngestPCs, TypeOK
  <2>2. CASE MarkProcessing(w) \/ ApplyMetadata(w) \/ DiscardOriginal(w) \/ CommitIngest(w)
    BY <2>2 DEF MarkProcessing, ApplyMetadata, DiscardOriginal, CommitIngest, Goto, IngestPCs,
                TypeOK
  <2>3. CASE StoreDerivative(w)
    BY <2>3 DEF StoreDerivative, Goto, IngestPCs, TypeOK
  <2> QED BY <2>1, <2>2, <2>3
<1>5. /\ claim'[w] = [claim[w] EXCEPT !.retryable = claim'[w].retryable]
      /\ \A v \in Workers \ {w} : claim'[v] = claim[v]
  <2>1. claim' = claim \/ \E r \in BOOLEAN : claim' = [claim EXCEPT ![w].retryable = r]
    BY DEF LoadMedia, MarkProcessing, ReadOriginal, ApplyMetadata, StoreDerivative,
           DiscardOriginal, CommitIngest, Raise
  <2> QED BY <1>1, <2>1 DEF TypeOK, Claims
<1>6. \A m \in Media : media'[m].state = "absent" <=> media[m].state = "absent"
  <2>1. CASE UNCHANGED media
    BY <2>1
  <2>2. CASE MarkProcessing(w)
    BY <2>2, <1>1, <1>2 DEF MarkProcessing, Written, TypeOK, MediaRows
  <2>3. CASE CommitIngest(w)
    <3>1. media'[claim[w].job].state \in {"ready", media[claim[w].job].state}
      BY <2>3, <1>1 DEF CommitIngest, Written, TypeOK, MediaRows
    <3>2. \A m \in Media \ {claim[w].job} : media'[m] = media[m]
      BY <2>3, <1>1 DEF CommitIngest, TypeOK
    <3> QED BY <3>1, <3>2, <1>1, <1>2
  <2> QED BY <2>1, <2>2, <2>3 DEF LoadMedia, ReadOriginal, ApplyMetadata, StoreDerivative,
                                  DiscardOriginal, blobs
<1> QED BY <1>1, <1>3, <1>4, <1>5, <1>6, HandlerStep DEF Elsewhere

\* A step that changes neither workers nor requests.
LEMMA TableMaps ==
  ASSUME TypeOK, QueueInv, UNCHANGED <<pc, claim, seen>>
  PROVE  UNCHANGED <<[v \in Workers |-> QueuePC(v)], [v \in Workers |-> QueueClaim(v)]>>
BY DEF QueuePC, QueueClaim

\* Nobody's knowledge of rows is touched while rows stay.
LEMMA AllKnow ==
  ASSUME TypeOK, QueueInv, RowsStay, UNCHANGED <<pc, claim, seen>>, \A m \in Media : KnowsJob(m)'
  PROVE  QueueInv'
<1>1. ASSUME NEW v \in Workers PROVE KnowsRow(v)'
  <2>1. KnowsRow(v)
    BY DEF QueueInv
  <2>2. Active(v) => claim[v].job \in Media
    BY DEF TypeOK, Claims
  <2> QED BY <2>1, <2>2 DEF KnowsRow, RowsStay, Active
<1> QED BY <1>1 DEF QueueInv

(* Completing an upload enqueues the job of its photo. *)
LEMMA CompleteUploadMaps ==
  ASSUME TypeOK, QueueInv, IngestInv, NEW m \in Media, CompleteUpload(m)
  PROVE  QueueInv' /\ Queue!Enqueue(m)
<1>1. KnowsJob(m) /\ job[m].state = "absent" /\ retry[m] = NoRetry
  BY DEF QueueInv, KnowsJob, CompleteUpload, IngestInv, OnlyUploaded
<1>2. /\ job' = [job EXCEPT ![m] = NewRow] /\ media' = [media EXCEPT ![m] = NewMedia]
      /\ UNCHANGED <<pc, claim, seen, retry>>
  BY DEF CompleteUpload, session
<1>3. NewRow.state # "absent" /\ NewMedia.state # "absent"
  BY DEF NewRow, NewMedia, AbsentMedia
<1>4. RowsStay
  BY <1>2, <1>3 DEF RowsStay, TypeOK
<1>5. \A k \in Media : KnowsJob(k)'
  BY <1>1, <1>2, <1>3 DEF QueueInv, KnowsJob, TypeOK
<1>6. QueueInv'
  BY <1>2, <1>4, <1>5, AllKnow
<1>7. job' = [job EXCEPT ![m] = Queue!NewRow]
  BY <1>2 DEF NewRow, Queue!NewRow
<1> QED BY <1>1, <1>2, <1>6, <1>7, TableMaps DEF Queue!Enqueue

(* A retry request first only reads, which the queue does not see. *)
LEMMA RetryLoadMaps ==
  ASSUME TypeOK, QueueInv, NEW m \in Media, RetryLoad(m)
  PROVE  QueueInv' /\ Queue!RetryLoad(m) /\ UserRetries
<1>1. /\ job[m].state # "absent" /\ retry[m] = NoRetry /\ UserRetries
      /\ retry' = [retry EXCEPT ![m] = [job |-> job[m], media |-> media[m]]]
      /\ UNCHANGED <<job, media, pc, claim, seen>>
  BY DEF RetryLoad, QueueInv, KnowsJob, session
<1>2. \A k \in Media : KnowsJob(k)'
  BY <1>1 DEF QueueInv, KnowsJob, TypeOK
<1>3. QueueInv'
  BY <1>1, <1>2, AllKnow DEF RowsStay
<1>4. [k \in Media |-> retry[k].job]' = [[k \in Media |-> retry[k].job] EXCEPT ![m] = job[m]]
  BY <1>1 DEF TypeOK
<1>5. retry[m].job = Queue!AbsentRow
  BY <1>1 DEF NoRetry, AbsentRow, Queue!AbsentRow
<1> QED BY <1>1, <1>3, <1>4, <1>5, TableMaps DEF Queue!RetryLoad, RetryLoad

(* Its commit requeues the failed job, or leaves it alone. *)
LEMMA RetryCommitMaps ==
  ASSUME TypeOK, QueueInv, IngestInv, NEW m \in Media, RetryCommit(m)
  PROVE  QueueInv' /\ Queue!RetryCommit(m)
<1> DEFINE row == RequeuedRow(job[m], retry[m].job, TRUE)
<1>1. /\ retry[m] # NoRetry /\ retry[m].job.state # "absent"
      /\ job[m].state # "absent" /\ media[m].state # "absent"
  BY DEF RetryCommit, QueueInv, KnowsJob, IngestInv, OnlyUploaded
<1>2. /\ job' = [job EXCEPT ![m] = row] /\ retry' = [retry EXCEPT ![m] = NoRetry]
      /\ UNCHANGED <<pc, claim, seen>>
  BY DEF RetryCommit, session
<1>3. row.state # "absent"
  <2>1. job[m] \in BudgetRows(MaxAttempts) /\ retry[m].job \in JobRows
    BY MaxAttemptsAssumption DEF TypeOK, BudgetRows, JobRows
  <2>2. row.state \in {"pending", job[m].state}
    BY <2>1, RequeuedRowWrites, MaxAttemptsAssumption
  <2> QED BY <1>1, <2>2
<1>4. media'[m].state # "absent" /\ \A k \in Media \ {m} : media'[k] = media[k]
  BY <1>1 DEF RetryCommit, Written, TypeOK, MediaRows
<1> HIDE DEF row
<1>5. RowsStay
  BY <1>2, <1>3 DEF RowsStay, TypeOK
<1>6. \A k \in Media : KnowsJob(k)'
  BY <1>1, <1>2, <1>3, <1>4 DEF QueueInv, KnowsJob, TypeOK
<1>7. QueueInv'
  BY <1>2, <1>5, <1>6, AllKnow
<1>8. retry[m].job # Queue!AbsentRow
  BY <1>1 DEF Queue!AbsentRow
<1>9. [k \in Media |-> retry[k].job]' = [[k \in Media |-> retry[k].job] EXCEPT ![m] = Queue!AbsentRow]
  BY <1>2 DEF TypeOK, NoRetry, AbsentRow, Queue!AbsentRow
<1>10. row = Queue!RequeuedRow(job[m], retry[m].job, TRUE)
  BY DEF row, RequeuedRow, Flush, Written, Queue!RequeuedRow, Queue!Flush, Queue!Written
<1> QED BY <1>2, <1>7, <1>8, <1>9, <1>10, TableMaps DEF Queue!RetryCommit

(* A claim of the ingest is the claim of a worker of the queue. *)
LEMMA ClaimMaps ==
  ASSUME TypeOK, QueueInv, NEW w \in Workers, NEW m \in Media, Claim(w, m)
  PROVE  QueueInv' /\ Queue!Claim(w, m)
<1> DEFINE row == ClaimedRow(job[m])
           new == [job |-> m, attempt |-> job[m].attempts + 1, retryable |-> FALSE]
<1>1. /\ pc[w] = "idle" /\ Eligible(job[m], MaxAttempts)
      /\ job' = [job EXCEPT ![m] = row] /\ claim' = [claim EXCEPT ![w] = new]
      /\ pc' = [pc EXCEPT ![w] = "loading"] /\ UNCHANGED <<media, seen, retry>>
  BY DEF Claim, Goto, session
<1>2. row.state = "running" /\ job[m].state # "absent"
  BY <1>1 DEF ClaimedRow, Eligible, TypeOK, JobRows
<1>3. seen[w] = AbsentRow
  BY <1>1 DEF QueueInv, KnowsRow, Active
<1>4. row = Queue!ClaimedRow(job[m])
  BY DEF ClaimedRow, Queue!ClaimedRow
<1> HIDE DEF row
<1>5. RowsStay /\ Elsewhere(w)
  BY <1>1, <1>2 DEF RowsStay, Elsewhere, TypeOK
<1>6. \A k \in Media : KnowsJob(k)'
  BY <1>1, <1>2 DEF QueueInv, KnowsJob, TypeOK
<1>7. KnowsRow(w)' /\ claim'[w] = new /\ pc'[w] = "loading"
  <2>1. claim'[w] = new /\ pc'[w] = "loading" /\ seen'[w] = AbsentRow
    BY <1>1, <1>3 DEF TypeOK
  <2>2. job'[m].state # "absent"
    BY <1>1, <1>2 DEF TypeOK
  <2> QED BY <2>1, <2>2 DEF KnowsRow, Active, IngestPCs
<1>8. QueueInv'
  BY <1>5, <1>6, <1>7, OthersKnow
<1>9. QueuePC(w) = "idle" /\ QueuePC(w)' = "working" /\ QueueClaim(w)' = new
  <2>1. QueuePC(w) = "idle" /\ QueuePC(w)' = "working"
    BY <1>1, <1>7 DEF QueuePC, IngestPCs
  <2>2. QueueClaim(w)' = [new EXCEPT !.retryable = FALSE]
    BY <1>7 DEF QueueClaim
  <2> QED BY <2>1, <2>2
<1>10. m \in Queue!Candidates
  <2>1. \A k, l \in Media : [n \in Media |-> 0][k] <= [n \in Media |-> 0][l]
    OBVIOUS
  <2>2. Queue!Eligible(job[m], MaxAttempts)
    BY <1>1 DEF Eligible, Queue!Eligible
  <2> QED BY <2>1, <2>2 DEF Queue!Candidates
<1>11. UNCHANGED <<seen, [k \in Media |-> retry[k].job]>>
  BY <1>1
<1>12. /\ [v \in Workers |-> QueuePC(v)][w] = "idle"
       /\ [v \in Workers |-> QueuePC(v)]'
            = [[v \in Workers |-> QueuePC(v)] EXCEPT ![w] = "working"]
       /\ [v \in Workers |-> QueueClaim(v)]'
            = [[v \in Workers |-> QueueClaim(v)] EXCEPT ![w] = new]
  BY <1>5, <1>9, OthersMap
<1> QED BY <1>1, <1>4, <1>8, <1>10, <1>11, <1>12 DEF Queue!Claim

(* The transaction that ends an ingest loads the row its claim is counted on. *)
LEMMA CompleteLoadMaps ==
  ASSUME TypeOK, QueueInv, NEW w \in Workers, CompleteLoad(w)
  PROVE  QueueInv' /\ Queue!CompleteLoad(w)
<1> DEFINE row == job[claim[w].job]
<1>1. /\ pc[w] = "ingested" /\ pc' = [pc EXCEPT ![w] = "completing"]
      /\ seen' = [seen EXCEPT ![w] = row] /\ UNCHANGED <<job, media, claim, retry>>
  BY DEF CompleteLoad, Goto, blobs
<1>2. claim[w] \in Claims /\ row.state # "absent"
  BY <1>1 DEF TypeOK, QueueInv, KnowsRow, Active
<1>3. pc'[w] = "completing" /\ seen'[w] = row /\ claim'[w] = claim[w] /\ Elsewhere(w)
  BY <1>1 DEF TypeOK, Elsewhere
<1>4. KnowsRow(w)'
  BY <1>1, <1>2, <1>3 DEF KnowsRow, Active, IngestPCs
<1>5. QueueInv'
  BY <1>1, <1>3, <1>4, OthersKnow DEF RowsStay, QueueInv, KnowsJob
<1>6. /\ QueuePC(w) = "working" /\ QueuePC(w)' = "completing"
      /\ QueueClaim(w)' = QueueClaim(w) /\ QueueClaim(w).job = claim[w].job
  BY <1>1, <1>2, <1>3 DEF QueuePC, QueueClaim, IngestPCs, Claims
<1>7. /\ [v \in Workers |-> QueuePC(v)]'
           = [[v \in Workers |-> QueuePC(v)] EXCEPT ![w] = "completing"]
      /\ [v \in Workers |-> QueueClaim(v)]' = [v \in Workers |-> QueueClaim(v)]
      /\ [v \in Workers |-> QueueClaim(v)][w].job = claim[w].job
  BY <1>3, <1>6, OthersMap
<1>8. [v \in Workers |-> QueuePC(v)][w] = "working"
  BY <1>6
<1> QED BY <1>1, <1>5, <1>7, <1>8 DEF Queue!CompleteLoad

\* A worker that raised, in the handler or in complete_job, loads the row again.
LEMMA FailLoadMaps ==
  ASSUME TypeOK, QueueInv, NEW w \in Workers, FailLoad(w)
  PROVE  QueueInv' /\ Queue!FailLoad(w)
<1> DEFINE row == job[claim[w].job]
<1>1. /\ pc[w] = "raised" /\ pc' = [pc EXCEPT ![w] = "failing"]
      /\ seen' = [seen EXCEPT ![w] = row] /\ UNCHANGED <<job, media, claim, retry>>
  BY DEF FailLoad, Goto, blobs
<1>2. claim[w] \in Claims /\ row.state # "absent" /\ KnowsRow(w)
  BY <1>1 DEF TypeOK, QueueInv, KnowsRow, Active
<1>3. pc'[w] = "failing" /\ seen'[w] = row /\ claim'[w] = claim[w] /\ Elsewhere(w)
  BY <1>1 DEF TypeOK, Elsewhere
<1>4. KnowsRow(w)'
  BY <1>1, <1>2, <1>3 DEF KnowsRow, Active, IngestPCs
<1>5. QueueInv'
  BY <1>1, <1>3, <1>4, OthersKnow DEF RowsStay, QueueInv, KnowsJob
<1>6. /\ QueuePC(w) = "working" \/ (QueuePC(w) = "completing" /\ claim[w].retryable)
      /\ QueuePC(w)' = "failing"
  BY <1>1, <1>2, <1>3 DEF QueuePC, KnowsRow, IngestPCs
<1>7. /\ QueueClaim(w)' = [QueueClaim(w) EXCEPT !.retryable = claim[w].retryable]
      /\ QueueClaim(w).job = claim[w].job
  BY <1>1, <1>2, <1>3 DEF QueueClaim, Claims
<1>8. /\ [v \in Workers |-> QueuePC(v)]'
           = [[v \in Workers |-> QueuePC(v)] EXCEPT ![w] = "failing"]
      /\ [v \in Workers |-> QueueClaim(v)]'
           = [[v \in Workers |-> QueueClaim(v)] EXCEPT ![w].retryable = claim[w].retryable]
      /\ [v \in Workers |-> QueueClaim(v)][w].job = claim[w].job
  BY <1>3, <1>6, <1>7, OthersMap
<1>9. /\ [v \in Workers |-> QueuePC(v)][w] = QueuePC(w)
      /\ claim[w].retryable \in BOOLEAN
  BY <1>2 DEF Claims
<1> QED BY <1>1, <1>5, <1>6, <1>8, <1>9 DEF Queue!FailLoad

\* A worker that lets go of its job does so in the queue as well.
LEMMA ReleaseMaps ==
  ASSUME TypeOK, QueueInv, NEW w \in Workers, Release(w), NEW step \in {"idle", "dead", "down"},
         Goto(w, step)
  PROVE  /\ Elsewhere(w) /\ KnowsRow(w)' /\ Queue!Release(w)
         /\ [v \in Workers |-> QueuePC(v)]'
              = [[v \in Workers |-> QueuePC(v)] EXCEPT ![w] = step]
<1>1. /\ pc'[w] = step /\ claim'[w] = NoClaim /\ seen'[w] = AbsentRow /\ Elsewhere(w)
      /\ seen' = [seen EXCEPT ![w] = AbsentRow]
  BY DEF Release, Goto, TypeOK, Elsewhere
<1>2. KnowsRow(w)'
  BY <1>1 DEF KnowsRow, Active, IngestPCs
<1>3. QueuePC(w)' = step /\ QueueClaim(w)' = Queue!NoClaim
  <2>1. QueuePC(w)' = step
    BY <1>1 DEF QueuePC, IngestPCs
  <2>2. QueueClaim(w)' = [NoClaim EXCEPT !.retryable = FALSE]
    BY <1>1 DEF QueueClaim
  <2> QED BY <2>1, <2>2 DEF NoClaim, Queue!NoClaim, NoJob, Queue!NoJob
<1>4. AbsentRow = Queue!AbsentRow
  BY DEF AbsentRow, Queue!AbsentRow
<1>5. /\ [v \in Workers |-> QueuePC(v)]'
           = [[v \in Workers |-> QueuePC(v)] EXCEPT ![w] = step]
      /\ [v \in Workers |-> QueueClaim(v)]'
           = [[v \in Workers |-> QueueClaim(v)] EXCEPT ![w] = Queue!NoClaim]
  BY <1>1, <1>3, OthersMap
<1> QED BY <1>1, <1>2, <1>4, <1>5 DEF Queue!Release

(* Its commit ends the job. *)
LEMMA CompleteCommitMaps ==
  ASSUME TypeOK, QueueInv, IngestInv, NEW w \in Workers, CompleteCommit(w)
  PROVE  QueueInv' /\ Queue!CompleteCommit(w)
<1> DEFINE m == claim[w].job
           row == CompletedRow(job[m], seen[w], FALSE)
<1>1. /\ pc[w] = "completing" /\ Release(w) /\ Goto(w, "idle")
      /\ job' = [job EXCEPT ![m] = row] /\ UNCHANGED <<media, retry>>
  BY DEF CompleteCommit
<1>2. m \in Media /\ claim[w] \in Claims /\ job[m].state # "absent"
  BY <1>1 DEF TypeOK, QueueInv, KnowsRow, Active, Claims
<1>3. row.state # "absent"
  BY <1>2, CompletedRowWrites DEF TypeOK
<1>4. row = Queue!CompletedRow(job[m], seen[w], FALSE)
  BY DEF CompletedRow, Flush, Written, Queue!CompletedRow, Queue!Flush, Queue!Written
<1> HIDE DEF row
<1>5. RowsStay /\ \A k \in Media : KnowsJob(k)'
  BY <1>1, <1>2, <1>3 DEF RowsStay, QueueInv, KnowsJob, TypeOK
<1>6. QueueInv'
  BY <1>1, <1>5, ReleaseMaps, OthersKnow
<1>7. [v \in Workers |-> QueuePC(v)][w] = "completing"
  BY <1>1 DEF QueuePC, IngestPCs
<1>8. [v \in Workers |-> QueueClaim(v)][w].job = m
  BY <1>2 DEF QueueClaim, Claims
<1>9. /\ Queue!Release(w)
      /\ [v \in Workers |-> QueuePC(v)]'
           = [[v \in Workers |-> QueuePC(v)] EXCEPT ![w] = "idle"]
  BY <1>1, ReleaseMaps
<1>10. [k \in Media |-> retry[k].job]' = [k \in Media |-> retry[k].job]
  BY <1>1
<1>11. job' = [job EXCEPT ![m] = Queue!CompletedRow(@, seen[w], FALSE)]
  BY <1>1, <1>4
<1> HIDE DEF m
<1> QED BY <1>6, <1>7, <1>8, <1>9, <1>10, <1>11 DEF Queue!CompleteCommit

(* The failure of a handler requeues or ends the job, as its attempts say. *)
LEMMA FailCommitMaps ==
  ASSUME TypeOK, QueueInv, IngestInv, NEW w \in Workers, FailCommit(w)
  PROVE  QueueInv' /\ Queue!FailCommit(w)
<1> DEFINE m == claim[w].job
           final == IsFinalFailure(claim[w].attempt, MaxAttempts, claim[w].retryable)
           row == FailedRow(job[m], seen[w], final)
<1>1. /\ pc[w] = "failing" /\ Release(w) /\ Goto(w, "idle")
      /\ job' = [job EXCEPT ![m] = row] /\ UNCHANGED retry
      /\ media' = IF final
                  THEN [media EXCEPT ![m].state = Written("failed", item[w].state, @)]
                  ELSE media
  BY DEF FailCommit
<1>2. /\ m \in Media /\ claim[w] \in Claims /\ final \in BOOLEAN
      /\ job[m].state # "absent" /\ media[m].state # "absent"
  BY <1>1 DEF TypeOK, QueueInv, KnowsRow, Active, Claims, IngestInv, OnlyUploaded, IsFinalFailure
<1>3. row.state # "absent"
  BY <1>2, FailedRowWrites DEF TypeOK
<1>4. /\ row = Queue!FailedRow(job[m], seen[w], final)
      /\ final <=> Queue!IsFinalFailure(claim[w].attempt, MaxAttempts, claim[w].retryable)
  BY DEF FailedRow, FinallyFailedRow, BackedOffRow, Flush, Written, Queue!FailedRow,
         Queue!FinallyFailedRow, Queue!BackedOffRow, Queue!Flush, Queue!Written,
         IsFinalFailure, Queue!IsFinalFailure
<1>m. media'[m].state # "absent" /\ \A k \in Media \ {m} : media'[k] = media[k]
  BY <1>1, <1>2 DEF Written, TypeOK, MediaRows
<1> HIDE DEF row, final
<1>5. RowsStay /\ \A k \in Media : KnowsJob(k)'
  BY <1>1, <1>2, <1>3, <1>m DEF RowsStay, QueueInv, KnowsJob, TypeOK
<1>6. QueueInv'
  BY <1>1, <1>5, ReleaseMaps, OthersKnow
<1>7. [v \in Workers |-> QueuePC(v)][w] = "failing"
  BY <1>1 DEF QueuePC, IngestPCs
<1>8. [v \in Workers |-> QueueClaim(v)][w] = claim[w]
  BY <1>1, <1>2 DEF QueueClaim, Claims
<1>9. /\ Queue!Release(w)
      /\ [v \in Workers |-> QueuePC(v)]'
           = [[v \in Workers |-> QueuePC(v)] EXCEPT ![w] = "idle"]
  BY <1>1, ReleaseMaps
<1>10. [k \in Media |-> retry[k].job]' = [k \in Media |-> retry[k].job]
  BY <1>1
<1>11. job' = [job EXCEPT ![m] = Queue!FailedRow(@, seen[w],
                 Queue!IsFinalFailure(claim[w].attempt, MaxAttempts, claim[w].retryable))]
  <2>1. final = Queue!IsFinalFailure(claim[w].attempt, MaxAttempts, claim[w].retryable)
    BY <1>4 DEF final, IsFinalFailure, Queue!IsFinalFailure
  <2> QED BY <1>1, <1>4, <2>1
<1> QED BY <1>6, <1>7, <1>8, <1>9, <1>10, <1>11 DEF Queue!FailCommit

\* An error in the handler is not yet the queue's; neither is one in complete_job.
LEMMA FaultMaps ==
  ASSUME TypeOK, QueueInv, NEW w \in Workers, Fault(w)
  PROVE  QueueInv' /\ UNCHANGED Queue!vars
<1>1. /\ pc[w] \in IngestPCs \cup {"completing"} /\ pc' = [pc EXCEPT ![w] = "raised"]
      /\ claim' = [claim EXCEPT ![w].retryable = TRUE] /\ UNCHANGED <<job, media, seen, retry>>
  BY DEF Fault, Raise, Goto, blobs
<1>2. claim[w] \in Claims /\ KnowsRow(w) /\ Active(w) /\ Active(w)'
  BY <1>1 DEF TypeOK, QueueInv, Active, IngestPCs
<1>3. /\ pc'[w] = "raised" /\ claim'[w] = [claim[w] EXCEPT !.retryable = TRUE] /\ Elsewhere(w)
      /\ claim'[w].retryable = TRUE /\ claim'[w].job = claim[w].job
  BY <1>1, <1>2 DEF TypeOK, Elsewhere, Claims
<1>4. CASE pc[w] \in IngestPCs
  BY <1>1, <1>3, <1>4, HandlerStep
<1>5. CASE pc[w] = "completing"
  <2>1. KnowsRow(w)'
    BY <1>1, <1>2, <1>3, <1>5 DEF KnowsRow, IngestPCs
  <2>2. QueueInv'
    BY <1>1, <1>3, <2>1, OthersKnow DEF RowsStay, QueueInv, KnowsJob
  <2>3. QueuePC(w) = "completing" /\ QueuePC(w)' = "completing"
    BY <1>1, <1>2, <1>3, <1>5 DEF QueuePC, KnowsRow, IngestPCs, AbsentRow
  <2>4. QueueClaim(w)' = QueueClaim(w)
    BY <1>2, <1>3, <1>5 DEF QueueClaim, Claims
  <2>5. UNCHANGED <<[v \in Workers |-> QueuePC(v)], [v \in Workers |-> QueueClaim(v)]>>
    BY <1>3, <2>3, <2>4, OthersMap
  <2> QED BY <1>1, <2>2, <2>5 DEF Queue!vars
<1> QED BY <1>1, <1>4, <1>5

\* A thread that dies, a worker that is killed (again, when it is down: nothing
\* is left to lose) and one that is started.
LEMMA StopMaps ==
  ASSUME TypeOK, QueueInv, NEW w \in Workers, ThreadDies(w) \/ Crash(w)
  PROVE  QueueInv' /\ (Queue!ThreadDies(w) \/ Queue!Crash(w) \/ UNCHANGED Queue!vars)
<1>1. /\ Release(w) /\ UNCHANGED <<job, media, retry>>
      /\ \/ pc[w] = "failing" /\ Goto(w, "dead")
         \/ Goto(w, "down")
  BY DEF ThreadDies, Crash
<1>2. Elsewhere(w) /\ KnowsRow(w)' /\ Queue!Release(w)
  BY <1>1, ReleaseMaps
<1>3. QueueInv'
  BY <1>1, <1>2, OthersKnow DEF RowsStay, QueueInv, KnowsJob
<1>4. [k \in Media |-> retry[k].job]' = [k \in Media |-> retry[k].job]
  BY <1>1
<1>5. CASE pc[w] = "failing" /\ Goto(w, "dead")
  <2>1. [v \in Workers |-> QueuePC(v)][w] = "failing"
    BY <1>5 DEF QueuePC, IngestPCs
  <2>2. [v \in Workers |-> QueuePC(v)]'
          = [[v \in Workers |-> QueuePC(v)] EXCEPT ![w] = "dead"]
    BY <1>1, <1>5, ReleaseMaps
  <2> QED BY <1>1, <1>2, <1>3, <1>4, <2>1, <2>2 DEF Queue!ThreadDies
<1>6. CASE Goto(w, "down")
  <2>1. [v \in Workers |-> QueuePC(v)]'
          = [[v \in Workers |-> QueuePC(v)] EXCEPT ![w] = "down"]
    BY <1>1, <1>6, ReleaseMaps
  <2>2. CASE [v \in Workers |-> QueuePC(v)][w] # "down"
    BY <1>1, <1>2, <1>3, <1>4, <2>1, <2>2 DEF Queue!Crash
  <2>3. CASE [v \in Workers |-> QueuePC(v)][w] = "down"
    <3>1. pc[w] = "down"
      BY <2>3 DEF QueuePC, TypeOK, PCs
    <3>2. claim[w] = NoClaim /\ seen[w] = AbsentRow
      BY <3>1 DEF QueueInv, KnowsRow, Active
    <3>3. UNCHANGED <<pc, claim, seen>>
      BY <1>1, <1>6, <3>1, <3>2 DEF Release, Goto, TypeOK
    <3> QED BY <1>1, <1>3, <1>4, <3>3, TableMaps DEF Queue!vars
  <2> QED BY <2>2, <2>3
<1> QED BY <1>1, <1>5, <1>6

(* A restarted worker is idle again in both. *)
LEMMA RestartMaps ==
  ASSUME TypeOK, QueueInv, NEW w \in Workers, Restart(w)
  PROVE  QueueInv' /\ Queue!Restart(w)
<1>1. pc[w] = "down" /\ pc' = [pc EXCEPT ![w] = "idle"] /\ UNCHANGED <<job, media, claim, seen, retry>>
  BY DEF Restart, Goto, session, blobs
<1>2. pc'[w] = "idle" /\ Elsewhere(w) /\ claim'[w] = claim[w] /\ claim[w] = NoClaim
  BY <1>1 DEF TypeOK, Elsewhere, QueueInv, KnowsRow, Active
<1>3. KnowsRow(w)'
  BY <1>1, <1>2 DEF QueueInv, KnowsRow, Active, IngestPCs
<1>4. QueueInv'
  BY <1>1, <1>2, <1>3, OthersKnow DEF RowsStay, QueueInv, KnowsJob
<1>5. QueuePC(w) = "down" /\ QueuePC(w)' = "idle"
  BY <1>1, <1>2 DEF QueuePC, IngestPCs
<1>6. QueueClaim(w)' = QueueClaim(w)
  BY <1>2 DEF QueueClaim, NoClaim
<1>7. /\ [v \in Workers |-> QueuePC(v)]'
           = [[v \in Workers |-> QueuePC(v)] EXCEPT ![w] = "idle"]
      /\ [v \in Workers |-> QueueClaim(v)]' = [v \in Workers |-> QueueClaim(v)]
      /\ [v \in Workers |-> QueuePC(v)][w] = "down"
  BY <1>2, <1>5, <1>6, OthersMap
<1> QED BY <1>1, <1>4, <1>7 DEF Queue!Restart

\* Time passes for the queue as it does for the ingest: its jobs have the same owners.
LEMMA TimeMaps ==
  ASSUME TypeOK, QueueInv, NEW m \in Media, BecomeDue(m) \/ LockExpires(m)
  PROVE  QueueInv' /\ (Queue!BecomeDue(m) \/ Queue!LockExpires(m))
<1>1. UNCHANGED <<media, pc, claim, seen, retry>>
  BY DEF BecomeDue, LockExpires, session
<1>2. \A k \in Media : job'[k].state = job[k].state
  <2>1. \/ job' = [job EXCEPT ![m] = [job[m] EXCEPT !.due = TRUE]]
        \/ job' = [job EXCEPT ![m] = [job[m] EXCEPT !.lock = "expired"]]
    BY DEF BecomeDue, LockExpires
  <2>2. /\ [job[m] EXCEPT !.due = TRUE].state = job[m].state
        /\ [job[m] EXCEPT !.lock = "expired"].state = job[m].state
    BY TimeLeavesAttempts DEF TypeOK
  <2> QED BY <2>1, <2>2 DEF TypeOK
<1>3. QueueInv'
  BY <1>1, <1>2, AllKnow DEF RowsStay, QueueInv, KnowsJob
<1>4. Queue!Owners(m) = Owners(m)
  <2>1. ASSUME NEW w \in Workers
        PROVE  /\ Queue!Active(w) <=> Active(w)
               /\ [v \in Workers |-> QueueClaim(v)][w].job = claim[w].job
    <3>1. QueuePC(w) \in {"working", "completing", "failing"} <=> Active(w)
      BY DEF QueuePC, Active, TypeOK, PCs, IngestPCs
    <3>2. QueueClaim(w).job = claim[w].job
      BY DEF QueueClaim, TypeOK, Claims
    <3> QED BY <3>1, <3>2 DEF Queue!Active
  <2> QED BY <2>1 DEF Queue!Owners, Owners
<1>5. UNCHANGED <<[v \in Workers |-> QueuePC(v)], [v \in Workers |-> QueueClaim(v)]>>
  BY <1>1, TableMaps
<1>6. [k \in Media |-> retry[k].job]' = [k \in Media |-> retry[k].job]
  BY <1>1
<1> QED BY <1>1, <1>3, <1>4, <1>5, <1>6
        DEF BecomeDue, LockExpires, Queue!BecomeDue, Queue!LockExpires

\* A photo that its contributor deletes is no business of the queue.
LEMMA DeleteMediaMaps ==
  ASSUME TypeOK, QueueInv, NEW m \in Media, DeleteMedia(m)
  PROVE  QueueInv' /\ UNCHANGED Queue!vars
<1>1. UNCHANGED <<job, pc, claim, seen, retry>>
  BY DEF DeleteMedia, session
<1>2. \A k \in Media : media'[k].state = media[k].state
  BY DEF DeleteMedia, TypeOK, MediaRows
<1>3. QueueInv'
  BY <1>1, <1>2, AllKnow DEF RowsStay, QueueInv, KnowsJob
<1> QED BY <1>1, <1>3, TableMaps DEF Queue!vars

\* Every step of the ingest is a step of the queue or invisible to it.
LEMMA QueueStep ==
  ASSUME TypeOK, IngestInv, QueueInv, [Next]_vars
  PROVE  QueueInv' /\ [Queue!Next]_(Queue!vars)
<1> DEFINE Goal == QueueInv' /\ [Queue!Next]_(Queue!vars)
<1>1. ASSUME NEW m \in Media,
             \/ CompleteUpload(m) \/ DeleteMedia(m) \/ RetryLoad(m) \/ RetryCommit(m)
             \/ BecomeDue(m) \/ LockExpires(m)
      PROVE  Goal
  <2>1. CASE CompleteUpload(m)
    BY <2>1, CompleteUploadMaps DEF Queue!Next
  <2>2. CASE DeleteMedia(m)
    BY <2>2, DeleteMediaMaps
  <2>3. CASE RetryLoad(m)
    BY <2>3, RetryLoadMaps DEF Queue!Next
  <2>4. CASE RetryCommit(m)
    <3>1. CASE UserRetries
      BY <2>4, <3>1, RetryCommitMaps DEF Queue!Next
    <3>2. CASE ~UserRetries
      BY <2>4, <3>2 DEF RetryCommit, QueueInv, KnowsJob
    <3> QED BY <3>1, <3>2
  <2>5. CASE BecomeDue(m) \/ LockExpires(m)
    BY <2>5, TimeMaps DEF Queue!Next
  <2> QED BY <1>1, <2>1, <2>2, <2>3, <2>4, <2>5
<1>2. ASSUME NEW w \in Workers, WorkerStep(w) PROVE Goal
  <2>1. ASSUME NEW m \in Media, Claim(w, m) PROVE Goal
    BY <2>1, ClaimMaps DEF Queue!Next, Queue!WorkerStep
  <2>2. CASE \/ LoadMedia(w) \/ MarkProcessing(w) \/ ReadOriginal(w) \/ ApplyMetadata(w)
             \/ StoreDerivative(w) \/ DiscardOriginal(w) \/ CommitIngest(w)
    BY <2>2, IngestMaps
  <2>3. CASE CompleteLoad(w)
    BY <2>3, CompleteLoadMaps DEF Queue!Next, Queue!WorkerStep
  <2>4. CASE CompleteCommit(w)
    BY <2>4, CompleteCommitMaps DEF Queue!Next, Queue!WorkerStep
  <2>5. CASE FailLoad(w)
    BY <2>5, FailLoadMaps DEF Queue!Next, Queue!WorkerStep
  <2>6. CASE FailCommit(w)
    BY <2>6, FailCommitMaps DEF Queue!Next, Queue!WorkerStep
  <2> QED BY <1>2, <2>1, <2>2, <2>3, <2>4, <2>5, <2>6 DEF WorkerStep
<1>3. ASSUME NEW w \in Workers, Fault(w) \/ ThreadDies(w) \/ Crash(w) \/ Restart(w) PROVE Goal
  <2>1. CASE Fault(w)
    BY <2>1, FaultMaps
  <2>2. CASE ThreadDies(w) \/ Crash(w)
    BY <2>2, StopMaps DEF Queue!Next
  <2>3. CASE Restart(w)
    BY <2>3, RestartMaps DEF Queue!Next
  <2> QED BY <1>3, <2>1, <2>2, <2>3
<1>4. CASE UNCHANGED vars
  <2>1. UNCHANGED <<job, media, pc, claim, seen, retry>>
    BY <1>4 DEF vars
  <2>2. QueueInv'
    BY <2>1, AllKnow DEF RowsStay, QueueInv, KnowsJob
  <2> QED BY <2>1, <2>2, TableMaps DEF Queue!vars
<1> QED BY <1>1, <1>2, <1>3, <1>4 DEF Next

\* What the ingest knows of the rows its sessions have loaded.
THEOREM RowsAreKnown == Spec => []QueueInv
<1>1. Init => QueueInv
  BY DEF Init, QueueInv, KnowsJob, KnowsRow, Active, AbsentRow, AbsentMedia, IngestPCs
<1>2. TypeOK /\ IngestInv /\ QueueInv /\ [Next]_vars => QueueInv'
  BY QueueStep
<1> QED BY <1>1, <1>2, TypeCorrect, BlobsBackRows, PTL DEF Spec

\* The ingest, whatever its photos, users, faults and locks, is a handler of the
\* job queue: each of its behaviours is one of ProcessingJobs.
THEOREM IngestImplementsQueue == Spec => ImplementsQueue
<1>1. Init => Queue!Init
  <2>1. ASSUME Init, NEW w \in Workers
        PROVE  QueuePC(w) = "idle" /\ QueueClaim(w) = Queue!NoClaim
    <3>1. QueuePC(w) = "idle"
      BY <2>1 DEF Init, QueuePC, IngestPCs
    <3>2. QueueClaim(w) = [NoClaim EXCEPT !.retryable = FALSE]
      BY <2>1 DEF Init, QueueClaim
    <3> QED BY <3>1, <3>2 DEF NoClaim, Queue!NoClaim, NoJob, Queue!NoJob
  <2> QED BY <2>1 DEF Init, Queue!Init, AbsentRow, Queue!AbsentRow, NoRetry
<1>2. TypeOK /\ IngestInv /\ QueueInv /\ [Next]_vars => [Queue!Next]_(Queue!vars)
  BY QueueStep
<1> QED BY <1>1, <1>2, TypeCorrect, BlobsBackRows, RowsAreKnown, PTL
        DEF Spec, ImplementsQueue, Queue!Spec

-----------------------------------------------------------------------------
(* What the ingest inherits from the queue.  The theorems of               *)
(* ProcessingJobsProofs hold of the queue behind the ingest, whose         *)
(* constants satisfy the assumptions of ProcessingJobs.                    *)

Proved == INSTANCE ProcessingJobsProofs WITH
  Jobs <- Media,
  RetriableJobs <- IF UserRetries THEN Media ELSE {},
  Priority <- [m \in Media |-> 0],
  pc <- [w \in Workers |-> QueuePC(w)],
  claim <- [w \in Workers |-> QueueClaim(w)],
  retry <- [m \in Media |-> retry[m].job]

\* The photos are jobs, their retries are retries, and they are equally urgent.
LEMMA QueueAssumptions ==
  /\ Proved!NoJob \notin Media
  /\ (IF UserRetries THEN Media ELSE {}) \subseteq Media
  /\ [m \in Media |-> 0] \in [Media -> Nat]
  /\ MaxAttempts \in Nat \ {0}
  /\ LockOutlivesHandlers \in BOOLEAN
BY MediaAssumption, MaxAttemptsAssumption, EnvironmentAssumption DEF NoJob, Proved!NoJob

\* The queue of the proofs is the queue of the specification.
LEMMA SameQueue == Proved!Spec <=> Queue!Spec
<1>1. Proved!Init <=> Queue!Init
  BY DEF Proved!Init, Proved!AbsentRow, Proved!NoClaim, Proved!NoJob, Queue!Init,
         Queue!AbsentRow, Queue!NoClaim, Queue!NoJob
<1>2. Proved!Next <=> Queue!Next
  BY DEF Proved!Next, Proved!WorkerStep, Proved!Enqueue, Proved!RetryLoad,
         Proved!RetryCommit, Proved!Claim, Proved!CompleteLoad, Proved!CompleteCommit,
         Proved!FailLoad, Proved!FailCommit, Proved!ThreadDies, Proved!Crash,
         Proved!Restart, Proved!BecomeDue, Proved!LockExpires, Proved!Release,
         Proved!Candidates, Proved!Owners, Proved!Active, Proved!Eligible,
         Proved!ClaimedRow, Proved!NewRow, Proved!AbsentRow, Proved!NoClaim,
         Proved!NoJob, Proved!RequeuedRow, Proved!CompletedRow, Proved!FailedRow,
         Proved!FinallyFailedRow, Proved!BackedOffRow, Proved!Flush, Proved!Written,
         Proved!IsFinalFailure, Queue!Next, Queue!WorkerStep, Queue!Enqueue,
         Queue!RetryLoad, Queue!RetryCommit, Queue!Claim, Queue!CompleteLoad,
         Queue!CompleteCommit, Queue!FailLoad, Queue!FailCommit, Queue!ThreadDies,
         Queue!Crash, Queue!Restart, Queue!BecomeDue, Queue!LockExpires, Queue!Release,
         Queue!Candidates, Queue!Owners, Queue!Active, Queue!Eligible, Queue!ClaimedRow,
         Queue!NewRow, Queue!AbsentRow, Queue!NoClaim, Queue!NoJob, Queue!RequeuedRow,
         Queue!CompletedRow, Queue!FailedRow, Queue!FinallyFailedRow,
         Queue!BackedOffRow, Queue!Flush, Queue!Written, Queue!IsFinalFailure
<1>3. [Proved!Next]_(Proved!vars) <=> [Queue!Next]_(Queue!vars)
  BY <1>2 DEF Proved!vars, Queue!vars
<1> QED BY <1>1, <1>2, <1>3, PTL DEF Proved!Spec, Queue!Spec

\* What the queue promises of a job that no request resets, as the ingest sees it:
\* attempts number the claims of a photo, ...
ClaimsAreNumbered ==
  \A v, w \in Workers :
    Active(w) =>
      /\ claim[w].attempt \in 1..job[claim[w].job].attempts
      /\ v # w /\ Active(v) /\ claim[v].job = claim[w].job
           => claim[v].attempt # claim[w].attempt

\* ... and a reported outcome stays.
OutcomesStay ==
  [][\A m \in Media : job[m].state \in FinalStates => job'[m].state = job[m].state]_vars

\* The workers of the queue are those of the ingest.
LEMMA SameOwners ==
  ASSUME TypeOK
  PROVE  /\ \A w \in Workers : Proved!Active(w) <=> Active(w)
         /\ \A w \in Workers : /\ [v \in Workers |-> QueueClaim(v)][w].job = claim[w].job
                               /\ [v \in Workers |-> QueueClaim(v)][w].attempt = claim[w].attempt
         /\ \A m \in Media : Proved!Owners(m) = Owners(m)
<1>1. ASSUME NEW w \in Workers
      PROVE  /\ QueuePC(w) \in {"working", "completing", "failing"} <=> Active(w)
             /\ QueueClaim(w).job = claim[w].job /\ QueueClaim(w).attempt = claim[w].attempt
  <2>1. QueuePC(w) \in {"working", "completing", "failing"} <=> Active(w)
    BY DEF QueuePC, Active, TypeOK, PCs, IngestPCs
  <2>2. QueueClaim(w).job = claim[w].job /\ QueueClaim(w).attempt = claim[w].attempt
    BY DEF QueueClaim, TypeOK, Claims
  <2> QED BY <2>1, <2>2
<1>2. \A w \in Workers : Proved!Active(w) <=> Active(w)
  BY <1>1 DEF Proved!Active
<1> QED BY <1>1, <1>2 DEF Proved!Owners, Owners

\* However late handlers report and wherever workers are killed, two workers on
\* one photo hold different attempts, neither above the row's.
THEOREM IngestClaimsCounted ==
  ASSUME ~UserRetries
  PROVE  Spec => []ClaimsAreNumbered
<1>1. Queue!Spec => []Proved!AttemptsIdentifyClaims
  <2>1. Proved!Spec => []Proved!AttemptsIdentifyClaims
    BY QueueAssumptions, Proved!ClaimsCounted
  <2> QED BY <2>1, SameQueue, PTL
<1>2. TypeOK /\ Proved!AttemptsIdentifyClaims => ClaimsAreNumbered
  <2> SUFFICES ASSUME TypeOK, Proved!AttemptsIdentifyClaims, NEW v \in Workers, NEW w \in Workers,
                      Active(w)
               PROVE  /\ claim[w].attempt \in 1..job[claim[w].job].attempts
                      /\ v # w /\ Active(v) /\ claim[v].job = claim[w].job
                           => claim[v].attempt # claim[w].attempt
    BY DEF ClaimsAreNumbered
  <2>1. claim[w].job \in Proved!QueueJobs
    BY DEF Proved!QueueJobs, TypeOK, Claims
  <2> QED BY <2>1, SameOwners DEF Proved!AttemptsIdentifyClaims
<1> QED BY <1>1, <1>2, TypeCorrect, IngestImplementsQueue, PTL DEF ImplementsQueue

\* Unless a user retries it, a photo is ingested by one worker at a time, provided
\* that handlers end within the lock timeout, whatever is killed or fails.
THEOREM IngestIsExclusive ==
  ASSUME LockOutlivesHandlers, ~UserRetries
  PROVE  Spec => []Alone
<1>1. Queue!Spec => []Proved!ExclusiveExecution
  <2>1. Proved!Spec => []Proved!ExclusiveExecution
    BY QueueAssumptions, Proved!Exclusive
  <2> QED BY <2>1, SameQueue, PTL
<1>2. TypeOK /\ Proved!ExclusiveExecution => Alone
  <2> SUFFICES ASSUME TypeOK, Proved!ExclusiveExecution, NEW v \in Workers, NEW w \in Workers,
                      Active(v), Active(w), claim[v].job = claim[w].job
               PROVE  v = w
    BY DEF Alone
  <2>1. claim[w].job \in Proved!QueueJobs
    BY DEF Proved!QueueJobs, TypeOK, Claims
  <2>2. v \in Proved!Owners(claim[w].job) /\ w \in Proved!Owners(claim[w].job)
    BY <2>1, SameOwners DEF Owners, Proved!QueueJobs
  <2> QED BY <2>1, <2>2 DEF Proved!ExclusiveExecution
<1> QED BY <1>1, <1>2, TypeCorrect, IngestImplementsQueue, PTL DEF ImplementsQueue

\* An ingest that has succeeded or failed stays so, on the same terms.
THEOREM IngestOutcomesStay ==
  ASSUME LockOutlivesHandlers, ~UserRetries
  PROVE  Spec => OutcomesStay
<1> DEFINE Final == \A m \in Media : job[m].state \in FinalStates => job'[m].state = job[m].state
           QueueFinal == \A j \in Proved!QueueJobs :
                           job[j].state \in Proved!FinalStates => job'[j].state = job[j].state
<1>1. Queue!Spec => [][QueueFinal]_(Proved!vars)
  <2>1. Proved!Spec => Proved!OutcomeIsFinal
    BY QueueAssumptions, Proved!OutcomeFinal
  <2> QED BY <2>1, SameQueue, PTL DEF Proved!OutcomeIsFinal
<1>2. [QueueFinal]_(Proved!vars) => [Final]_vars
  BY DEF Proved!QueueJobs, Proved!FinalStates, FinalStates, Proved!vars
<1> QED BY <1>1, <1>2, IngestImplementsQueue, PTL DEF ImplementsQueue, OutcomesStay

\* The ingest of photos has the lifecycle the queue promises of every job.
Ingests == INSTANCE JobLifecycle WITH
  Jobs <- Media,
  phase <- [m \in Media |-> job[m].state],
  holder <- [m \in Media |-> Owners(m)]

\* Unless users retry, every behaviour of the ingest is one of JobLifecycle: a
\* photo is uploaded, started by one worker at a time, reported or lost.
THEOREM IngestImplementsLifecycle ==
  ASSUME LockOutlivesHandlers, ~UserRetries
  PROVE  Spec => Ingests!Spec
<1>1. Queue!Spec => Proved!Lifecycle!Spec
  <2>1. Proved!Spec => Proved!ImplementsLifecycle
    BY QueueAssumptions, Proved!QueueImplementsLifecycle
  <2> QED BY <2>1, SameQueue, PTL DEF Proved!ImplementsLifecycle
<1> DEFINE Same ==
             /\ [j \in Proved!QueueJobs |-> job[j].state] = [m \in Media |-> job[m].state]
             /\ [j \in Proved!QueueJobs |-> Proved!Owners(j)] = [m \in Media |-> Owners(m)]
<1>q. Proved!QueueJobs = Media
  BY DEF Proved!QueueJobs
<1>2. TypeOK => Same
  BY <1>q, SameOwners
<1>p. TypeOK' => Same'
  BY <1>2, PTL
<1>3. TypeOK => (Proved!Lifecycle!Init => Ingests!Init)
  BY <1>2, <1>q DEF Proved!Lifecycle!Init, Ingests!Init
<1>4. TypeOK /\ TypeOK' =>
        ([Proved!Lifecycle!Next]_(Proved!Lifecycle!lifecycleVars) => [Ingests!Next]_(Ingests!lifecycleVars))
  <2> SUFFICES ASSUME Same, Same', [Proved!Lifecycle!Next]_(Proved!Lifecycle!lifecycleVars)
               PROVE  [Ingests!Next]_(Ingests!lifecycleVars)
    BY <1>2, <1>p
  <2>1. ASSUME NEW j \in Media, Proved!Lifecycle!Submit(j) PROVE Ingests!Submit(j)
    BY <2>1 DEF Proved!Lifecycle!Submit, Ingests!Submit
  <2>2. ASSUME NEW j \in Media, NEW w \in Workers, Proved!Lifecycle!Start(j, w)
        PROVE  Ingests!Start(j, w)
    BY <2>2, <1>q DEF Proved!Lifecycle!Start, Ingests!Start
  <2>3. ASSUME NEW j \in Media, Proved!Lifecycle!Report(j) PROVE Ingests!Report(j)
    BY <2>3 DEF Proved!Lifecycle!Report, Ingests!Report
  <2>4. ASSUME NEW j \in Media, Proved!Lifecycle!Lose(j) PROVE Ingests!Lose(j)
    BY <2>4 DEF Proved!Lifecycle!Lose, Ingests!Lose
  <2>5. CASE UNCHANGED Proved!Lifecycle!lifecycleVars
    BY <2>5 DEF Proved!Lifecycle!lifecycleVars, Ingests!lifecycleVars
  <2> QED BY <1>q, <2>1, <2>2, <2>3, <2>4, <2>5 DEF Proved!Lifecycle!Next, Ingests!Next
<1> QED BY <1>1, <1>3, <1>4, TypeCorrect, IngestImplementsQueue, PTL
        DEF ImplementsQueue, Proved!Lifecycle!Spec, Ingests!Spec
====
