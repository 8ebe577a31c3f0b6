------------------------ MODULE AutoStoryUpdateProofs ------------------------
(***************************************************************************)
(* Theorems about the automatic story update of a trip.                    *)
(***************************************************************************)
EXTENDS AutoStoryUpdate, TLAPS

\* What the queue is given: a positive budget, and a value that is no photo.
Given == MaxAttempts \in Nat \ {0} /\ NoPhoto \notin Photos

\* The ingests that are about to ask have a photo each, still queued, and a run
\* has loaded READY photos only.
Asking ==
  /\ \A w \in Workers : pc[w] = "asking" => task[w] \in Photos /\ photo[task[w]] = "queued"
  /\ \A w \in Workers : pc[w] # "asking" => task[w] = NoPhoto
  /\ \A v, w \in Workers : task[v] = task[w] /\ task[w] # NoPhoto => v = w
  /\ \A w \in Workers : points[w] \subseteq Ready

\* The rows that a request, a claim and a report leave.
LEMMA AskedRowWrites ==
  ASSUME NEW row \in JobRows, NEW loaded \in JobRows
  PROVE  /\ AskedRow(row, loaded) \in JobRows
         /\ AskedRow(row, loaded).attempts \in {0, row.attempts}
BY DEF AskedRow, DelayedRow, NewRow, RequeuedRow, Flush, Written, JobRows, JobStates, Locks

\* complete_job of an update, put back or not.
LEMMA ReportedUpdateWrites ==
  ASSUME NEW row \in JobRows, NEW loaded \in JobRows
  PROVE  /\ CompletedRow(row, loaded, TRUE) \in JobRows
         /\ CompletedRow(row, loaded, TRUE).attempts \in {0, row.attempts}
BY DEF CompletedRow, Flush, Written, JobRows, JobStates, Locks

\* fail_job leaves the count of attempts alone.
LEMMA FailedUpdateWrites ==
  ASSUME NEW row \in JobRows, NEW loaded \in JobRows, NEW final \in BOOLEAN
  PROVE  /\ FailedRow(row, loaded, final) \in JobRows
         /\ FailedRow(row, loaded, final).attempts = row.attempts
BY DEF FailedRow, FinallyFailedRow, BackedOffRow, Flush, Written, JobRows, JobStates, Locks

\* What a worker that has done with its photo or its run leaves of it.
LEMMA Released ==
  ASSUME TypeOK, Given, Asking, NEW w \in Workers, Release(w), NEW step \in PCs \ {"asking"}, Goto(w, step),
         placed' = placed, Ready \subseteq Ready',
         \A p \in Photos : p # task[w] => photo'[p] = photo[p]
  PROVE  /\ pc' \in [Workers -> PCs] /\ task' \in [Workers -> Photos \cup {NoPhoto}]
         /\ attempt' \in [Workers -> 0..MaxAttempts] /\ seen' \in [Workers -> JobRows]
         /\ points' \in [Workers -> SUBSET Photos] /\ placed' \subseteq Ready' /\ Asking'
<1>1. AbsentRow \in JobRows
  BY DEF AbsentRow, JobRows, JobStates, Locks
<1>2. /\ pc' \in [Workers -> PCs] /\ task' \in [Workers -> Photos \cup {NoPhoto}]
      /\ attempt' \in [Workers -> 0..MaxAttempts] /\ seen' \in [Workers -> JobRows]
      /\ points' \in [Workers -> SUBSET Photos] /\ placed' \subseteq Ready'
  BY <1>1 DEF TypeOK, Release, Goto, Given
<1>3. /\ pc'[w] # "asking" /\ task'[w] = NoPhoto /\ points'[w] = {}
      /\ \A v \in Workers \ {w} : pc'[v] = pc[v] /\ task'[v] = task[v] /\ points'[v] = points[v]
  BY DEF TypeOK, Release, Goto
<1>4. ASSUME NEW v \in Workers, pc'[v] = "asking" PROVE task'[v] \in Photos /\ photo'[task'[v]] = "queued"
  <2>1. v # w /\ pc[v] = "asking" /\ task[v] \in Photos /\ photo[task[v]] = "queued"
    BY <1>3, <1>4 DEF Asking
  <2>2. task[v] # task[w]
    BY <2>1 DEF Asking, Given
  <2> QED BY <1>3, <2>1, <2>2
<1>5. \A v \in Workers : pc'[v] # "asking" => task'[v] = NoPhoto
  BY <1>3 DEF Asking
<1>6. \A u, v \in Workers : task'[u] = task'[v] /\ task'[v] # NoPhoto => u = v
  BY <1>3 DEF Asking
<1>7. \A v \in Workers : points'[v] \subseteq Ready'
  BY <1>3 DEF Asking
<1> QED BY <1>2, <1>4, <1>5, <1>6, <1>7 DEF Asking

\* A step of the update that neither begins nor ends it.
LEMMA RunGoesOn ==
  ASSUME TypeOK, Asking, NEW w \in Workers, pc[w] # "asking", NEW step \in PCs \ {"asking"}, Goto(w, step),
         UNCHANGED <<photo, task>>, \A v \in Workers : points'[v] \subseteq Ready
  PROVE  pc' \in [Workers -> PCs] /\ Asking'
<1>1. pc'[w] = step /\ \A v \in Workers \ {w} : pc'[v] = pc[v]
  BY DEF TypeOK, Goto
<1>2. Ready' = Ready
  BY DEF Ready
<1>3. pc' \in [Workers -> PCs]
  BY DEF TypeOK, Goto
<1> QED BY <1>1, <1>2, <1>3 DEF Asking

\* Types, the CHECK constraint attempts <= max_attempts, and that only READY
\* photos are in the story, for every number of photos and workers.
THEOREM TypeCorrect ==
  ASSUME Given
  PROVE  Spec => [](TypeOK /\ Asking)
<1>1. Init => TypeOK /\ Asking
  BY DEF Given, Init, TypeOK, Asking, AbsentRow, JobRows, JobStates, Locks, PhotoStates, PCs, Ready
<1>2. TypeOK /\ Asking /\ [Next]_vars => TypeOK' /\ Asking'
  <2> SUFFICES ASSUME TypeOK, Asking, [Next]_vars PROVE TypeOK' /\ Asking'
    OBVIOUS
  <2>1. ASSUME NEW p \in Photos, Upload(p) PROVE TypeOK' /\ Asking'
    <3>1. photo' \in [Photos -> PhotoStates] /\ UNCHANGED <<job, placed, pc, task, attempt, seen, points>>
      BY <2>1 DEF Upload, TypeOK, PhotoStates, session
    <3>2. photo[p] = "absent" /\ \A q \in Photos \ {p} : photo'[q] = photo[q]
      BY <2>1 DEF Upload, TypeOK
    <3>3. Ready \subseteq Ready'
      BY <3>2 DEF Ready
    <3>4. Asking'
      BY <3>1, <3>2, <3>3 DEF Asking
    <3> QED BY <3>1, <3>3, <3>4 DEF TypeOK
  <2>2. ASSUME NEW w \in Workers, NEW p \in Photos, AskLoad(w, p) PROVE TypeOK' /\ Asking'
    <3>1. /\ pc' \in [Workers -> PCs] /\ task' \in [Workers -> Photos \cup {NoPhoto}]
          /\ seen' \in [Workers -> JobRows] /\ UNCHANGED <<job, photo, placed, attempt, points>>
      BY <2>2 DEF AskLoad, Goto, TypeOK, PCs
    <3>2. /\ pc'[w] = "asking" /\ task'[w] = p /\ photo[p] = "queued"
          /\ \A v \in Workers \ {w} : pc'[v] = pc[v] /\ task'[v] = task[v] /\ task[v] # p
      BY <2>2 DEF AskLoad, Goto, TypeOK
    <3>3. Ready' = Ready
      BY <3>1 DEF Ready
    <3>4. Asking'
      BY <3>1, <3>2, <3>3 DEF Asking
    <3> QED BY <3>1, <3>3, <3>4 DEF TypeOK
  <2>3. ASSUME NEW w \in Workers, AskCommit(w) PROVE TypeOK' /\ Asking'
    <3>1. task[w] \in Photos /\ seen[w] \in JobRows
      BY <2>3 DEF AskCommit, Asking, TypeOK
    <3>2. photo' \in [Photos -> PhotoStates] /\ \A p \in Photos : p # task[w] => photo'[p] = photo[p]
      BY <2>3 DEF AskCommit, TypeOK, PhotoStates
    <3>3. Ready \subseteq Ready'
      BY <2>3 DEF AskCommit, Ready, TypeOK
    <3>4. job' \in JobRows /\ job'.attempts \in {0, job.attempts}
      BY <2>3, <3>1, AskedRowWrites DEF AskCommit, TypeOK
    <3>5. Release(w) /\ Goto(w, "idle") /\ placed' = placed /\ "idle" \in PCs \ {"asking"}
      BY <2>3 DEF AskCommit, PCs
    <3> QED BY <3>2, <3>3, <3>4, <3>5, Released DEF TypeOK, Given
  <2>4. ASSUME NEW w \in Workers, AskConflict(w) \/ AskFault(w) \/ Crash(w) PROVE TypeOK' /\ Asking'
    <3>1. /\ photo' = photo \/ (pc[w] = "asking" /\ photo' = [photo EXCEPT ![task[w]] = "lost"])
          /\ job' = job /\ placed' = placed /\ Release(w) /\ (Goto(w, "idle") \/ Goto(w, "down"))
      BY <2>4 DEF AskConflict, AskFault, LosePhoto, Crash
    <3>2. photo' \in [Photos -> PhotoStates] /\ \A p \in Photos : p # task[w] => photo'[p] = photo[p]
      BY <3>1 DEF TypeOK, PhotoStates
    <3>3. Ready \subseteq Ready'
      BY <3>1, <3>2 DEF Asking, Ready
    <3>4. {"idle", "down"} \subseteq PCs \ {"asking"}
      BY DEF PCs
    <3> QED BY <3>1, <3>2, <3>3, <3>4, Released DEF TypeOK
  <2>5. ASSUME NEW w \in Workers, Claim(w) PROVE TypeOK' /\ Asking'
    <3>1. job' = ClaimedRow(job) /\ Eligible(job, MaxAttempts) /\ job \in JobRows /\ MaxAttempts \in Nat
      BY <2>5 DEF Claim, TypeOK, Given
    <3>2. job' \in JobRows /\ job'.attempts <= MaxAttempts /\ job.attempts + 1 \in 0..MaxAttempts
      <4>1. job.attempts + 1 \in 0..MaxAttempts
        BY <3>1 DEF Eligible, JobRows
      <4>2. job' \in JobRows /\ job'.attempts = job.attempts + 1
        <5>1. job.attempts + 1 \in Nat
          BY <3>1 DEF JobRows
        <5>2. \A row \in JobRows : row.attempts + 1 \in Nat =>
                ClaimedRow(row) \in JobRows /\ ClaimedRow(row).attempts = row.attempts + 1
          BY DEF ClaimedRow, JobRows, JobStates, Locks
        <5> QED BY <3>1, <5>1, <5>2
      <4> QED BY <4>1, <4>2
    <3>3. attempt' \in [Workers -> 0..MaxAttempts]
      BY <2>5, <3>2 DEF Claim, TypeOK
    <3>4. UNCHANGED <<photo, placed, task, seen, points>> /\ Goto(w, "checking") /\ pc[w] # "asking"
      BY <2>5 DEF Claim
    <3>5. pc' \in [Workers -> PCs] /\ Asking'
      BY <3>4, RunGoesOn DEF Asking, PCs, UpdatePCs
    <3> QED BY <3>2, <3>3, <3>4, <3>5 DEF TypeOK, Ready
  <2>6. ASSUME NEW w \in Workers, Check(w) \/ Fault(w) \/ Restart(w) PROVE TypeOK' /\ Asking'
    <3>1. UNCHANGED <<job, photo, placed, session>> /\ pc[w] # "asking"
      BY <2>6 DEF Check, Fault, Restart, Updating, UpdatePCs
    <3>2. \E step \in {"reporting", "loading", "raised", "idle"} : Goto(w, step)
      BY <2>6 DEF Check, Fault, Restart
    <3>3. pc' \in [Workers -> PCs] /\ Asking'
      BY <3>1, <3>2, RunGoesOn DEF Asking, PCs, UpdatePCs, session
    <3> QED BY <3>1, <3>3 DEF TypeOK, Ready, session
  <2>7. ASSUME NEW w \in Workers, LoadPoints(w) PROVE TypeOK' /\ Asking'
    <3>1. UNCHANGED <<job, photo, placed, task, attempt, seen>> /\ pc[w] # "asking" /\ Goto(w, "placing")
      BY <2>7 DEF LoadPoints
    <3>2. points' \in [Workers -> SUBSET Photos] /\ \A v \in Workers : points'[v] \subseteq Ready
      BY <2>7 DEF LoadPoints, TypeOK, Asking, Ready
    <3>3. pc' \in [Workers -> PCs] /\ Asking'
      BY <3>1, <3>2, RunGoesOn DEF PCs, UpdatePCs
    <3> QED BY <3>1, <3>2, <3>3 DEF TypeOK, Ready
  <2>8. ASSUME NEW w \in Workers, CommitRun(w) PROVE TypeOK' /\ Asking'
    <3>1. UNCHANGED <<job, photo, session>> /\ pc[w] # "asking" /\ Goto(w, "reporting") /\ placed' \subseteq Ready
      BY <2>8 DEF CommitRun, TypeOK, Asking
    <3>2. pc' \in [Workers -> PCs] /\ Asking'
      BY <3>1, RunGoesOn DEF Asking, PCs, UpdatePCs, session
    <3> QED BY <3>1, <3>2 DEF TypeOK, Ready, session
  <2>9. ASSUME NEW w \in Workers, CompleteLoad(w) \/ FailLoad(w) PROVE TypeOK' /\ Asking'
    <3>1. /\ UNCHANGED <<job, photo, placed, task, attempt, points>> /\ pc[w] # "asking"
          /\ Goto(w, "completing") \/ Goto(w, "failing")
      BY <2>9 DEF CompleteLoad, FailLoad
    <3>2. seen' \in [Workers -> JobRows]
      BY <2>9 DEF CompleteLoad, FailLoad, TypeOK
    <3>3. pc' \in [Workers -> PCs] /\ Asking'
      BY <3>1, RunGoesOn DEF Asking, PCs, UpdatePCs
    <3> QED BY <3>1, <3>2, <3>3 DEF TypeOK, Ready
  <2>10. ASSUME NEW w \in Workers, CompleteCommit(w) \/ FailCommit(w) \/ ThreadDies(w) PROVE TypeOK' /\ Asking'
    <3>1. photo' = photo /\ placed' = placed /\ Release(w) /\ (Goto(w, "idle") \/ Goto(w, "dead"))
      BY <2>10 DEF CompleteCommit, FailCommit, ThreadDies
    <3>2. seen[w] \in JobRows /\ job \in JobRows
      BY DEF TypeOK, IsFinalFailure
    <3> DEFINE final == IsFinalFailure(attempt[w], MaxAttempts, TRUE)
    <3>3. job' \in JobRows /\ job'.attempts \in {0, job.attempts}
      <4>1. FailedRow(job, seen[w], final) \in JobRows /\ FailedRow(job, seen[w], final).attempts = job.attempts
        <5>1. final \in BOOLEAN
          BY DEF IsFinalFailure
        <5> HIDE DEF final
        <5> QED BY <3>2, <5>1, FailedUpdateWrites
      <4> QED BY <2>10, <3>2, <4>1, ReportedUpdateWrites DEF CompleteCommit, FailCommit, ThreadDies
    <3>4. {"idle", "dead"} \subseteq PCs \ {"asking"} /\ Ready \subseteq Ready'
      BY <3>1 DEF PCs, Ready
    <3> QED BY <3>1, <3>3, <3>4, Released DEF TypeOK, Given
  <2>11. CASE BecomeDue \/ LockExpires
    <3>1. /\ job' \in JobRows /\ job'.attempts = job.attempts
          /\ UNCHANGED <<photo, placed, pc, task, attempt, seen, points>>
      BY <2>11 DEF BecomeDue, LockExpires, TypeOK, JobRows, Locks, session
    <3> QED BY <3>1 DEF TypeOK, Asking, Ready
  <2>12. CASE UNCHANGED vars
    BY <2>12 DEF vars, TypeOK, Asking, Ready
  <2> QED
    BY <2>1, <2>2, <2>3, <2>4, <2>5, <2>6, <2>7, <2>8, <2>9, <2>10, <2>11, <2>12 DEF Next, WorkerStep
<1> QED BY <1>1, <1>2, PTL DEF Spec

-----------------------------------------------------------------------------
(* With any number of threads.                                             *)

\* No worker can claim the row of an update that runs: not as running, its lock
\* has not expired, nor as pending, its run_after is still to come.
OutOfReach ==
  job.state \in {"pending", "running"} /\ job.lock # "expired" /\ (job.state = "pending" => ~job.due)

\* A run of its own at a time, whose row is out of reach.
UpdatesKeptApart == OneUpdateAtATime /\ ((\E w \in Workers : Updating(w)) => OutOfReach)

\* A request, whatever row it had loaded, leaves the row out of reach.
LEMMA AskedOutOfReach ==
  ASSUME NEW row \in JobRows, NEW loaded \in JobRows, row.state \in {"pending", "running"},
         row.lock # "expired", row.state = "pending" => ~row.due, loaded.state # "absent"
  PROVE  LET result == AskedRow(row, loaded)
         IN  /\ result.state \in {"pending", "running"} /\ result.lock # "expired"
             /\ result.state = "pending" => ~result.due
BY DEF AskedRow, RequeuedRow, Flush, Written, JobRows

\* Requests that arrive at any time, workers that are killed and threads that die
\* never have two updates of a trip run side by side, for any number of photos
\* and threads, when no handler outlives its lock and no run its delay.
THEOREM OneUpdate ==
  ASSUME Given, LockOutlivesHandlers, DelayOutlivesRun
  PROVE  Spec => []OneUpdateAtATime
<1>1. Init => UpdatesKeptApart
  BY DEF Init, UpdatesKeptApart, OneUpdateAtATime, Updating, UpdatePCs
<1>2. TypeOK /\ UpdatesKeptApart /\ [Next]_vars => UpdatesKeptApart'
  <2> SUFFICES ASSUME TypeOK, UpdatesKeptApart, [Next]_vars PROVE UpdatesKeptApart'
    OBVIOUS
  <2>a. ASSUME UNCHANGED job, \A v \in Workers : Updating(v)' => Updating(v) PROVE UpdatesKeptApart'
    BY <2>a DEF UpdatesKeptApart, OneUpdateAtATime, OutOfReach
  <2>1. ASSUME NEW w \in Workers, AskCommit(w) PROVE UpdatesKeptApart'
    <3>1. \A v \in Workers : Updating(v)' => Updating(v)
      BY <2>1 DEF AskCommit, Goto, TypeOK, Updating, UpdatePCs
    <3>2. CASE \E v \in Workers : Updating(v)
      <4>1. OutOfReach /\ seen[w].state # "absent" /\ seen[w] \in JobRows /\ job \in JobRows
        BY <2>1, <3>2 DEF AskCommit, KeyConflict, UpdatesKeptApart, OutOfReach, TypeOK
      <4>2. OutOfReach'
        BY <2>1, <4>1, AskedOutOfReach DEF AskCommit, OutOfReach
      <4> QED BY <3>1, <4>2 DEF UpdatesKeptApart, OneUpdateAtATime
    <3>3. CASE ~\E v \in Workers : Updating(v)
      BY <3>1, <3>3 DEF UpdatesKeptApart, OneUpdateAtATime
    <3> QED BY <3>2, <3>3
  <2>2. ASSUME NEW w \in Workers, Claim(w) PROVE UpdatesKeptApart'
    <3>1. \A v \in Workers : ~Updating(v)
      BY <2>2 DEF Claim, Eligible, UpdatesKeptApart, OutOfReach
    <3>2. \A v \in Workers : Updating(v)' => v = w
      BY <2>2, <3>1 DEF Claim, Goto, TypeOK, Updating
    <3>3. OutOfReach'
      BY <2>2 DEF Claim, ClaimedRow, OutOfReach, TypeOK, JobRows
    <3> QED BY <3>2, <3>3 DEF UpdatesKeptApart, OneUpdateAtATime
  <2>3. ASSUME NEW w \in Workers, CompleteCommit(w) \/ FailCommit(w) PROVE UpdatesKeptApart'
    <3>1. Updating(w) /\ pc' = [pc EXCEPT ![w] = "idle"]
      BY <2>3 DEF CompleteCommit, FailCommit, Goto, Updating, UpdatePCs
    <3>2. \A v \in Workers : ~Updating(v)'
      BY <3>1 DEF UpdatesKeptApart, OneUpdateAtATime, Updating, UpdatePCs, TypeOK
    <3> QED BY <3>2 DEF UpdatesKeptApart, OneUpdateAtATime
  <2>4. ASSUME NEW w \in Workers,
               Check(w) \/ LoadPoints(w) \/ CommitRun(w) \/ CompleteLoad(w) \/ FailLoad(w) \/ Fault(w)
        PROVE  UpdatesKeptApart'
    BY <2>4, <2>a DEF Check, LoadPoints, CommitRun, CompleteLoad, FailLoad, Fault, Goto, TypeOK, Updating, UpdatePCs
  <2>5. ASSUME NEW w \in Workers,
               \/ \E p \in Photos : AskLoad(w, p)
               \/ AskConflict(w) \/ AskFault(w) \/ ThreadDies(w) \/ Crash(w) \/ Restart(w)
        PROVE  UpdatesKeptApart'
    BY <2>5, <2>a
       DEF AskLoad, AskConflict, AskFault, LosePhoto, ThreadDies, Crash, Restart, Goto, TypeOK, Updating, UpdatePCs
  <2>6. ASSUME BecomeDue \/ LockExpires PROVE UpdatesKeptApart'
    BY <2>6 DEF BecomeDue, LockExpires, UpdatesKeptApart, OneUpdateAtATime, Updating
  <2>7. ASSUME NEW p \in Photos, Upload(p) PROVE UpdatesKeptApart'
    BY <2>7, <2>a DEF Upload, Updating
  <2>8. CASE UNCHANGED vars
    BY <2>8, <2>a DEF vars, Updating
  <2> QED BY <2>1, <2>2, <2>3, <2>4, <2>5, <2>6, <2>7, <2>8 DEF Next, WorkerStep
<1>3. UpdatesKeptApart => OneUpdateAtATime
  BY DEF UpdatesKeptApart
<1> QED BY <1>1, <1>2, <1>3, TypeCorrect, PTL DEF Spec

-----------------------------------------------------------------------------
(* With one thread, whatever the delay and the lock timeout are.           *)

\* What the thread knows of the row and of the photos at each of its steps.
ThreadKnows(w) ==
  /\ pc[w] = "asking" => seen[w].state = job.state /\ seen[w].attempts = job.attempts
  /\ Updating(w) => job.state = "running" /\ job.attempts = attempt[w]
  /\ pc[w] = "placing" => points[w] = Ready
  /\ pc[w] \in {"reporting", "completing"} => Ready \subseteq placed
  /\ pc[w] \in {"completing", "failing"} => seen[w].state = "running" /\ seen[w].attempts = job.attempts
  /\ ~Updating(w) => NoPhotoForgotten

\* A request puts the job in the queue, with all its attempts, or moves a run
\* that was lost with its worker.
LEMMA AskedIsQueued ==
  ASSUME NEW row \in JobRows, NEW loaded \in JobRows,
         loaded.state = row.state, loaded.attempts = row.attempts
  PROVE  LET result == AskedRow(row, loaded)
         IN  result.state = "running" \/ (result.state = "pending" /\ result.attempts = 0)
BY DEF AskedRow, DelayedRow, NewRow, RequeuedRow, Flush, Written, JobRows

\* A run that is reported as done has placed every photo, or is asked for again.
LEMMA ReportedIsDone ==
  ASSUME NEW row \in JobRows, NEW loaded \in JobRows, row.state = "running",
         loaded.state = "running", loaded.attempts = row.attempts
  PROVE  LET result == CompletedRow(row, loaded, TRUE)
         IN  result.state = "succeeded" \/ (result.state = "pending" /\ result.attempts = 0)
BY DEF CompletedRow, Flush, Written, JobRows

\* fail_job of an update that its worker found running.
LEMMA ReportedAsFailed ==
  ASSUME NEW row \in JobRows, NEW loaded \in JobRows, NEW final \in BOOLEAN,
         loaded.state = "running"
  PROVE  LET result == FailedRow(row, loaded, final)
         IN  result.state = (IF final THEN "failed" ELSE "pending") /\ result.attempts = row.attempts
BY DEF FailedRow, FinallyFailedRow, BackedOffRow, Flush, Written, JobRows

\* What it knows stays true while it is the only thread.
LEMMA ThreadGoesOn ==
  ASSUME Given, TypeOK, TypeOK', Asking, NEW w, Workers = {w}, ThreadKnows(w), [Next]_vars
  PROVE  ThreadKnows(w)'
<1>0. /\ w \in Workers /\ job \in JobRows /\ seen[w] \in JobRows /\ job.attempts \in 0..MaxAttempts
      /\ attempt[w] \in 0..MaxAttempts /\ MaxAttempts \in Nat \ {0}
  BY DEF TypeOK, JobRows, Given
<1>1. ASSUME NEW p \in Photos, Upload(p) PROVE ThreadKnows(w)'
  <2>1. Ready' = Ready /\ UNCHANGED <<job, placed, pc, task, attempt, seen, points>>
    BY <1>1 DEF Upload, Ready, TypeOK, session
  <2> QED BY <2>1 DEF ThreadKnows, NoPhotoForgotten, Updating
<1>2. ASSUME NEW p \in Photos, AskLoad(w, p) PROVE ThreadKnows(w)'
  <2>1. pc[w] = "idle" /\ pc'[w] = "asking" /\ seen'[w] = job /\ UNCHANGED <<job, photo, placed>>
    BY <1>0, <1>2 DEF AskLoad, Goto, TypeOK
  <2>2. NoPhotoForgotten
    BY <2>1 DEF ThreadKnows, Updating, UpdatePCs
  <2> QED BY <2>1, <2>2 DEF ThreadKnows, NoPhotoForgotten, Ready, Updating, UpdatePCs
<1>3. CASE AskCommit(w)
  <2>1. pc'[w] = "idle" /\ job' = AskedRow(job, seen[w])
    BY <1>0, <1>3 DEF AskCommit, Goto, TypeOK
  <2>2. job'.state = "running" \/ (job'.state = "pending" /\ job'.attempts = 0)
    BY <1>0, <1>3, <2>1, AskedIsQueued DEF ThreadKnows, AskCommit
  <2> QED BY <1>0, <2>1, <2>2 DEF ThreadKnows, NoPhotoForgotten, Updating, UpdatePCs
<1>4. CASE AskConflict(w)
  BY <1>4 DEF AskConflict, KeyConflict, ThreadKnows
<1>5. CASE Claim(w)
  <2>1. pc'[w] = "checking" /\ job' = ClaimedRow(job) /\ attempt'[w] = job.attempts + 1
    BY <1>0, <1>5 DEF Claim, Goto, TypeOK
  <2>2. job'.state = "running" /\ job'.attempts = job.attempts + 1
    BY <1>0, <2>1 DEF ClaimedRow, JobRows
  <2> QED BY <2>1, <2>2 DEF ThreadKnows, Updating, UpdatePCs
<1>6. CASE Check(w) \/ LoadPoints(w) \/ CommitRun(w) \/ CompleteLoad(w) \/ FailLoad(w)
  <2>1. Updating(w) /\ UNCHANGED <<job, photo, attempt>>
    BY <1>6 DEF Check, LoadPoints, CommitRun, CompleteLoad, FailLoad, session, Updating, UpdatePCs
  <2>2. job.state = "running" /\ job.attempts = attempt[w] /\ Ready' = Ready
    BY <2>1 DEF ThreadKnows, Ready
  <2>3. CASE Check(w)
    BY <1>0, <2>1, <2>2, <2>3 DEF Check, Goto, TypeOK, ThreadKnows, Updating, UpdatePCs
  <2>4. CASE LoadPoints(w)
    BY <1>0, <2>1, <2>2, <2>4 DEF LoadPoints, Goto, TypeOK, ThreadKnows, Updating, UpdatePCs
  <2>5. CASE CommitRun(w)
    BY <1>0, <2>1, <2>2, <2>5 DEF CommitRun, Goto, TypeOK, ThreadKnows, Updating, UpdatePCs
  <2>6. CASE CompleteLoad(w)
    BY <1>0, <2>1, <2>2, <2>6 DEF CompleteLoad, Goto, TypeOK, ThreadKnows, Updating, UpdatePCs
  <2>7. CASE FailLoad(w)
    BY <1>0, <2>1, <2>2, <2>7 DEF FailLoad, Goto, TypeOK, ThreadKnows, Updating, UpdatePCs
  <2> QED BY <1>6, <2>3, <2>4, <2>5, <2>6, <2>7
<1>7. CASE CompleteCommit(w)
  <2>1. pc'[w] = "idle" /\ job' = CompletedRow(job, seen[w], TRUE) /\ UNCHANGED <<photo, placed>>
    BY <1>0, <1>7 DEF CompleteCommit, Goto, TypeOK
  <2>2. job'.state = "succeeded" \/ (job'.state = "pending" /\ job'.attempts = 0)
    BY <1>0, <1>7, <2>1, ReportedIsDone DEF ThreadKnows, CompleteCommit, Updating, UpdatePCs
  <2>3. Ready' \subseteq placed'
    BY <1>7, <2>1 DEF ThreadKnows, CompleteCommit, Ready
  <2> QED BY <2>1, <2>3 DEF ThreadKnows, NoPhotoForgotten, Updating, UpdatePCs
<1>8. CASE FailCommit(w)
  <2> DEFINE final == IsFinalFailure(attempt[w], MaxAttempts, TRUE)
  <2>1. pc'[w] = "idle" /\ job' = FailedRow(job, seen[w], final)
    BY <1>0, <1>8 DEF FailCommit, Goto, TypeOK
  <2>2. final \in BOOLEAN /\ (final <=> attempt[w] >= MaxAttempts)
    BY DEF IsFinalFailure
  <2>3. seen[w].state = "running" /\ job.attempts = attempt[w]
    BY <1>8 DEF FailCommit, ThreadKnows, Updating, UpdatePCs
  <2> HIDE DEF final
  <2>4. job'.state = (IF final THEN "failed" ELSE "pending") /\ job'.attempts = job.attempts
    BY <1>0, <2>1, <2>2, <2>3, ReportedAsFailed
  <2>5. NoPhotoForgotten'
    BY <1>0, <2>2, <2>3, <2>4 DEF NoPhotoForgotten
  <2> QED BY <2>1, <2>5 DEF ThreadKnows, Updating, UpdatePCs
<1>9. CASE Fault(w) \/ AskFault(w) \/ ThreadDies(w) \/ Crash(w) \/ Restart(w)
  <2>1. /\ pc'[w] \in {"raised", "dead", "down", "idle"} /\ UNCHANGED <<job, placed>>
        /\ pc'[w] = "raised" => Updating(w) /\ UNCHANGED <<photo, attempt>>
    BY <1>0, <1>9 DEF Fault, AskFault, LosePhoto, ThreadDies, Crash, Restart, Goto, TypeOK, session
  <2>2. Ready' = Ready
    BY <1>0, <1>9 DEF Fault, AskFault, LosePhoto, ThreadDies, Crash, Restart, Ready, Asking, TypeOK
  <2>3. NoPhotoForgotten
    BY DEF ThreadKnows, NoPhotoForgotten
  <2>4. NoPhotoForgotten'
    BY <2>1, <2>2, <2>3 DEF NoPhotoForgotten
  <2> QED BY <2>1, <2>4 DEF ThreadKnows, Updating, UpdatePCs
<1>10. CASE BecomeDue \/ LockExpires
  <2>1. /\ UNCHANGED <<photo, placed, pc, task, attempt, seen, points>>
        /\ job'.state = job.state /\ job'.attempts = job.attempts
    BY <1>0, <1>10 DEF BecomeDue, LockExpires, session, JobRows
  <2>2. Ready' = Ready
    BY <2>1 DEF Ready
  <2> QED BY <2>1, <2>2 DEF ThreadKnows, NoPhotoForgotten, Updating
<1>11. CASE UNCHANGED vars
  BY <1>11 DEF vars, ThreadKnows, NoPhotoForgotten, Updating, Ready
<1> QED
  BY <1>1, <1>2, <1>3, <1>4, <1>5, <1>6, <1>7, <1>8, <1>9, <1>10, <1>11 DEF Next, WorkerStep

\* What the only thread knows, as an invariant.
THEOREM OneThread ==
  ASSUME Given, NEW one, Workers = {one}
  PROVE  Spec => [](TypeOK /\ Asking /\ ThreadKnows(one))
<1>1. Init => ThreadKnows(one)
  BY DEF Init, ThreadKnows, NoPhotoForgotten, Ready, Updating, UpdatePCs
<1>2. TypeOK /\ TypeOK' /\ Asking /\ ThreadKnows(one) /\ [Next]_vars => ThreadKnows(one)'
  BY ThreadGoesOn
<1> QED BY <1>1, <1>2, TypeCorrect, PTL DEF Spec

\* With one thread no READY photo is left out of the story with the update
\* succeeded, and none of its attempts is wasted: neither the delay nor the lock
\* timeout matters, only that nobody else asks while the thread runs.
THEOREM NothingForgotten ==
  ASSUME Given, NEW one, Workers = {one}
  PROVE  Spec => []NoPhotoForgotten
<1>1. ThreadKnows(one) => NoPhotoForgotten
  BY DEF ThreadKnows, NoPhotoForgotten
<1> QED BY <1>1, OneThread, PTL
==============================================================================
