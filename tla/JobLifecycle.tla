----------------------------- MODULE JobLifecycle -----------------------------
(***************************************************************************)
(* What the queue promises of one job, whoever executes it: it is executed *)
(* by one worker at a time, an execution that is cut short may be started  *)
(* again, and an outcome is final.  ProcessingJobs implements this when    *)
(* handlers end within the lock timeout.                                   *)
(***************************************************************************)
CONSTANTS Jobs, Workers

VARIABLES
  phase,  \* how far each job is
  holder  \* the set holding the worker that executes it, if one does

lifecycleVars == <<phase, holder>>

Init ==
  /\ phase = [j \in Jobs |-> "absent"]
  /\ holder = [j \in Jobs |-> {}]

Submit(j) ==
  /\ phase[j] = "absent"
  /\ phase' = [phase EXCEPT ![j] = "pending"]
  /\ UNCHANGED holder

\* A worker starts a waiting job, or one whose worker was lost.
Start(j, w) ==
  /\ phase[j] \in {"pending", "running"}
  /\ holder[j] = {}
  /\ \A k \in Jobs : w \notin holder[k]
  /\ phase' = [phase EXCEPT ![j] = "running"]
  /\ holder' = [holder EXCEPT ![j] = {w}]

\* The worker reports: done, failed for good, or to be tried again.
Report(j) ==
  /\ phase[j] = "running"
  /\ holder[j] # {}
  /\ \E outcome \in {"pending", "succeeded", "failed"} :
       phase' = [phase EXCEPT ![j] = outcome]
  /\ holder' = [holder EXCEPT ![j] = {}]

\* The worker is lost without a report.
Lose(j) ==
  /\ holder[j] # {}
  /\ holder' = [holder EXCEPT ![j] = {}]
  /\ UNCHANGED phase

Next ==
  \/ \E j \in Jobs : Submit(j)
  \/ \E j \in Jobs, w \in Workers : Start(j, w)
  \/ \E j \in Jobs : Report(j)
  \/ \E j \in Jobs : Lose(j)

Spec == Init /\ [][Next]_lifecycleVars
=============================================================================
