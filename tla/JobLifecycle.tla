---------------------------- MODULE JobLifecycle ----------------------------
(***************************************************************************)
(* What the download queue promises about its jobs, and nothing of how: a  *)
(* job waits, runs alone, and ends once; an ended job stays as it ended; a *)
(* job that goes back to waiting has attempts left.                        *)
(***************************************************************************)
EXTENDS Naturals

CONSTANTS Jobs, MaxAttempts

VARIABLES jobState, attempts

vars == <<jobState, attempts>>

Live == {"pending", "running"}

Init ==
  /\ jobState = [j \in Jobs |-> "none"]
  /\ attempts = [j \in Jobs |-> 0]

Move(j, from, to) ==
  /\ jobState[j] \in from
  /\ jobState' = [jobState EXCEPT ![j] = to]

\* jobs.EnqueueSQL: a new row is pending with a full budget.
Enqueue(j) == Move(j, {"none"}, "pending") /\ UNCHANGED attempts

\* The queue is single-lane: nothing is claimed while a job runs.
Claim(j) ==
  /\ \A k \in Jobs : jobState[k] # "running"
  /\ Move(j, {"pending"}, "running") /\ UNCHANGED attempts

Spend(j, most) ==
  \E n \in {attempts[j], attempts[j] + 1} :
    /\ n <= most /\ attempts' = [attempts EXCEPT ![j] = n]

Requeue(j) == Move(j, {"running"}, "pending") /\ Spend(j, MaxAttempts - 1)
Done(j)    == Move(j, {"running"}, "done") /\ UNCHANGED attempts
Fail(j)    == Move(j, {"running"}, "failed") /\ Spend(j, MaxAttempts)
Cancel(j)  == Move(j, Live, "canceled") /\ UNCHANGED attempts

\* A boot puts back what the last process left running.
Recover ==
  /\ jobState' = [j \in Jobs |-> IF jobState[j] = "running" THEN "pending" ELSE jobState[j]]
  /\ UNCHANGED attempts

\* Deleting videos deletes their jobs.
Drop ==
  /\ \E S \in SUBSET {j \in Jobs : jobState[j] # "none"} :
       jobState' = [j \in Jobs |-> IF j \in S THEN "gone" ELSE jobState[j]]
  /\ UNCHANGED attempts

Next ==
  \/ \E j \in Jobs :
       Enqueue(j) \/ Claim(j) \/ Requeue(j) \/ Done(j) \/ Fail(j) \/ Cancel(j)
  \/ Recover \/ Drop

Spec == Init /\ [][Next]_vars

=============================================================================
