----------------------------- MODULE RetryQueue -----------------------------
(***************************************************************************)
(* What the job queue promises to those who enqueue jobs, when one bot     *)
(* process serves it: only the columns status and attempt, no workers, no  *)
(* locks, no timeouts.  A job is started within its budget, goes back to   *)
(* the queue only while retries remain, is given up only when none do,     *)
(* and, once given up, at most completes late.                             *)
(***************************************************************************)
EXTENDS Naturals

CONSTANTS Jobs, MaxRetries

VARIABLES status, attempt

vars == <<status, attempt>>

Limit(j) == IF MaxRetries[j] = 0 THEN 1 ELSE MaxRetries[j]

Started == {j \in Jobs : attempt[j] > 0}

Init == /\ status = [j \in Jobs |-> "absent"]
        /\ attempt = [j \in Jobs |-> 0]

Submit(j) == /\ status[j] = "absent"
             /\ status' = [status EXCEPT ![j] = "pending"]
             /\ UNCHANGED attempt

Begin(j) == /\ status[j] = "pending"
            /\ attempt[j] < Limit(j)
            /\ status' = [status EXCEPT ![j] = "running"]
            /\ attempt' = [attempt EXCEPT ![j] = @ + 1]

Finish(j) == /\ j \in Started
             /\ status' = [status EXCEPT ![j] = "completed"]
             /\ UNCHANGED attempt

\* Several jobs at once: the reaper's statements change many rows.
Retry(S) == /\ \A j \in S : /\ j \in Started
                            /\ status[j] # "failed"
                            /\ attempt[j] < MaxRetries[j]
            /\ status' = [j \in Jobs |-> IF j \in S THEN "pending" ELSE status[j]]
            /\ UNCHANGED attempt

Abandon(S) == /\ \A j \in S : j \in Started /\ attempt[j] >= MaxRetries[j]
              /\ status' = [j \in Jobs |-> IF j \in S THEN "failed" ELSE status[j]]
              /\ UNCHANGED attempt

Next == \/ \E j \in Jobs : Submit(j) \/ Begin(j) \/ Finish(j)
        \/ \E S \in SUBSET Jobs : Retry(S) \/ Abandon(S)

Spec == Init /\ [][Next]_vars
=============================================================================
