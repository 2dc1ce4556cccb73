------------------------------ MODULE JobQueue ------------------------------
(***************************************************************************)
(* The persistent job queue: the table staffninja_jobs, the worker loop    *)
(* of every running bot process, and the reaper each of them runs as a     *)
(* periodic task.  Each SQL statement is one step (PostgreSQL commits it   *)
(* on its own), except the claiming UPDATE, which is two: the subselect    *)
(* locks a row, the UPDATE then commits.  Everything between two awaits is *)
(* one step as well.                                                       *)
(*                                                                         *)
(* Abstracted: payload, result, error text and job_type are data; of the   *)
(* type only whether a handler is registered for it matters.  Time is      *)
(* abstracted to "started_at is older than the stale timeout" (stale).     *)
(***************************************************************************)
EXTENDS Naturals, FiniteSets

CONSTANTS Jobs,        \* rows that may be inserted (job ids)
          NoJob,       \* what a worker that holds no job holds
          MaxRetries,  \* the max_retries column of each row
          Unhandled,   \* rows whose job_type has no registered handler
          Bots,        \* bot processes that share the database
          Faults,      \* database calls that may raise
          MaxStops     \* bound: how often processes stop, in all

ASSUME JobsAssumption == /\ IsFiniteSet(Jobs)
                         /\ NoJob \notin Jobs
                         /\ MaxRetries \in [Jobs -> Nat]
                         /\ Unhandled \subseteq Jobs
ASSUME FaultsAssumption == Faults \subseteq {"claim", "complete", "fail", "reap"}
ASSUME StopsAssumption == MaxStops \in Nat

VARIABLES
  status,     \* column status, "absent" before the INSERT
  attempt,    \* column attempt
  createdAt,  \* column created_at, as the row's place in the order of INSERTs
  stale,      \* rows whose started_at lies before NOW() - timeout
  pc,         \* where each process's worker task is
  job,        \* the row that worker is about
  held,       \* Job.attempt, the copy RETURNING * gave the worker
  reaper,     \* which statement of reap_stale_jobs each process runs next
  stops,      \* how many times a process stopped (for MaxStops)
  succeeded,  \* history: rows whose handler returned at least once
  wentStale   \* history: rows that were stale at least once

table  == <<status, attempt, createdAt, stale>>
worker == <<pc, job, held>>
vars   == <<table, worker, reaper, stops, succeeded, wentStale>>

Statuses == {"absent", "pending", "running", "completed", "failed"}
Holding  == {"handling", "completing", "failing", "requeuing", "exhausting"}
PCs      == {"down", "poll", "claiming", "crashed"} \cup Holding

-----------------------------------------------------------------------------
(* Conditions of the code.  A definition whose name ends in a defect       *)
(* (OffByOne, Inclusive, ...) is a bug the code does not have; no action   *)
(* uses it, and the mutation runs put it in the place of the next one.     *)

\* attempt = attempt + 1 of the claiming UPDATE.
NextAttemptUnchanged(a) == a
NextAttempt(a) == a + 1

\* attempt < max_retries in mark_failed.
RetriesRemainOffByOne(a, max) == a + 1 < max
RetriesRemainInclusive(a, max) == a <= max
RetriesRemain(a, max) == a < max

\* A claiming UPDATE of some process holds the row's lock.
LockedNever(j) == FALSE
Locked(j) == \E b \in Bots : pc[b] = "claiming" /\ job[b] = j

\* ORDER BY created_at.
PrecedesReversed(i, j) == createdAt[i] >= createdAt[j]
Precedes(i, j) == createdAt[i] <= createdAt[j]

\* The row the subselect locks: the oldest pending one that is not locked.
Claimable == {j \in Jobs : status[j] = "pending" /\ ~Locked(j)}
IsNext(j) == j \in Claimable /\ \A k \in Claimable : Precedes(j, k)

\* Where the worker goes with a claimed row: get_handler may know none.
Dispatch(j) == IF j \in Unhandled THEN "failing" ELSE "handling"

\* The WHERE clauses of the reaper's two statements.
ReapRetriesAnyStatus(j) == j \in stale /\ attempt[j] < MaxRetries[j]
ReapRetriesIgnoringBudget(j) == status[j] = "running" /\ j \in stale
ReapRetries(j) == /\ status[j] = "running"
                  /\ j \in stale
                  /\ attempt[j] < MaxRetries[j]
ReapExhaustsNothing(j) == FALSE
ReapExhausts(j) == /\ status[j] = "running"
                   /\ j \in stale
                   /\ attempt[j] >= MaxRetries[j]

-----------------------------------------------------------------------------
(* The statements, as what they do to the table. *)

\* A statement that raised before it took effect.
NoEffect == UNCHANGED table

MarkRunning(j) == /\ status' = [status EXCEPT ![j] = "running"]
                  /\ attempt' = [attempt EXCEPT ![j] = NextAttempt(@)]
                  /\ stale' = stale \ {j}
                  /\ UNCHANGED createdAt

\* mark_completed and the two UPDATEs of mark_failed name the row by its id
\* alone: they overwrite whatever status it has, once it is not locked.
SetStatus(j, s) == /\ ~Locked(j)
                   /\ status' = [status EXCEPT ![j] = s]
                   /\ UNCHANGED <<attempt, createdAt, stale>>

\* The row's UPDATE over every row that satisfies a WHERE clause.
SetStatusWhere(S, s) ==
  /\ status' = [j \in Jobs |-> IF j \in S THEN s ELSE status[j]]
  /\ UNCHANGED <<attempt, createdAt, stale>>

\* The worker of b goes to l, keeping its row or letting go of it.
Goto(b, l) == pc' = [pc EXCEPT ![b] = l] /\ UNCHANGED <<job, held>>
Release(b, l) == /\ pc' = [pc EXCEPT ![b] = l]
                 /\ job' = [job EXCEPT ![b] = NoJob]
                 /\ held' = [held EXCEPT ![b] = 0]

-----------------------------------------------------------------------------
Init == /\ status = [j \in Jobs |-> "absent"]
        /\ attempt = [j \in Jobs |-> 0]
        /\ createdAt = [j \in Jobs |-> 0]
        /\ stale = {}
        /\ pc = [b \in Bots |-> "down"]
        /\ job = [b \in Bots |-> NoJob]
        /\ held = [b \in Bots |-> 0]
        /\ reaper = [b \in Bots |-> "down"]
        /\ stops = 0
        /\ succeeded = {}
        /\ wentStale = {}

\* queue.enqueue: from the daily backup task, or from any other caller.
Enqueue(j) ==
  /\ status[j] = "absent"
  /\ status' = [status EXCEPT ![j] = "pending"]
  /\ createdAt' = [createdAt EXCEPT ![j] =
                     1 + Cardinality({k \in Jobs : status[k] # "absent"})]
  /\ UNCHANGED <<attempt, stale, worker, reaper, stops, succeeded, wentStale>>

\* Worker._loop, queue.claim_next: the subselect locks the row.
ClaimLock(b) ==
  /\ pc[b] = "poll"
  /\ \E j \in Jobs : IsNext(j) /\ job' = [job EXCEPT ![b] = j]
  /\ pc' = [pc EXCEPT ![b] = "claiming"]
  /\ UNCHANGED <<table, held, reaper, stops, succeeded, wentStale>>

\* The UPDATE commits; RETURNING * gives the worker its copy of the row.
ClaimCommit(b) ==
  /\ pc[b] = "claiming"
  /\ MarkRunning(job[b])
  /\ held' = [held EXCEPT ![b] = NextAttempt(attempt[job[b]])]
  /\ pc' = [pc EXCEPT ![b] = Dispatch(job[b])]
  /\ UNCHANGED <<job, reaper, stops, succeeded, wentStale>>

\* claim_next raises, its UPDATE rolled back or committed unseen; the loop
\* logs it and polls again.
ClaimRaises(b) ==
  /\ "claim" \in Faults
  /\ pc[b] = "claiming"
  /\ MarkRunning(job[b]) \/ NoEffect
  /\ Release(b, "poll")
  /\ UNCHANGED <<reaper, stops, succeeded, wentStale>>

\* The handler's coroutine returns a result.
HandlerReturns(b) ==
  /\ pc[b] = "handling"
  /\ Goto(b, "completing")
  /\ succeeded' = succeeded \cup {job[b]}
  /\ UNCHANGED <<table, reaper, stops, wentStale>>

\* Where the worker goes when the handler raises: the except clause.
AfterRaise == "failing"

HandlerRaises(b) ==
  /\ pc[b] = "handling"
  /\ Goto(b, AfterRaise)
  /\ UNCHANGED <<table, reaper, stops, succeeded, wentStale>>

Complete(b) ==
  /\ pc[b] = "completing"
  /\ SetStatus(job[b], "completed")
  /\ Release(b, "poll")
  /\ UNCHANGED <<reaper, stops, succeeded, wentStale>>

\* mark_completed raises (the statement fails, its acknowledgement is lost,
\* or the result is not JSON): the same except clause fails the job.
CompleteRaises(b) ==
  /\ "complete" \in Faults
  /\ pc[b] = "completing"
  /\ SetStatus(job[b], "completed") \/ NoEffect
  /\ Goto(b, "failing")
  /\ UNCHANGED <<reaper, stops, succeeded, wentStale>>

\* mark_failed: the SELECT, and the branch on what it read.
ReadAttempt(b) ==
  /\ pc[b] = "failing"
  /\ Goto(b, IF RetriesRemain(attempt[job[b]], MaxRetries[job[b]])
             THEN "requeuing" ELSE "exhausting")
  /\ UNCHANGED <<table, reaper, stops, succeeded, wentStale>>

\* mark_failed: the UPDATE back to pending.
Requeue(b) ==
  /\ pc[b] = "requeuing"
  /\ SetStatus(job[b], "pending")
  /\ Release(b, "poll")
  /\ UNCHANGED <<reaper, stops, succeeded, wentStale>>

\* mark_failed: the UPDATE to failed.
GiveUp(b) ==
  /\ pc[b] = "exhausting"
  /\ SetStatus(job[b], "failed")
  /\ Release(b, "poll")
  /\ UNCHANGED <<reaper, stops, succeeded, wentStale>>

\* A statement of mark_failed raises.  Worker._loop does not guard _execute:
\* the exception ends the worker task, while the process lives on.
MarkFailedRaises(b) ==
  /\ "fail" \in Faults
  /\ pc[b] \in {"failing", "requeuing", "exhausting"}
  /\ \/ NoEffect
     \/ pc[b] = "requeuing" /\ SetStatus(job[b], "pending")
     \/ pc[b] = "exhausting" /\ SetStatus(job[b], "failed")
  /\ Release(b, "crashed")
  /\ UNCHANGED <<reaper, stops, succeeded, wentStale>>

\* reap_stale_jobs, first statement.
ReapToPending(b) ==
  /\ reaper[b] = "retry"
  /\ SetStatusWhere({j \in Jobs : ReapRetries(j)}, "pending")
  /\ reaper' = [reaper EXCEPT ![b] = "exhaust"]
  /\ UNCHANGED <<worker, stops, succeeded, wentStale>>

\* reap_stale_jobs, second statement.
ReapToFailed(b) ==
  /\ reaper[b] = "exhaust"
  /\ SetStatusWhere({j \in Jobs : ReapExhausts(j)}, "failed")
  /\ reaper' = [reaper EXCEPT ![b] = "retry"]
  /\ UNCHANGED <<worker, stops, succeeded, wentStale>>

\* Either statement raises; Scheduler._run_periodic logs it and calls
\* reap_stale_jobs from its start after the interval.
ReapRaises(b) ==
  /\ "reap" \in Faults
  /\ \/ /\ reaper[b] = "retry"
        /\ \/ SetStatusWhere({j \in Jobs : ReapRetries(j)}, "pending")
           \/ NoEffect
     \/ /\ reaper[b] = "exhaust"
        /\ \/ SetStatusWhere({j \in Jobs : ReapExhausts(j)}, "failed")
           \/ NoEffect
  /\ reaper' = [reaper EXCEPT ![b] = "retry"]
  /\ UNCHANGED <<worker, stops, succeeded, wentStale>>

\* The stale timeout of a running row passes.
Age(j) ==
  /\ status[j] = "running"
  /\ j \notin stale
  /\ stale' = stale \cup {j}
  /\ wentStale' = wentStale \cup {j}
  /\ UNCHANGED <<status, attempt, createdAt, worker, reaper, stops, succeeded>>

\* on_ready of a new process: Scheduler.start creates both tasks.
Start(b) ==
  /\ reaper[b] = "down"
  /\ pc' = [pc EXCEPT ![b] = "poll"]
  /\ reaper' = [reaper EXCEPT ![b] = "retry"]
  /\ UNCHANGED <<table, job, held, stops, succeeded, wentStale>>

\* The process is killed or shut down.  shutdown and Worker.stop only cancel
\* the tasks, and no handler catches a cancellation: what the worker was
\* about stays as it is in the table; a lock goes with the connection.
Stop(b) ==
  /\ reaper[b] # "down"
  /\ stops < MaxStops
  /\ stops' = stops + 1
  /\ Release(b, "down")
  /\ reaper' = [reaper EXCEPT ![b] = "down"]
  /\ UNCHANGED <<table, succeeded, wentStale>>

-----------------------------------------------------------------------------
WorkerStep(b) == \/ ClaimLock(b) \/ ClaimCommit(b) \/ ClaimRaises(b)
                 \/ HandlerReturns(b) \/ HandlerRaises(b)
                 \/ Complete(b) \/ CompleteRaises(b)
                 \/ ReadAttempt(b) \/ Requeue(b) \/ GiveUp(b)
                 \/ MarkFailedRaises(b)

ReaperStep(b) == ReapToPending(b) \/ ReapToFailed(b) \/ ReapRaises(b)

Next == \/ \E j \in Jobs : Enqueue(j) \/ Age(j)
        \/ \E b \in Bots : WorkerStep(b) \/ ReaperStep(b) \/ Start(b) \/ Stop(b)

Spec == Init /\ [][Next]_vars

(* Fairness.  The event loop runs every ready task, so a task that can     *)
(* step does (WF on the worker); a handler ends, one way or the other; a   *)
(* stopped process is started again; time passes.  A database call may     *)
(* raise, but not for ever: the claim and the reaper's statements, which   *)
(* the code repeats after a failure, are strongly fair.                    *)
Fairness ==
  /\ \A j \in Jobs : WF_vars(Age(j))
  /\ \A b \in Bots : /\ WF_vars(WorkerStep(b))
                     /\ SF_vars(ClaimCommit(b))
                     /\ SF_vars(ReapToPending(b))
                     /\ SF_vars(ReapToFailed(b))
                     /\ WF_vars(Start(b))

FairSpec == Spec /\ Fairness

-----------------------------------------------------------------------------
(* Properties *)

TypeOK ==
  /\ status \in [Jobs -> Statuses]
  /\ attempt \in [Jobs -> Nat]
  /\ createdAt \in [Jobs -> Nat]
  /\ stale \subseteq Jobs
  /\ pc \in [Bots -> PCs]
  /\ job \in [Bots -> Jobs \cup {NoJob}]
  /\ held \in [Bots -> Nat]
  /\ reaper \in [Bots -> {"down", "retry", "exhaust"}]
  /\ stops \in 0..MaxStops
  /\ succeeded \subseteq Jobs
  /\ wentStale \subseteq Jobs

Holds(b, j) == pc[b] \in Holding /\ job[b] = j

\* No attempt of a job is executed twice: workers that execute the same row
\* at the same time do so for different attempts.  Claims of several bots
\* race for one row, and SKIP LOCKED is what keeps them apart.
OneExecutionPerAttempt ==
  \A b, c \in Bots : \A j \in Jobs :
    b # c /\ Holds(b, j) /\ Holds(c, j) => held[b] # held[c]

\* Two workers execute one row at the same time only after the row's stale
\* timeout passed: a claim, a retry or a lost acknowledgement alone never
\* hands out a row that a live worker has.
ExclusiveUntilStale ==
  \A b, c \in Bots : \A j \in Jobs :
    b # c /\ Holds(b, j) /\ Holds(c, j) => j \in wentStale

\* A job is given up only when its retries are used up, whichever of
\* mark_failed and the reaper does it, and however the two interleave.
FailedOnlyWhenExhausted ==
  \A j \in Jobs : status[j] = "failed" => attempt[j] >= MaxRetries[j]

\* A job is reported completed only if its handler returned: none of the
\* failure paths ends in mark_completed.
CompletedOnlyIfHandled ==
  \A j \in Jobs : status[j] = "completed" => j \in succeeded

\* How often a row may be started: once at least, since claim_next does not
\* look at max_retries.
Budget(j) == IF MaxRetries[j] = 0 THEN 1 ELSE MaxRetries[j]

\* One bot starts a job at most Budget times, through retries, reaping,
\* restarts and lost acknowledgements.
AttemptsWithinBudget == \A j \in Jobs : attempt[j] <= Budget(j)

\* With several bots the retry decision of mark_failed may be late, and a
\* job may be started more often: at most once more for each further bot.
RetryOverrunBounded ==
  \A j \in Jobs : attempt[j] + 1 <= Budget(j) + Cardinality(Bots)

\* First attempts are made in the order of the INSERTs (one bot): no failure
\* of a claim and no retry lets a younger job overtake one never started.
FirstAttemptsInOrder ==
  \A i, j \in Jobs :
    /\ status[i] # "absent" /\ status[j] # "absent"
    /\ createdAt[i] < createdAt[j]
    /\ attempt[j] > 0
    => attempt[i] > 0

\* What mark_failed's docstring promises: a job goes back to pending only
\* while retries remain.
RequeueOnlyIfRetriesRemain ==
  [][\A j \in Jobs : status[j] \notin {"absent", "pending"} /\ status'[j] = "pending"
                     => attempt[j] < MaxRetries[j]]_vars

\* A completed job stays completed (one bot, no lost acknowledgement of
\* mark_completed): neither the reaper nor a restart runs it again.
CompletedIsFinal ==
  [][\A j \in Jobs : status[j] = "completed" => status'[j] = "completed"]_vars

\* The queue as its users see it: the table's status and attempt, no workers.
Contract == INSTANCE RetryQueue WITH Jobs <- Jobs, MaxRetries <- MaxRetries,
                                     status <- status, attempt <- attempt

\* Every step of the queue is one that the contract allows (one bot).
ImplementsContract == Contract!Spec

\* What the worker's docstring promises: it dispatches pending jobs and marks
\* them completed or failed.
Ends(j) == status[j] \in {"completed", "failed"}
EveryJobEnds == \A j \in Jobs : status[j] = "pending" ~> Ends(j)

\* It keeps that promise while its own task lives: no claim that was lost, no
\* stopped process and no failing statement strands a job, as long as no
\* mark_failed raises.
JobsEndWhileWorkerLives ==
  \A j \in Jobs : status[j] = "pending" ~> Ends(j) \/ \E b \in Bots : pc[b] = "crashed"

\* A row that is running while no worker executes it leaves that status: as
\* long as the process lives the reaper finds it, even where the worker died.
OrphansLeaveRunning ==
  \A j \in Jobs : (status[j] = "running" /\ \A b \in Bots : ~Holds(b, j))
                  ~> status[j] # "running"
=============================================================================
