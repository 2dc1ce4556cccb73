--------------------------- MODULE JobQueueProofs ---------------------------
(***************************************************************************)
(* Proofs about the job queue, for every set of rows, bots and faults.     *)
(* Base is the type invariant with the one fact that makes it inductive;   *)
(* each further invariant adds its own strengthening and rests on Base.    *)
(* A queue that one bot process serves has more: a retry decision of       *)
(* mark_failed cannot be late there, and the queue implements RetryQueue.  *)
(***************************************************************************)
EXTENDS JobQueue, FiniteSetTheorems, TLAPS

\* A worker that is about a row has one.
Owning(b) == pc[b] = "claiming" \/ pc[b] \in Holding
OwnersHaveRows == \A b \in Bots : Owning(b) => job[b] \in Jobs

Base == TypeOK /\ OwnersHaveRows

\* An empty table and stopped processes are well typed.
LEMMA InitBase == Init => Base
  BY StopsAssumption
  DEF Init, Base, TypeOK, OwnersHaveRows, Owning, Holding, PCs, Statuses

\* An INSERT numbers the row with a natural number.
LEMMA InsertOrderIsNat ==
  1 + Cardinality({k \in Jobs : status[k] # "absent"}) \in Nat
<1>1. IsFiniteSet({k \in Jobs : status[k] # "absent"})
  BY FS_Subset, JobsAssumption
<1>2. Cardinality({k \in Jobs : status[k] # "absent"}) \in Nat
  BY <1>1, FS_CardinalityType
<1> QED
  BY <1>2

\* One step keeps the types, and a worker's row with it.
LEMMA BaseStep == Base /\ [Next]_vars => Base'
<1> SUFFICES ASSUME Base, [Next]_vars PROVE Base'
  OBVIOUS
<1> USE DEF Base, TypeOK, OwnersHaveRows, Owning, Holding, PCs, Statuses
<1>1. ASSUME NEW j \in Jobs, Enqueue(j) PROVE Base'
  BY <1>1, InsertOrderIsNat DEF Enqueue, worker
<1>2. ASSUME NEW j \in Jobs, Age(j) PROVE Base'
  BY <1>2 DEF Age, worker
<1>3. ASSUME NEW b \in Bots, ClaimLock(b) PROVE Base'
  BY <1>3 DEF ClaimLock, table
<1>4. ASSUME NEW b \in Bots, ClaimCommit(b) PROVE Base'
  <2>1. job[b] \in Jobs /\ attempt[job[b]] + 1 \in Nat
    BY <1>4 DEF ClaimCommit
  <2> QED
    BY <1>4, <2>1 DEF ClaimCommit, MarkRunning, NextAttempt, Dispatch
<1>5. ASSUME NEW b \in Bots, ClaimRaises(b) PROVE Base'
  <2>1. job[b] \in Jobs
    BY <1>5 DEF ClaimRaises
  <2>2. CASE MarkRunning(job[b])
    BY <1>5, <2>1, <2>2 DEF ClaimRaises, MarkRunning, NextAttempt, Release
  <2>3. CASE NoEffect
    BY <1>5, <2>3 DEF ClaimRaises, NoEffect, table, Release
  <2> QED
    BY <1>5, <2>2, <2>3 DEF ClaimRaises
<1>6. ASSUME NEW b \in Bots, HandlerReturns(b) PROVE Base'
  BY <1>6 DEF HandlerReturns, Goto, table
<1>7. ASSUME NEW b \in Bots, HandlerRaises(b) PROVE Base'
  BY <1>7 DEF HandlerRaises, AfterRaise, Goto, table
<1>8. ASSUME NEW b \in Bots, Complete(b) PROVE Base'
  BY <1>8 DEF Complete, SetStatus, Release
<1>9. ASSUME NEW b \in Bots, CompleteRaises(b) PROVE Base'
  BY <1>9 DEF CompleteRaises, SetStatus, NoEffect, table, Goto
<1>10. ASSUME NEW b \in Bots, ReadAttempt(b) PROVE Base'
  BY <1>10 DEF ReadAttempt, Goto, table
<1>11. ASSUME NEW b \in Bots, Requeue(b) PROVE Base'
  BY <1>11 DEF Requeue, SetStatus, Release
<1>12. ASSUME NEW b \in Bots, GiveUp(b) PROVE Base'
  BY <1>12 DEF GiveUp, SetStatus, Release
<1>13. ASSUME NEW b \in Bots, MarkFailedRaises(b) PROVE Base'
  BY <1>13 DEF MarkFailedRaises, SetStatus, NoEffect, table, Release
<1>14. ASSUME NEW b \in Bots, ReapToPending(b) PROVE Base'
  BY <1>14 DEF ReapToPending, SetStatusWhere, worker
<1>15. ASSUME NEW b \in Bots, ReapToFailed(b) PROVE Base'
  BY <1>15 DEF ReapToFailed, SetStatusWhere, worker
<1>16. ASSUME NEW b \in Bots, ReapRaises(b) PROVE Base'
  BY <1>16 DEF ReapRaises, SetStatusWhere, NoEffect, table, worker
<1>17. ASSUME NEW b \in Bots, Start(b) PROVE Base'
  BY <1>17 DEF Start, table
<1>18. ASSUME NEW b \in Bots, Stop(b) PROVE Base'
  BY <1>18, StopsAssumption DEF Stop, Release, table
<1>19. CASE UNCHANGED vars
  BY <1>19 DEF vars, table, worker
<1> QED
  BY <1>1, <1>2, <1>3, <1>4, <1>5, <1>6, <1>7, <1>8, <1>9, <1>10, <1>11,
     <1>12, <1>13, <1>14, <1>15, <1>16, <1>17, <1>18, <1>19
  DEF Next, WorkerStep, ReaperStep

\* Every reachable state is well typed, whatever the rows, bots and faults.
THEOREM TypeCorrect == Spec => []TypeOK
<1>1. Base => TypeOK
  BY DEF Base
<1> QED
  BY InitBase, BaseStep, <1>1, PTL DEF Spec


-----------------------------------------------------------------------------
(* What one step does to one row, and to one worker. *)

\* The statements that change the status of a row j, with what the process
\* that ran them was about.
Inserted(j) == status[j] = "absent" /\ status'[j] = "pending"
Claimed(j)  == /\ \E b \in Bots : /\ pc[b] = "claiming" /\ job[b] = j
                                /\ pc'[b] # "claiming"
               /\ status'[j] = "running"
               /\ attempt'[j] = attempt[j] + 1
Written(j, l, s) == /\ \E b \in Bots : pc[b] = l /\ job[b] = j /\ pc'[b] # l
                    /\ ~Locked(j)
                    /\ status'[j] = s
Reaped(j) == \/ ReapRetries(j) /\ status'[j] = "pending"
             \/ ReapExhausts(j) /\ status'[j] = "failed"

\* Who may change a row's status, and to what: an INSERT, the claim that has
\* the row locked, the statements that end an attempt, or the reaper.
LEMMA RowStep ==
  ASSUME Base, [Next]_vars, NEW j \in Jobs
  PROVE  \/ status'[j] = status[j]
         \/ Inserted(j) \/ Claimed(j) \/ Reaped(j)
         \/ Written(j, "completing", "completed")
         \/ Written(j, "requeuing", "pending")
         \/ Written(j, "exhausting", "failed")
<1> USE DEF Base, TypeOK
<1>1. ASSUME NEW k \in Jobs, Enqueue(k) \/ Age(k)
      PROVE  status'[j] = status[j] \/ Inserted(j)
  BY <1>1 DEF Enqueue, Age, Inserted
<1>2. ASSUME NEW b \in Bots, ClaimCommit(b) \/ ClaimRaises(b)
      PROVE  status'[j] = status[j] \/ Claimed(j)
  BY <1>2 DEF ClaimCommit, ClaimRaises, MarkRunning, NextAttempt, NoEffect,
    table, Claimed, Dispatch, Release
<1>3. ASSUME NEW b \in Bots, Complete(b) \/ CompleteRaises(b)
      PROVE  status'[j] = status[j] \/ Written(j, "completing", "completed")
  BY <1>3 DEF Complete, CompleteRaises, SetStatus, NoEffect, table, Written,
    Release, Goto
<1>4. ASSUME NEW b \in Bots, Requeue(b) \/ GiveUp(b) \/ MarkFailedRaises(b)
      PROVE  \/ status'[j] = status[j]
             \/ Written(j, "requeuing", "pending")
             \/ Written(j, "exhausting", "failed")
  BY <1>4 DEF Requeue, GiveUp, MarkFailedRaises, SetStatus, NoEffect, table,
    Written, Release
<1>5. ASSUME NEW b \in Bots, ReaperStep(b)
      PROVE  status'[j] = status[j] \/ Reaped(j)
  BY <1>5 DEF ReaperStep, ReapToPending, ReapToFailed, ReapRaises,
    SetStatusWhere, NoEffect, table, Reaped
<1>6. ASSUME NEW b \in Bots,
             \/ ClaimLock(b) \/ HandlerReturns(b) \/ HandlerRaises(b)
             \/ ReadAttempt(b) \/ Start(b) \/ Stop(b)
      PROVE  status'[j] = status[j]
  BY <1>6 DEF ClaimLock, HandlerReturns, HandlerRaises, ReadAttempt, Start,
    Stop, table
<1>7. CASE UNCHANGED vars
  BY <1>7 DEF vars, table
<1> QED
  BY <1>1, <1>2, <1>3, <1>4, <1>5, <1>6, <1>7 DEF Next, WorkerStep

\* attempt changes by a claim of the row only, and then by one.
LEMMA AttemptStep ==
  ASSUME Base, [Next]_vars, NEW j \in Jobs
  PROVE  attempt'[j] = attempt[j] \/ Claimed(j)
<1> USE DEF Base, TypeOK
<1>1. ASSUME NEW b \in Bots, ClaimCommit(b) \/ ClaimRaises(b)
      PROVE  attempt'[j] = attempt[j] \/ Claimed(j)
  BY <1>1 DEF ClaimCommit, ClaimRaises, MarkRunning, NextAttempt, NoEffect,
    table, Claimed, Dispatch, Release
<1>2. ASSUME NEW b \in Bots, WorkerStep(b), ~ClaimCommit(b), ~ClaimRaises(b)
      PROVE  attempt' = attempt
  BY <1>2 DEF WorkerStep, ClaimLock, HandlerReturns, HandlerRaises, Complete,
    CompleteRaises, ReadAttempt, Requeue, GiveUp, MarkFailedRaises, SetStatus,
    NoEffect, table
<1>3. ASSUME NEW b \in Bots, ReaperStep(b) \/ Start(b) \/ Stop(b)
      PROVE  attempt' = attempt
  BY <1>3 DEF ReaperStep, ReapToPending, ReapToFailed, ReapRaises,
    SetStatusWhere, NoEffect, table, Start, Stop
<1>4. ASSUME NEW k \in Jobs, Enqueue(k) \/ Age(k) PROVE attempt' = attempt
  BY <1>4 DEF Enqueue, Age
<1>5. CASE UNCHANGED vars
  BY <1>5 DEF vars, table
<1> QED
  BY <1>1, <1>2, <1>3, <1>4, <1>5 DEF Next

\* A worker that executes a row after a step did so before, or claimed it.
LEMMA HolderStep ==
  ASSUME Base, [Next]_vars, NEW b \in Bots, pc'[b] \in Holding
  PROVE  \/ ClaimCommit(b)
         \/ pc[b] \in Holding /\ job'[b] = job[b] /\ held'[b] = held[b]
<1> USE DEF Base, TypeOK, Holding
<1>1. ASSUME NEW c \in Bots, WorkerStep(c) \/ Start(c) \/ Stop(c), c # b
      PROVE  pc'[b] = pc[b] /\ job'[b] = job[b] /\ held'[b] = held[b]
  BY <1>1 DEF WorkerStep, ClaimLock, ClaimCommit, ClaimRaises, HandlerReturns,
    HandlerRaises, Complete, CompleteRaises, ReadAttempt, Requeue, GiveUp,
    MarkFailedRaises, Start, Stop, Goto, Release
<1>2. ASSUME WorkerStep(b), ~ClaimCommit(b)
      PROVE  pc[b] \in Holding /\ job'[b] = job[b] /\ held'[b] = held[b]
  BY <1>2 DEF WorkerStep, ClaimLock, ClaimRaises, HandlerReturns, HandlerRaises,
    AfterRaise, Complete, CompleteRaises, ReadAttempt, Requeue, GiveUp,
    MarkFailedRaises, Goto, Release
<1>3. ~Start(b) /\ ~Stop(b)
  BY DEF Start, Stop, Release
<1>4. ASSUME UNCHANGED worker
      PROVE  pc'[b] = pc[b] /\ job'[b] = job[b] /\ held'[b] = held[b]
  BY <1>4 DEF worker
<1>5. \/ UNCHANGED worker
      \/ \E c \in Bots : WorkerStep(c) \/ Start(c) \/ Stop(c)
  BY DEF Next, ReaperStep, Enqueue, Age, ReapToPending, ReapToFailed,
    ReapRaises, vars
<1> QED
  BY <1>1, <1>2, <1>3, <1>4, <1>5

\* A worker that has a row locked after a step had it before, or locked it.
LEMMA ClaimantStep ==
  ASSUME Base, [Next]_vars, NEW b \in Bots, pc'[b] = "claiming"
  PROVE  ClaimLock(b) \/ (pc[b] = "claiming" /\ job'[b] = job[b])
<1> USE DEF Base, TypeOK
<1>1. ASSUME NEW c \in Bots, WorkerStep(c) \/ Start(c) \/ Stop(c), c # b
      PROVE  pc'[b] = pc[b] /\ job'[b] = job[b]
  BY <1>1 DEF WorkerStep, ClaimLock, ClaimCommit, ClaimRaises, HandlerReturns,
    HandlerRaises, Complete, CompleteRaises, ReadAttempt, Requeue, GiveUp,
    MarkFailedRaises, Start, Stop, Goto, Release
<1>2. WorkerStep(b) => ClaimLock(b)
  BY DEF WorkerStep, ClaimCommit, Dispatch, ClaimRaises, HandlerReturns,
    HandlerRaises, AfterRaise, Complete, CompleteRaises, ReadAttempt, Requeue,
    GiveUp, MarkFailedRaises, Goto, Release
<1>3. ~Start(b) /\ ~Stop(b)
  BY DEF Start, Stop, Release
<1>4. ASSUME UNCHANGED worker PROVE pc'[b] = pc[b] /\ job'[b] = job[b]
  BY <1>4 DEF worker
<1>5. \/ UNCHANGED worker
      \/ \E c \in Bots : WorkerStep(c) \/ Start(c) \/ Stop(c)
  BY DEF Next, ReaperStep, Enqueue, Age, ReapToPending, ReapToFailed,
    ReapRaises, vars
<1> QED
  BY <1>1, <1>2, <1>3, <1>4, <1>5

\* How a worker comes to its last statement about a row.
LEMMA DecisionStep ==
  ASSUME Base, [Next]_vars, NEW b \in Bots, pc'[b] # pc[b]
  PROVE  /\ pc'[b] = "completing" => HandlerReturns(b)
         /\ pc'[b] \in {"requeuing", "exhausting"} => ReadAttempt(b)
<1> USE DEF Base, TypeOK
<1>1. ASSUME NEW c \in Bots, WorkerStep(c) \/ Start(c) \/ Stop(c), c # b
      PROVE  pc'[b] = pc[b]
  BY <1>1 DEF WorkerStep, ClaimLock, ClaimCommit, ClaimRaises, HandlerReturns,
    HandlerRaises, Complete, CompleteRaises, ReadAttempt, Requeue, GiveUp,
    MarkFailedRaises, Start, Stop, Goto, Release
<1>2. ASSUME WorkerStep(b), ~HandlerReturns(b), ~ReadAttempt(b)
      PROVE  pc'[b] \notin {"completing", "requeuing", "exhausting"}
  BY <1>2 DEF WorkerStep, ClaimLock, ClaimCommit, Dispatch, ClaimRaises,
    HandlerRaises, AfterRaise, Complete, CompleteRaises, Requeue, GiveUp,
    MarkFailedRaises, Goto, Release
<1>3. HandlerReturns(b) => pc'[b] = "completing"
  BY DEF HandlerReturns, Goto
<1>4. ReadAttempt(b) => pc'[b] \in {"requeuing", "exhausting"}
  BY DEF ReadAttempt, Goto
<1>5. Start(b) \/ Stop(b) => pc'[b] \in {"poll", "down"}
  BY DEF Start, Stop, Release
<1>6. UNCHANGED worker => pc'[b] = pc[b]
  BY DEF worker
<1>7. \/ UNCHANGED worker
      \/ \E c \in Bots : WorkerStep(c) \/ Start(c) \/ Stop(c)
  BY DEF Next, ReaperStep, Enqueue, Age, ReapToPending, ReapToFailed,
    ReapRaises, vars
<1> QED
  BY <1>1, <1>2, <1>3, <1>4, <1>5, <1>6, <1>7

-----------------------------------------------------------------------------
(* One execution per attempt.  A worker's copy of attempt is never ahead   *)
(* of the column, so the number a claim hands out is a new one.            *)

HeldBehind == \A b \in Bots : pc[b] \in Holding => held[b] <= attempt[job[b]]

AttemptInv == HeldBehind /\ OneExecutionPerAttempt

\* A claim gives its worker an attempt number that no other worker holds.
LEMMA AttemptInvStep == Base /\ AttemptInv /\ [Next]_vars => AttemptInv'
<1> SUFFICES ASSUME Base, AttemptInv, [Next]_vars PROVE AttemptInv'
  OBVIOUS
<1> USE DEF AttemptInv, HeldBehind
<1>1. \A b \in Bots : pc[b] \in Holding => job[b] \in Jobs
  BY DEF Base, OwnersHaveRows, Owning
<1>2. ASSUME NEW b \in Bots, ClaimCommit(b)
      PROVE  /\ job'[b] = job[b] /\ job[b] \in Jobs
             /\ held'[b] = attempt[job[b]] + 1
             /\ attempt'[job[b]] = attempt[job[b]] + 1
  BY <1>2 DEF Base, TypeOK, OwnersHaveRows, Owning, ClaimCommit, MarkRunning,
    NextAttempt
<1>3. \A j \in Jobs : /\ attempt[j] \in Nat /\ attempt'[j] \in Nat
                      /\ attempt'[j] >= attempt[j]
  BY AttemptStep DEF Claimed, Base, TypeOK
<1>4. \A b \in Bots : held[b] \in Nat
  BY DEF Base, TypeOK
<1>5. HeldBehind'
  <2> SUFFICES ASSUME NEW b \in Bots, pc'[b] \in Holding
               PROVE  held'[b] <= attempt'[job'[b]]
    BY DEF Holding
  <2>1. CASE ClaimCommit(b)
    BY <1>2, <1>3, <2>1
  <2>2. CASE pc[b] \in Holding /\ job'[b] = job[b] /\ held'[b] = held[b]
    BY <1>1, <1>3, <1>4, <2>2
  <2> QED
    BY HolderStep, <2>1, <2>2
<1>6. OneExecutionPerAttempt'
  <2> SUFFICES ASSUME NEW b \in Bots, NEW c \in Bots, NEW j \in Jobs, b # c,
                      pc'[b] \in Holding, pc'[c] \in Holding,
                      job'[b] = j, job'[c] = j
               PROVE  held'[b] # held'[c]
    BY DEF OneExecutionPerAttempt, Holds, Holding
  <2>1. ASSUME NEW x \in Bots, NEW y \in Bots, x # y, ClaimCommit(x),
               pc'[y] \in Holding, job'[x] = j, job'[y] = j
        PROVE  held'[x] # held'[y]
    <3>1. ~ClaimCommit(y)
      BY <2>1 DEF ClaimCommit, Base, TypeOK, Dispatch
    <3>2. pc[y] \in Holding /\ job[y] = j /\ held'[y] = held[y]
      BY <2>1, <3>1, HolderStep
    <3> QED
      BY <1>2, <1>3, <1>4, <2>1, <3>2
  <2>2. CASE ~ClaimCommit(b) /\ ~ClaimCommit(c)
    BY <2>2, HolderStep DEF OneExecutionPerAttempt, Holds
  <2> QED
    BY <2>1, <2>2
<1> QED
  BY <1>5, <1>6

\* No two workers ever execute the same attempt of a job: for any number of
\* rows, bots, stops and faults, lost acknowledgements of claims included.
THEOREM NoDoubleExecution == Spec => []OneExecutionPerAttempt
<1>1. Init => AttemptInv
  BY DEF Init, AttemptInv, HeldBehind, OneExecutionPerAttempt, Holds, Holding
<1>2. AttemptInv => OneExecutionPerAttempt
  BY DEF AttemptInv
<1> QED
  BY InitBase, BaseStep, <1>1, AttemptInvStep, <1>2, PTL DEF Spec

-----------------------------------------------------------------------------
(* Giving up.  A worker that decided to give a row up read an attempt that *)
(* had reached max_retries, and the column only grows from there.          *)

Exhausted(j) == attempt[j] >= MaxRetries[j]

GiveUpInv ==
  /\ \A b \in Bots : pc[b] = "exhausting" => Exhausted(job[b])
  /\ FailedOnlyWhenExhausted

\* The decision to give up stays right until it is carried out, since attempt
\* never decreases.
LEMMA GiveUpInvStep == Base /\ GiveUpInv /\ [Next]_vars => GiveUpInv'
<1> SUFFICES ASSUME Base, GiveUpInv, [Next]_vars PROVE GiveUpInv'
  OBVIOUS
<1> USE DEF GiveUpInv, Exhausted
<1>1. \A j \in Jobs : Exhausted(j) => Exhausted(j)'
  <2>1. \A j \in Jobs : /\ attempt[j] \in Nat /\ attempt'[j] \in Nat
                        /\ MaxRetries[j] \in Nat /\ attempt'[j] >= attempt[j]
    BY AttemptStep, JobsAssumption DEF Claimed, Base, TypeOK
  <2> QED
    BY <2>1
<1>2. ASSUME NEW b \in Bots, pc'[b] = "exhausting" PROVE Exhausted(job[b])'
  <2>1. pc[b] \in Holding /\ job'[b] = job[b] /\ job[b] \in Jobs
    BY <1>2, HolderStep
    DEF ClaimCommit, Dispatch, Base, TypeOK, OwnersHaveRows, Owning, Holding
  <2>2. CASE pc[b] = "exhausting"
    BY <1>1, <2>1, <2>2
  <2>3. CASE pc[b] # "exhausting"
    <3>1. ReadAttempt(b)
      BY <1>2, <2>3, DecisionStep
    <3>2. ~RetriesRemain(attempt[job[b]], MaxRetries[job[b]])
      BY <1>2, <3>1 DEF ReadAttempt, Goto, Base, TypeOK
    <3>3. attempt[job[b]] \in Nat /\ MaxRetries[job[b]] \in Nat
      BY <2>1, JobsAssumption DEF Base, TypeOK
    <3> QED
      BY <1>1, <2>1, <3>2, <3>3 DEF RetriesRemain
  <2> QED
    BY <2>2, <2>3
<1>3. ASSUME NEW j \in Jobs, status'[j] = "failed" PROVE Exhausted(j)'
  <2>1. CASE status[j] = "failed"
    BY <1>1, <2>1 DEF FailedOnlyWhenExhausted
  <2>2. CASE Reaped(j) \/ Written(j, "exhausting", "failed")
    BY <1>1, <1>3, <2>2 DEF Reaped, ReapRetries, ReapExhausts, Written
  <2> QED
    BY <1>3, <2>1, <2>2, RowStep DEF Inserted, Claimed, Written
<1> QED
  BY <1>2, <1>3 DEF FailedOnlyWhenExhausted

\* A job is given up only when its retries are used up, however the workers
\* and the reapers of any number of bots interleave.
THEOREM GivesUpOnlyWhenExhausted == Spec => []FailedOnlyWhenExhausted
<1>1. Init => GiveUpInv
  BY DEF Init, GiveUpInv, FailedOnlyWhenExhausted
<1>2. GiveUpInv => FailedOnlyWhenExhausted
  BY DEF GiveUpInv
<1> QED
  BY InitBase, BaseStep, <1>1, GiveUpInvStep, <1>2, PTL DEF Spec

-----------------------------------------------------------------------------
(* Completion.  A worker about to run mark_completed has seen the handler  *)
(* of its row return.                                                      *)

HandledInv ==
  /\ \A b \in Bots : pc[b] = "completing" => job[b] \in succeeded
  /\ CompletedOnlyIfHandled

\* Only a handler's return leads a worker to mark_completed.
LEMMA HandledInvStep == Base /\ HandledInv /\ [Next]_vars => HandledInv'
<1> SUFFICES ASSUME Base, HandledInv, [Next]_vars PROVE HandledInv'
  OBVIOUS
<1> USE DEF HandledInv
<1>1. succeeded \subseteq succeeded'
  BY DEF Next, vars, WorkerStep, ReaperStep, Enqueue, Age, ClaimLock,
    ClaimCommit, ClaimRaises, HandlerReturns, HandlerRaises, Complete,
    CompleteRaises, ReadAttempt, Requeue, GiveUp, MarkFailedRaises,
    ReapToPending, ReapToFailed, ReapRaises, Start, Stop
<1>2. ASSUME NEW b \in Bots, pc'[b] = "completing" PROVE job'[b] \in succeeded'
  <2>1. CASE pc[b] = "completing"
    BY <1>1, <1>2, <2>1, HolderStep DEF Holding, ClaimCommit
  <2>2. CASE pc[b] # "completing"
    BY <1>2, <2>2, DecisionStep DEF HandlerReturns, Goto
  <2> QED
    BY <2>1, <2>2
<1>3. ASSUME NEW j \in Jobs, status'[j] = "completed" PROVE j \in succeeded'
  <2>1. status[j] = "completed" \/ Written(j, "completing", "completed")
    BY <1>3, RowStep DEF Inserted, Claimed, Reaped, Written
  <2> QED
    BY <1>1, <2>1 DEF CompletedOnlyIfHandled, Written
<1> QED
  BY <1>2, <1>3 DEF CompletedOnlyIfHandled

\* A job is reported completed only after its handler returned.
THEOREM CompletesOnlyHandledJobs == Spec => []CompletedOnlyIfHandled
<1>1. Init => HandledInv
  BY DEF Init, HandledInv, CompletedOnlyIfHandled
<1>2. HandledInv => CompletedOnlyIfHandled
  BY DEF HandledInv
<1> QED
  BY InitBase, BaseStep, <1>1, HandledInvStep, <1>2, PTL DEF Spec

-----------------------------------------------------------------------------
(* Exclusion.  Until its timeout passes, a row that some worker executes   *)
(* is not pending, so no claim reaches it; while it is pending, one claim  *)
(* at most has it locked.                                                  *)

LockedIsPending == \A b \in Bots : pc[b] = "claiming" => status[job[b]] = "pending"

LockIsExclusive ==
  \A b, c \in Bots :
    pc[b] = "claiming" /\ pc[c] = "claiming" /\ job[b] = job[c] => b = c

HeldIsTaken ==
  \A b \in Bots : \A j \in Jobs :
    Holds(b, j) /\ j \notin wentStale => status[j] \in {"running", "completed"}

ExclusionInv == /\ stale \subseteq wentStale
                /\ LockedIsPending
                /\ LockIsExclusive
                /\ HeldIsTaken
                /\ ExclusiveUntilStale

\* A row that was stale once stays recorded as such.
LEMMA StaleStep ==
  Base /\ ExclusionInv /\ [Next]_vars
    => wentStale \subseteq wentStale' /\ stale' \subseteq wentStale'
  BY DEF ExclusionInv, Next, vars, table, worker, WorkerStep, ReaperStep,
    Enqueue, Age, ClaimLock, ClaimCommit, ClaimRaises, MarkRunning, NoEffect,
    HandlerReturns, HandlerRaises, Complete, CompleteRaises, SetStatus,
    SetStatusWhere, ReadAttempt, Requeue, GiveUp, MarkFailedRaises,
    ReapToPending, ReapToFailed, ReapRaises, Start, Stop

\* A locked row is pending, and locked by one claim only: SKIP LOCKED.
LEMMA LockStep ==
  Base /\ ExclusionInv /\ [Next]_vars => LockedIsPending' /\ LockIsExclusive'
<1> SUFFICES ASSUME Base, ExclusionInv, [Next]_vars
             PROVE  LockedIsPending' /\ LockIsExclusive'
  OBVIOUS
<1> USE DEF ExclusionInv
<1>1. ASSUME NEW b \in Bots, ClaimLock(b)
      PROVE  /\ job'[b] \in Jobs /\ status[job'[b]] = "pending"
             /\ ~Locked(job'[b]) /\ status' = status
  BY <1>1 DEF ClaimLock, IsNext, Claimable, Base, TypeOK, table
<1>2. ASSUME NEW b \in Bots, pc'[b] = "claiming"
      PROVE  status'[job'[b]] = "pending"
  <2>1. CASE ClaimLock(b)
    BY <1>1, <2>1
  <2>2. CASE pc[b] = "claiming" /\ job'[b] = job[b]
    <3>1. job[b] \in Jobs /\ status[job[b]] = "pending" /\ Locked(job[b])
      BY <2>2 DEF LockedIsPending, Base, OwnersHaveRows, Owning, Locked
    <3>2. ~Claimed(job[b])
      BY <1>2, <2>2 DEF Claimed, LockIsExclusive
    <3> QED
      BY <2>2, <3>1, <3>2, RowStep
      DEF Inserted, Reaped, ReapRetries, ReapExhausts, Written
  <2> QED
    BY <1>2, <2>1, <2>2, ClaimantStep
<1>3. ASSUME NEW b \in Bots, NEW c \in Bots, pc'[b] = "claiming",
             pc'[c] = "claiming", job'[b] = job'[c]
      PROVE  b = c
  <2>1. ASSUME NEW x \in Bots, NEW y \in Bots, ClaimLock(x),
               job'[x] = job'[y], pc'[y] = "claiming", x # y
        PROVE  FALSE
    <3>1. pc[y] = "claiming" /\ job'[y] = job[y]
      BY <2>1 DEF ClaimLock, Base, TypeOK
    <3> QED
      BY <1>1, <2>1, <3>1 DEF Locked
  <2> QED
    BY <1>3, <2>1, ClaimantStep DEF LockIsExclusive
<1> QED
  BY <1>2, <1>3 DEF LockedIsPending, LockIsExclusive

\* Until its timeout passes, a row that a worker executes is running and is
\* that worker's alone.
LEMMA ExclusionInvStep == Base /\ ExclusionInv /\ [Next]_vars => ExclusionInv'
<1> SUFFICES ASSUME Base, ExclusionInv, [Next]_vars PROVE ExclusionInv'
  OBVIOUS
<1>1. /\ wentStale \subseteq wentStale' /\ stale' \subseteq wentStale'
      /\ LockedIsPending' /\ LockIsExclusive'
  BY StaleStep, LockStep
<1> USE DEF ExclusionInv
<1>2. ASSUME NEW b \in Bots, ClaimCommit(b)
      PROVE  /\ job[b] \in Jobs /\ job'[b] = job[b] /\ pc[b] = "claiming"
             /\ status'[job[b]] = "running" /\ status[job[b]] = "pending"
             /\ wentStale' = wentStale
             /\ \A c \in Bots : ClaimCommit(c) => c = b
  BY <1>2 DEF ClaimCommit, MarkRunning, LockedIsPending, Base, TypeOK,
    OwnersHaveRows, Owning, Dispatch
<1>3. HeldIsTaken'
  <2> SUFFICES ASSUME NEW b \in Bots, NEW j \in Jobs, pc'[b] \in Holding,
                      job'[b] = j, j \notin wentStale'
               PROVE  status'[j] \in {"running", "completed"}
    BY DEF HeldIsTaken, Holds, Holding
  <2>1. CASE ClaimCommit(b)
    BY <1>2, <2>1
  <2>2. CASE pc[b] \in Holding /\ job[b] = j
    <3>1. j \notin wentStale /\ j \notin stale /\ Holds(b, j)
      BY <1>1, <2>2 DEF Holds
    <3>2. status[j] \in {"running", "completed"}
      BY <3>1 DEF HeldIsTaken
    <3>3. ~Written(j, "requeuing", "pending") /\ ~Written(j, "exhausting", "failed")
      <4>1. ASSUME NEW c \in Bots, pc[c] \in Holding, job[c] = j PROVE c = b
        BY <3>1, <4>1 DEF ExclusiveUntilStale, Holds
      <4>2. ASSUME Written(j, "requeuing", "pending") \/ Written(j, "exhausting", "failed")
            PROVE  FALSE
        <5>1. pc[b] \in {"requeuing", "exhausting"} /\ pc'[b] # pc[b]
          BY <4>1, <4>2 DEF Written, Holding
        <5>2. pc'[b] \in {"poll", "crashed", "down"}
          BY <5>1 DEF Base, TypeOK, Next, vars, worker, WorkerStep, ReaperStep,
            Enqueue, Age, ClaimLock, ClaimCommit, ClaimRaises, HandlerReturns,
            HandlerRaises, Complete, CompleteRaises, ReadAttempt, Requeue,
            GiveUp, MarkFailedRaises, ReapToPending, ReapToFailed, ReapRaises,
            Start, Stop, Goto, Release
        <5> QED
          BY <5>2 DEF Holding
      <4> QED
        BY <4>2
    <3> QED
      BY <3>1, <3>2, <3>3, RowStep
      DEF Inserted, Claimed, Reaped, ReapRetries, ReapExhausts, Written
  <2> QED
    BY <2>1, <2>2, HolderStep
<1>4. ExclusiveUntilStale'
  <2> SUFFICES ASSUME NEW b \in Bots, NEW c \in Bots, NEW j \in Jobs, b # c,
                      pc'[b] \in Holding, pc'[c] \in Holding,
                      job'[b] = j, job'[c] = j, j \notin wentStale'
               PROVE  FALSE
    BY DEF ExclusiveUntilStale, Holds, Holding
  <2>1. ASSUME NEW x \in Bots, NEW y \in Bots, x # y, ClaimCommit(x),
               pc'[y] \in Holding, job'[x] = j, job'[y] = j
        PROVE  FALSE
    <3>1. Holds(y, j)
      BY <1>2, <2>1, HolderStep DEF Holds
    <3> QED
      BY <1>2, <2>1, <3>1 DEF HeldIsTaken
  <2>2. CASE ~ClaimCommit(b) /\ ~ClaimCommit(c)
    BY <1>1, <2>2, HolderStep DEF ExclusiveUntilStale, Holds
  <2> QED
    BY <2>1, <2>2
<1> QED
  BY <1>1, <1>3, <1>4

\* Two workers execute one row at a time only if its stale timeout passed.
THEOREM ExclusionUntilTimeout == Spec => []ExclusiveUntilStale
<1>1. Init => ExclusionInv
  BY DEF Init, ExclusionInv, LockedIsPending, LockIsExclusive, HeldIsTaken,
    ExclusiveUntilStale, Holds, Holding
<1>2. ExclusionInv => ExclusiveUntilStale
  BY DEF ExclusionInv
<1> QED
  BY InitBase, BaseStep, <1>1, ExclusionInvStep, <1>2, PTL DEF Spec

-----------------------------------------------------------------------------
(* The overrun.  An attempt beyond the budget takes a decision to retry    *)
(* that some other worker made before the budget was used up.              *)

\* The workers that have read that retries remain and have yet to write it.
Requeuing(j) == {b \in Bots : pc[b] = "requeuing" /\ job[b] = j}

Waiting(j) == IF status[j] = "pending" THEN 1 ELSE 0

\* Attempts beyond the budget, made, waiting or decided, and the worker that
\* made the last attempt within it.
OverrunInv ==
  /\ \A j \in Jobs : status[j] = "absent" => attempt[j] = 0
  /\ \A j \in Jobs : attempt[j] >= Budget(j) =>
       (attempt[j] - Budget(j)) + Waiting(j) + Cardinality(Requeuing(j)) + 1
         <= Cardinality(Bots)

\* The budget is a positive number, and no less than max_retries.
LEMMA BudgetFacts ==
  \A j \in Jobs : /\ MaxRetries[j] \in Nat /\ Budget(j) \in Nat
                  /\ Budget(j) > 0 /\ Budget(j) >= MaxRetries[j]
  BY JobsAssumption DEF Budget

\* Nobody decides to retry once the budget is used up, nor in the step of a
\* claim.
LEMMA NoLateDecision ==
  ASSUME Base, [Next]_vars, NEW j \in Jobs,
         attempt[j] >= Budget(j) \/ attempt'[j] # attempt[j]
  PROVE  Requeuing(j)' \subseteq Requeuing(j)
<1> SUFFICES ASSUME NEW b \in Bots, pc'[b] = "requeuing", job'[b] = j
             PROVE  pc[b] = "requeuing" /\ job[b] = j
  BY DEF Requeuing
<1>1. job[b] = j
  BY HolderStep DEF Holding, ClaimCommit, Dispatch, Base, TypeOK
<1>2. CASE pc[b] # "requeuing"
  <2>1. ReadAttempt(b)
    BY <1>2, DecisionStep
  <2>2. RetriesRemain(attempt[j], MaxRetries[j]) /\ attempt' = attempt
    BY <1>1, <2>1 DEF ReadAttempt, Goto, table, Base, TypeOK
  <2>3. attempt[j] \in Nat /\ MaxRetries[j] \in Nat /\ Budget(j) \in Nat
        /\ Budget(j) >= MaxRetries[j]
    BY BudgetFacts DEF Base, TypeOK
  <2> QED
    BY <2>2, <2>3 DEF RetriesRemain
<1> QED
  BY <1>1, <1>2

\* A claim uses up the row that waits, a write of mark_failed the decision.
LEMMA OverrunInvStep ==
  ASSUME IsFiniteSet(Bots)
  PROVE  Base /\ LockedIsPending /\ OverrunInv /\ [Next]_vars => OverrunInv'
<1> SUFFICES ASSUME Base, LockedIsPending, OverrunInv, [Next]_vars PROVE OverrunInv'
  OBVIOUS
<1>1. ASSUME NEW j \in Jobs, status'[j] = "absent" PROVE attempt'[j] = 0
  <2>1. status[j] = "absent" /\ attempt[j] = 0
    BY <1>1, RowStep DEF Inserted, Claimed, Reaped, Written, OverrunInv
  <2> QED
    BY <1>1, <2>1, AttemptStep DEF Claimed
<1>2. ASSUME NEW j \in Jobs, attempt'[j] >= Budget(j)
      PROVE  (attempt'[j] - Budget(j)) + Waiting(j)' + Cardinality(Requeuing(j)') + 1
               <= Cardinality(Bots)
  <2> DEFINE R == Requeuing(j)
             C == {c \in Bots : pc'[c] # pc[c] /\ job[c] = j}
  <2>1. /\ attempt[j] \in Nat /\ attempt'[j] \in Nat /\ Budget(j) \in Nat
        /\ Budget(j) > 0 /\ Budget(j) >= MaxRetries[j] /\ MaxRetries[j] \in Nat
        /\ attempt'[j] = attempt[j] \/ attempt'[j] = attempt[j] + 1
    BY BudgetFacts, AttemptStep DEF Claimed, Base, TypeOK
  <2>2. R' \subseteq R /\ R \subseteq Bots
    BY <1>2, NoLateDecision DEF Requeuing
  <2>3. /\ IsFiniteSet(R) /\ IsFiniteSet(R') /\ Cardinality(R') <= Cardinality(R)
        /\ Cardinality(R) \in Nat /\ Cardinality(R') \in Nat /\ Cardinality(Bots) \in Nat
    BY <2>2, FS_Subset, FS_CardinalityType
  <2>4. attempt[j] >= Budget(j) =>
          (attempt[j] - Budget(j)) + Waiting(j) + Cardinality(R) + 1 <= Cardinality(Bots)
    BY DEF OverrunInv
  <2>5. Waiting(j) \in {0, 1} /\ Waiting(j)' \in {0, 1}
    BY DEF Waiting
  <2>6. CASE attempt'[j] # attempt[j]
    <3>1. PICK c \in Bots : pc[c] = "claiming" /\ job[c] = j /\ pc'[c] # "claiming"
      BY <2>6, AttemptStep DEF Claimed
    <3>2. status[j] = "pending" /\ status'[j] = "running"
      BY <2>6, <3>1, AttemptStep DEF Claimed, LockedIsPending
    <3>3. Waiting(j) = 1 /\ Waiting(j)' = 0 /\ attempt'[j] = attempt[j] + 1
      BY <2>1, <2>6, <3>2 DEF Waiting
    <3>4. CASE attempt[j] >= Budget(j)
      BY <2>1, <2>3, <2>4, <3>3, <3>4
    <3>5. CASE attempt'[j] = Budget(j)
      <4>1. R' \subseteq Bots \ {c}
        BY <2>2, <3>1 DEF Requeuing
      <4>2. /\ IsFiniteSet(Bots \ {c})
            /\ Cardinality(Bots \ {c}) = Cardinality(Bots) - 1
        BY FS_RemoveElement
      <4>3. Cardinality(R') <= Cardinality(Bots) - 1
        BY <4>1, <4>2, FS_Subset
      <4> QED
        BY <2>1, <2>3, <3>3, <3>5, <4>3
    <3> QED
      BY <1>2, <2>1, <3>3, <3>4, <3>5
  <2>7. CASE attempt'[j] = attempt[j]
    <3>1. CASE Waiting(j)' <= Waiting(j)
      BY <1>2, <2>1, <2>3, <2>4, <2>5, <2>7, <3>1
    <3>2. CASE ~(Waiting(j)' <= Waiting(j))
      <4>1. status[j] # "pending" /\ status'[j] = "pending"
            /\ Waiting(j) = 0 /\ Waiting(j)' = 1
        BY <3>2 DEF Waiting
      <4>2. ~Inserted(j) /\ ~Reaped(j) /\ ~Claimed(j)
        BY <1>2, <2>1, <2>7, <4>1
        DEF OverrunInv, Inserted, Reaped, ReapRetries, Claimed
      <4>3. Written(j, "requeuing", "pending")
        BY <4>1, <4>2, RowStep DEF Written
      <4>4. PICK c \in Bots : pc[c] = "requeuing" /\ job[c] = j /\ pc'[c] # "requeuing"
        BY <4>3 DEF Written
      <4>5. c \in R /\ R' \subseteq R \ {c}
        BY <2>2, <4>4 DEF Requeuing
      <4>6. IsFiniteSet(R \ {c}) /\ Cardinality(R \ {c}) = Cardinality(R) - 1
        BY <2>3, <4>5, FS_RemoveElement
      <4>7. Cardinality(R') <= Cardinality(R) - 1
        BY <4>5, <4>6, FS_Subset
      <4> QED
        BY <1>2, <2>1, <2>3, <2>4, <2>7, <4>1, <4>7
    <3> QED
      BY <3>1, <3>2
  <2> QED
    BY <2>6, <2>7
<1> QED
  BY <1>1, <1>2 DEF OverrunInv, Waiting, Requeuing, Budget

\* Retry decisions that other bots made in time and carry out late start a job
\* once more each at most: with n bots it is never started more than n - 1
\* times beyond its budget.
THEOREM OverrunIsBounded ==
  ASSUME IsFiniteSet(Bots)
  PROVE  Spec => []RetryOverrunBounded
<1>1. Init => OverrunInv
  BY BudgetFacts DEF Init, OverrunInv
<1>2. Init => ExclusionInv
  BY DEF Init, ExclusionInv, LockedIsPending, LockIsExclusive, HeldIsTaken,
    ExclusiveUntilStale, Holds, Holding
<1>3. ExclusionInv => LockedIsPending
  BY DEF ExclusionInv
<1>4. Base /\ OverrunInv => RetryOverrunBounded
  <2> SUFFICES ASSUME Base, OverrunInv, NEW j \in Jobs
               PROVE  attempt[j] + 1 <= Budget(j) + Cardinality(Bots)
    BY DEF RetryOverrunBounded
  <2>1. attempt[j] \in Nat /\ Budget(j) \in Nat /\ Cardinality(Bots) \in Nat
    BY BudgetFacts, FS_CardinalityType DEF Base, TypeOK
  <2>2. CASE attempt[j] < Budget(j)
    BY <2>1, <2>2
  <2>3. CASE attempt[j] >= Budget(j)
    <3>1. Cardinality(Requeuing(j)) \in Nat /\ Waiting(j) \in Nat
      BY FS_Subset, FS_CardinalityType DEF Requeuing, Waiting
    <3> QED
      BY <2>1, <2>3, <3>1 DEF OverrunInv
  <2> QED
    BY <2>1, <2>2, <2>3
<1> QED
  BY InitBase, BaseStep, <1>1, <1>2, <1>3, <1>4, ExclusionInvStep, OverrunInvStep, PTL
  DEF Spec

-----------------------------------------------------------------------------
(* One bot process *)

OneBot == \A b, c \in Bots : b = c

MayStart(j) == attempt[j] < Budget(j)
MayRetry(j) == attempt[j] < MaxRetries[j]

\* A pending row may be started once more; a worker that decided to requeue
\* its row still has retries for it; only rows that wait were never started.
SoloInv ==
  /\ \A j \in Jobs : status[j] = "pending" => MayStart(j)
  /\ \A b \in Bots : pc[b] = "requeuing" => MayRetry(job[b])
  /\ AttemptsWithinBudget
  /\ \A j \in Jobs : status[j] = "absent" => attempt[j] = 0
  /\ \A j \in Jobs : status[j] \notin {"absent", "pending"} => attempt[j] > 0
  /\ \A b \in Bots : pc[b] \in Holding => attempt[job[b]] > 0

\* With one bot nobody counts between mark_failed's SELECT and its UPDATE: the
\* decision to retry is still right when it is carried out.
LEMMA SoloInvStep ==
  ASSUME OneBot
  PROVE  Base /\ LockedIsPending /\ SoloInv /\ [Next]_vars => SoloInv'
<1> SUFFICES ASSUME Base, LockedIsPending, SoloInv, [Next]_vars PROVE SoloInv'
  OBVIOUS
<1> USE DEF SoloInv, MayStart, MayRetry
<1>1. \A j \in Jobs : /\ attempt[j] \in Nat /\ attempt'[j] \in Nat
                      /\ attempt'[j] >= attempt[j]
  BY AttemptStep DEF Claimed, Base, TypeOK
<1>2. \A b \in Bots : Owning(b) => job[b] \in Jobs
  BY DEF Base, OwnersHaveRows
<1>3. ASSUME NEW j \in Jobs, attempt'[j] # attempt[j]
      PROVE  /\ MayStart(j) /\ attempt'[j] = attempt[j] + 1
             /\ status'[j] = "running"
             /\ \A b \in Bots : pc[b] = "claiming"
  BY <1>3, AttemptStep DEF Claimed, LockedIsPending, OneBot
<1>4. ASSUME NEW j \in Jobs, status'[j] = "pending" PROVE MayStart(j)'
  <2>1. attempt'[j] = attempt[j]
    BY <1>3, <1>4
  <2>2. CASE status[j] = "pending"
    BY <2>1, <2>2 DEF Budget
  <2>3. CASE Inserted(j)
    BY <2>1, <2>3, BudgetFacts DEF Inserted, Budget
  <2>4. CASE Reaped(j) \/ Written(j, "requeuing", "pending")
    <3>1. MayRetry(j)
      BY <1>4, <2>4 DEF Reaped, ReapRetries, Written
    <3> QED
      BY <1>1, <2>1, <3>1, BudgetFacts DEF Budget
  <2> QED
    BY <1>4, <2>2, <2>3, <2>4, RowStep DEF Claimed, Written, Reaped
<1>5. ASSUME NEW b \in Bots, pc'[b] = "requeuing" PROVE MayRetry(job[b])'
  <2>1. pc[b] \in Holding /\ job'[b] = job[b] /\ job[b] \in Jobs
    BY <1>2, <1>5, HolderStep
    DEF ClaimCommit, Dispatch, Base, TypeOK, Owning, Holding
  <2>2. attempt'[job[b]] = attempt[job[b]]
    BY <1>3, <2>1 DEF Holding
  <2>3. MayRetry(job[b])
    <3>1. CASE pc[b] = "requeuing"
      BY <3>1
    <3>2. CASE pc[b] # "requeuing"
      BY <1>5, <3>2, DecisionStep DEF ReadAttempt, Goto, RetriesRemain, Base, TypeOK
    <3> QED
      BY <3>1, <3>2
  <2> QED
    BY <2>1, <2>2, <2>3
<1>6. AttemptsWithinBudget'
  BY <1>1, <1>3, BudgetFacts DEF AttemptsWithinBudget, Budget
<1>7. ASSUME NEW j \in Jobs, status'[j] = "absent" PROVE attempt'[j] = 0
  <2>1. status[j] = "absent"
    BY <1>7, RowStep DEF Inserted, Claimed, Reaped, Written
  <2> QED
    BY <1>3, <1>7, <2>1
<1>8. ASSUME NEW b \in Bots, pc'[b] \in Holding PROVE attempt'[job'[b]] > 0
  <2>1. CASE ClaimCommit(b)
    <3>1. job[b] \in Jobs /\ job'[b] = job[b]
          /\ attempt'[job[b]] = attempt[job[b]] + 1
      BY <1>2, <2>1 DEF ClaimCommit, MarkRunning, NextAttempt, Owning, Base, TypeOK
    <3> QED
      BY <1>1, <3>1
  <2>2. CASE pc[b] \in Holding /\ job'[b] = job[b]
    BY <1>1, <1>2, <2>2 DEF Owning
  <2> QED
    BY <1>8, <2>1, <2>2, HolderStep
<1>9. ASSUME NEW j \in Jobs, status'[j] \notin {"absent", "pending"}
      PROVE  attempt'[j] > 0
  <2>1. CASE status'[j] = status[j]
    BY <1>1, <1>9, <2>1
  <2>2. CASE Claimed(j)
    BY <1>1, <2>2 DEF Claimed
  <2>3. CASE Reaped(j)
    BY <1>1, <1>9, <2>3 DEF Reaped, ReapExhausts
  <2>4. ASSUME NEW l \in Holding, NEW s, Written(j, l, s) PROVE attempt'[j] > 0
    BY <1>1, <2>4 DEF Written
  <2> QED
    BY <1>9, <2>1, <2>2, <2>3, <2>4, RowStep DEF Inserted, Holding
<1> QED
  BY <1>4, <1>5, <1>6, <1>7, <1>8, <1>9 DEF Holding

\* Rows that were never started are within their budget.
LEMMA InitSolo == Init => SoloInv
  BY BudgetFacts
  DEF Init, SoloInv, AttemptsWithinBudget, MayStart, MayRetry, Holding, Budget

\* At the start nobody executes or locks a row.
LEMMA InitExclusion == Init => ExclusionInv
  BY DEF Init, ExclusionInv, LockedIsPending, LockIsExclusive, HeldIsTaken,
    ExclusiveUntilStale, Holds, Holding

\* One bot starts a job at most max_retries times (once if that is zero):
\* through handler failures, reaping, restarts and failing statements.
THEOREM SoloBudget ==
  ASSUME OneBot PROVE Spec => []AttemptsWithinBudget
<1>1. ExclusionInv => LockedIsPending
  BY DEF ExclusionInv
<1>2. SoloInv => AttemptsWithinBudget
  BY DEF SoloInv
<1> QED
  BY InitBase, BaseStep, InitExclusion, ExclusionInvStep, InitSolo, SoloInvStep,
     <1>1, <1>2, PTL DEF Spec

\* One bot keeps the promise of mark_failed's docstring: whatever puts a job
\* back to pending does so while retries remain.
THEOREM SoloRequeue ==
  ASSUME OneBot PROVE Spec => RequeueOnlyIfRetriesRemain
<1>1. ASSUME SoloInv, Base, [Next]_vars, NEW j \in Jobs,
             status[j] \notin {"absent", "pending"}, status'[j] = "pending"
      PROVE  attempt[j] < MaxRetries[j]
  BY <1>1, RowStep
  DEF SoloInv, MayRetry, Inserted, Claimed, Written, Reaped, ReapRetries
<1>2. SoloInv /\ Base /\ [Next]_vars
      => [\A j \in Jobs : status[j] \notin {"absent", "pending"} /\ status'[j] = "pending"
                          => attempt[j] < MaxRetries[j]]_vars
  BY <1>1
<1>3. ExclusionInv => LockedIsPending
  BY DEF ExclusionInv
<1> QED
  BY InitBase, BaseStep, InitExclusion, ExclusionInvStep, InitSolo, SoloInvStep,
     <1>2, <1>3, PTL DEF Spec, RequeueOnlyIfRetriesRemain

-----------------------------------------------------------------------------
(* Order.  Rows are numbered as they are inserted; the one that a claim    *)
(* has locked is the oldest that waits.                                    *)

Present == {j \in Jobs : status[j] # "absent"}
OlderStarted(j) == \A i \in Present : createdAt[i] < createdAt[j] => attempt[i] > 0

OrderInv ==
  /\ \A j \in Present : createdAt[j] <= Cardinality(Present)
  /\ \A b \in Bots : pc[b] = "claiming" => OlderStarted(job[b])
  /\ FirstAttemptsInOrder

\* No row goes away, and one more comes by an INSERT only.
LEMMA PresentStep ==
  ASSUME Base, [Next]_vars
  PROVE  /\ IsFiniteSet(Present) /\ IsFiniteSet(Present')
         /\ Cardinality(Present) \in Nat /\ Cardinality(Present') \in Nat
         /\ Present \subseteq Present'
         /\ Cardinality(Present) <= Cardinality(Present')
<1>1. Present \subseteq Present'
  BY RowStep DEF Present, Inserted, Claimed, Reaped, Written
<1>2. IsFiniteSet(Present) /\ IsFiniteSet(Present')
  BY JobsAssumption, FS_Subset DEF Present
<1> QED
  BY <1>1, <1>2, FS_Subset, FS_CardinalityType

\* An INSERT numbers its row behind all others; no other step numbers one.
LEMMA NumberStep ==
  ASSUME Base, LockedIsPending, SoloInv, OrderInv, [Next]_vars, NEW j \in Present'
  PROVE  \/ j \in Present /\ createdAt'[j] = createdAt[j]
         \/ /\ j \notin Present /\ createdAt'[j] = Cardinality(Present')
            /\ \A i \in Present : /\ createdAt'[i] = createdAt[i]
                                  /\ createdAt[i] < createdAt'[j]
            /\ Present' = Present \cup {j} /\ UNCHANGED worker
<1> USE DEF Base, TypeOK
<1>1. ASSUME NEW k \in Jobs, Enqueue(k)
      PROVE  /\ k \notin Present /\ Present' = Present \cup {k} /\ UNCHANGED worker
             /\ createdAt'[k] = Cardinality(Present')
             /\ \A i \in Present : /\ createdAt'[i] = createdAt[i]
                                   /\ createdAt[i] < createdAt'[k]
  <2>1. k \notin Present /\ Present' = Present \cup {k} /\ UNCHANGED worker
    BY <1>1 DEF Enqueue, Present
  <2>2. createdAt' = [createdAt EXCEPT ![k] = 1 + Cardinality(Present)]
    BY <1>1 DEF Enqueue, Present
  <2>3. Cardinality(Present') = Cardinality(Present) + 1 /\ Cardinality(Present) \in Nat
    BY <2>1, PresentStep, FS_AddElement
  <2>4. \A i \in Present : i \in Jobs /\ i # k /\ createdAt[i] <= Cardinality(Present)
    BY <2>1 DEF OrderInv, Present
  <2> QED
    BY <2>1, <2>2, <2>3, <2>4
<1>2. ASSUME ~\E k \in Jobs : Enqueue(k) PROVE j \in Present /\ createdAt' = createdAt
  <2>1. createdAt' = createdAt
    BY <1>2 DEF Next, vars, table, WorkerStep, ReaperStep, Age, ClaimLock, ClaimCommit,
      ClaimRaises, MarkRunning, NoEffect, HandlerReturns, HandlerRaises, Complete,
      CompleteRaises, SetStatus, SetStatusWhere, ReadAttempt, Requeue, GiveUp,
      MarkFailedRaises, ReapToPending, ReapToFailed, ReapRaises, Start, Stop
  <2> SUFFICES ASSUME status[j] = "absent", j \in Jobs PROVE status'[j] = "absent"
    BY <2>1 DEF Present
  <2>2. \A b \in Bots : Owning(b) => job[b] # j
    BY DEF SoloInv, LockedIsPending, Owning
  <2>3. ASSUME NEW b \in Bots, WorkerStep(b) PROVE status'[j] = status[j]
    BY <2>2, <2>3 DEF WorkerStep, ClaimLock, ClaimCommit, ClaimRaises, MarkRunning,
      NoEffect, HandlerReturns, HandlerRaises, Complete, CompleteRaises, SetStatus,
      ReadAttempt, Requeue, GiveUp, MarkFailedRaises, Owning, Holding, table
  <2>4. ASSUME NEW b \in Bots, ReaperStep(b) PROVE status'[j] = status[j]
    BY <2>4 DEF ReaperStep, ReapToPending, ReapToFailed, ReapRaises, SetStatusWhere,
      ReapRetries, ReapExhausts, NoEffect, table
  <2>5. ASSUME NEW b \in Bots, Start(b) \/ Stop(b) PROVE status'[j] = status[j]
    BY <2>5 DEF Start, Stop, table
  <2>6. ASSUME NEW k \in Jobs, Age(k) PROVE status'[j] = status[j]
    BY <2>6 DEF Age
  <2>7. CASE UNCHANGED vars
    BY <2>7 DEF vars, table
  <2> QED
    BY <1>2, <2>3, <2>4, <2>5, <2>6, <2>7 DEF Next
<1> QED
  BY <1>1, <1>2 DEF Present

\* What was started stays so, and a claim takes the oldest row that waits.
LEMMA OrderInvStep ==
  ASSUME OneBot
  PROVE  Base /\ LockedIsPending /\ SoloInv /\ OrderInv /\ [Next]_vars => OrderInv'
<1> SUFFICES ASSUME Base, LockedIsPending, SoloInv, OrderInv, [Next]_vars
             PROVE  OrderInv'
  OBVIOUS
<1>1. \A j \in Jobs : /\ attempt[j] \in Nat /\ attempt'[j] \in Nat
                      /\ attempt'[j] >= attempt[j] /\ createdAt[j] \in Nat
  BY AttemptStep DEF Claimed, Base, TypeOK
<1>2. \A j \in Present' : createdAt'[j] <= Cardinality(Present')
  <2> SUFFICES ASSUME NEW j \in Present' PROVE createdAt'[j] <= Cardinality(Present')
    OBVIOUS
  <2>1. CASE j \in Present /\ createdAt'[j] = createdAt[j]
    <3>1. createdAt[j] <= Cardinality(Present) /\ createdAt[j] \in Nat
      BY <1>1, <2>1 DEF OrderInv, Present
    <3> QED
      BY <2>1, <3>1, PresentStep
  <2>2. CASE createdAt'[j] = Cardinality(Present')
    BY <2>2, PresentStep
  <2> QED
    BY <2>1, <2>2, NumberStep
<1>3. ASSUME NEW j \in Present, OlderStarted(j) PROVE OlderStarted(j)'
  <2> SUFFICES ASSUME NEW i \in Present', createdAt'[i] < createdAt'[j]
               PROVE  attempt'[i] > 0
    BY DEF OlderStarted, Present
  <2>1. j \in Present' /\ createdAt'[j] = createdAt[j] /\ createdAt[j] \in Nat
        /\ createdAt[j] <= Cardinality(Present)
    BY <1>1, PresentStep, NumberStep DEF OrderInv, Present
  <2>2. CASE i \in Present /\ createdAt'[i] = createdAt[i]
    BY <1>1, <1>3, <2>1, <2>2 DEF OlderStarted, Present
  <2>3. CASE createdAt'[i] = Cardinality(Present')
    BY <2>1, <2>3, PresentStep
  <2> QED
    BY <2>2, <2>3, NumberStep
<1>4. ASSUME NEW b \in Bots, pc'[b] = "claiming"
      PROVE  job'[b] \in Present /\ OlderStarted(job'[b])
  <2>1. CASE ClaimLock(b)
    <3>1. IsNext(job'[b]) /\ job'[b] \in Jobs
      BY <2>1 DEF ClaimLock, Base, TypeOK
    <3>2. job'[b] \in Present
      BY <3>1 DEF IsNext, Claimable, Present
    <3>3. \A k \in Jobs : ~Locked(k)
      BY <2>1 DEF ClaimLock, Locked, OneBot
    <3>4. ASSUME NEW i \in Present, createdAt[i] < createdAt[job'[b]] PROVE attempt[i] > 0
      <4>1. i \in Jobs /\ status[i] # "absent"
        BY DEF Present
      <4>2. ~(createdAt[job'[b]] <= createdAt[i])
        BY <1>1, <3>1, <3>4, <4>1
      <4>3. status[i] # "pending"
        BY <3>1, <3>3, <4>1, <4>2 DEF IsNext, Claimable, Precedes
      <4> QED
        BY <4>1, <4>3 DEF SoloInv
    <3> QED
      BY <3>2, <3>4 DEF OlderStarted
  <2>2. CASE pc[b] = "claiming" /\ job'[b] = job[b]
    BY <2>2 DEF OrderInv, LockedIsPending, Present, Base, OwnersHaveRows, Owning
  <2> QED
    BY <1>4, <2>1, <2>2, ClaimantStep
<1>5. ASSUME NEW j \in Present', attempt'[j] > 0 PROVE OlderStarted(j)'
  <2>1. CASE j \in Present /\ attempt[j] > 0
    <3>1. OlderStarted(j)
      BY <2>1 DEF OrderInv, FirstAttemptsInOrder, OlderStarted, Present
    <3> QED
      BY <1>3, <2>1, <3>1
  <2>2. CASE Claimed(j)
    <3>1. j \in Present /\ OlderStarted(j)
      BY <2>2 DEF Claimed, LockedIsPending, OrderInv, Present
    <3> QED
      BY <1>3, <3>1
  <2>3. CASE j \notin Present
    BY <1>1, <1>5, <2>2, <2>3, AttemptStep DEF Present, SoloInv
  <2>4. j \in Jobs
    BY DEF Present
  <2> QED
    BY <1>1, <1>5, <2>1, <2>2, <2>3, <2>4, AttemptStep
<1>6. FirstAttemptsInOrder'
  <2> SUFFICES ASSUME NEW i \in Present', NEW j \in Present',
                      createdAt'[i] < createdAt'[j], attempt'[j] > 0
               PROVE  attempt'[i] > 0
    BY DEF FirstAttemptsInOrder, Present
  <2> QED
    BY <1>5 DEF OlderStarted
<1>7. ASSUME NEW b \in Bots, pc'[b] = "claiming" PROVE OlderStarted(job[b])'
  <2>1. job'[b] \in Present /\ OlderStarted(job'[b])
    BY <1>4, <1>7
  <2> QED
    BY <1>3, <2>1 DEF OlderStarted
<1> QED
  BY <1>2, <1>6, <1>7 DEF OrderInv

\* ORDER BY created_at, with one bot: a row is first started after every older
\* one, whatever claims are lost and whatever is retried or reaped.
THEOREM SoloFirstAttemptsInOrder ==
  ASSUME OneBot PROVE Spec => []FirstAttemptsInOrder
<1>1. Init => OrderInv
  BY DEF Init, OrderInv, FirstAttemptsInOrder, Present
<1>2. ExclusionInv => LockedIsPending
  BY DEF ExclusionInv
<1>3. OrderInv => FirstAttemptsInOrder
  BY DEF OrderInv
<1> QED
  BY InitBase, BaseStep, InitExclusion, ExclusionInvStep, InitSolo, SoloInvStep,
     OrderInvStep, <1>1, <1>2, <1>3, PTL DEF Spec

-----------------------------------------------------------------------------
(* Finality.  Who completes a row lets go of it in the same step, so that  *)
(* no one who could write it again has it.                                 *)

CompletedIsFree == \A b \in Bots, j \in Jobs : Holds(b, j) => status[j] # "completed"

\* The worker that completes its row has none afterwards, unless the answer to
\* mark_completed is lost.
LEMMA CompletedIsFreeStep ==
  ASSUME OneBot, "complete" \notin Faults
  PROVE  Base /\ CompletedIsFree /\ [Next]_vars => CompletedIsFree'
<1> SUFFICES ASSUME Base, CompletedIsFree, [Next]_vars,
                    NEW b \in Bots, NEW j \in Jobs, pc'[b] \in Holding, job'[b] = j
             PROVE  status'[j] # "completed"
  BY DEF CompletedIsFree, Holds, Holding
<1>1. CASE ClaimCommit(b)
  BY <1>1 DEF ClaimCommit, MarkRunning, Base, TypeOK
<1>2. CASE pc[b] \in Holding /\ job'[b] = job[b]
  <2>1. status[j] # "completed"
    BY <1>2 DEF CompletedIsFree, Holds
  <2>2. ~Written(j, "completing", "completed")
    <3> SUFFICES ASSUME pc[b] = "completing", pc'[b] # "completing" PROVE FALSE
      BY DEF Written, OneBot
    <3>1. pc'[b] \in {"poll", "down"}
      BY DEF Base, TypeOK, Next, vars, worker, WorkerStep, ReaperStep, Enqueue, Age,
        ClaimLock, ClaimCommit, ClaimRaises, HandlerReturns, HandlerRaises, Complete,
        CompleteRaises, ReadAttempt, Requeue, GiveUp, MarkFailedRaises, ReapToPending,
        ReapToFailed, ReapRaises, Start, Stop, Goto, Release
    <3> QED
      BY <3>1 DEF Holding
  <2> QED
    BY <2>1, <2>2, RowStep DEF Inserted, Claimed, Reaped, Written
<1> QED
  BY <1>1, <1>2, HolderStep

\* mark_completed is the last word on a job: with one bot, and as long as the
\* statement's answer is not lost, neither the reaper, nor a retry, nor a
\* restart takes it back.
THEOREM SoloCompletedIsFinal ==
  ASSUME OneBot, "complete" \notin Faults PROVE Spec => CompletedIsFinal
<1>1. Init => CompletedIsFree
  BY DEF Init, CompletedIsFree, Holds, Holding
<1>2. ASSUME Base, LockedIsPending, CompletedIsFree, [Next]_vars,
             NEW j \in Jobs, status[j] = "completed"
      PROVE  status'[j] = "completed"
  BY <1>2, RowStep
  DEF CompletedIsFree, LockedIsPending, Holds, Holding, Inserted, Claimed, Reaped,
    ReapRetries, ReapExhausts, Written
<1>3. Base /\ LockedIsPending /\ CompletedIsFree /\ [Next]_vars
      => [\A j \in Jobs : status[j] = "completed" => status'[j] = "completed"]_vars
  BY <1>2
<1>4. ExclusionInv => LockedIsPending
  BY DEF ExclusionInv
<1> QED
  BY InitBase, BaseStep, InitExclusion, ExclusionInvStep, CompletedIsFreeStep,
     <1>1, <1>3, <1>4, PTL DEF Spec, CompletedIsFinal

-----------------------------------------------------------------------------
(* Refinement.  The statements map to the contract's actions: those of one *)
(* row to an action on that row, those of the reaper to one on a set.      *)

\* Every step of the queue is a step of the contract, or none (one bot).
LEMMA SoloContractStep ==
  ASSUME OneBot
  PROVE  Base /\ LockedIsPending /\ GiveUpInv /\ SoloInv /\ [Next]_vars
           => [Contract!Next]_(Contract!vars)
<1> SUFFICES ASSUME Base, LockedIsPending, GiveUpInv, SoloInv, [Next]_vars
             PROVE  [Contract!Next]_(Contract!vars)
  OBVIOUS
<1> USE DEF Contract!Next, Contract!vars
<1>1. /\ \A b \in Bots : Owning(b) => job[b] \in Jobs
      /\ \A b \in Bots : pc[b] \in Holding => attempt[job[b]] > 0
      /\ status \in [Jobs -> Statuses]
  BY DEF Base, TypeOK, OwnersHaveRows, SoloInv
<1>2. ASSUME NEW j \in Jobs, Enqueue(j) PROVE Contract!Next
  BY <1>2 DEF Enqueue, Contract!Submit
<1>3. ASSUME NEW b \in Bots, pc[b] = "claiming", MarkRunning(job[b])
      PROVE  Contract!Next
  <2>1. /\ job[b] \in Jobs /\ status[job[b]] = "pending"
        /\ attempt[job[b]] < Budget(job[b])
    BY <1>1, <1>3 DEF Owning, LockedIsPending, SoloInv, MayStart
  <2>2. Contract!Begin(job[b])
    BY <1>3, <2>1 DEF MarkRunning, NextAttempt, Contract!Begin, Contract!Limit, Budget
  <2> QED
    BY <2>1, <2>2
<1>4. ASSUME NEW b \in Bots, pc[b] = "completing", SetStatus(job[b], "completed")
      PROVE  Contract!Next
  BY <1>1, <1>4 DEF Owning, Holding, SetStatus, Contract!Finish, Contract!Started
<1>5. ASSUME NEW b \in Bots, pc[b] = "requeuing", SetStatus(job[b], "pending")
      PROVE  Contract!Next
  <2>1. job[b] \in Jobs /\ attempt[job[b]] > 0 /\ MayRetry(job[b])
    BY <1>1, <1>5 DEF Owning, Holding, SoloInv
  <2>2. attempt[job[b]] \in Nat /\ MaxRetries[job[b]] \in Nat
    BY <2>1, BudgetFacts DEF Base, TypeOK
  <2>3. status[job[b]] # "failed"
    BY <2>1, <2>2 DEF GiveUpInv, FailedOnlyWhenExhausted, MayRetry
  <2>4. status' = [j \in Jobs |-> IF j \in {job[b]} THEN "pending" ELSE status[j]]
    BY <1>1, <1>5 DEF SetStatus
  <2>5. Contract!Retry({job[b]})
    BY <1>5, <2>1, <2>3, <2>4
    DEF SetStatus, Contract!Retry, Contract!Started, MayRetry
  <2> QED
    BY <2>1, <2>5
<1>6. ASSUME NEW b \in Bots, pc[b] = "exhausting", SetStatus(job[b], "failed")
      PROVE  Contract!Next
  <2>1. job[b] \in Jobs /\ attempt[job[b]] > 0 /\ Exhausted(job[b])
    BY <1>1, <1>6 DEF Owning, Holding, GiveUpInv
  <2>2. status' = [j \in Jobs |-> IF j \in {job[b]} THEN "failed" ELSE status[j]]
    BY <1>1, <1>6 DEF SetStatus
  <2>3. Contract!Abandon({job[b]})
    BY <1>6, <2>1, <2>2 DEF SetStatus, Contract!Abandon, Contract!Started, Exhausted
  <2> QED
    BY <2>1, <2>3
<1>7. ASSUME SetStatusWhere({j \in Jobs : ReapRetries(j)}, "pending")
      PROVE  Contract!Next
  <2>1. Contract!Retry({j \in Jobs : ReapRetries(j)})
    BY <1>7 DEF SetStatusWhere, ReapRetries, SoloInv, Contract!Retry, Contract!Started
  <2> QED
    BY <2>1
<1>8. ASSUME SetStatusWhere({j \in Jobs : ReapExhausts(j)}, "failed")
      PROVE  Contract!Next
  <2>1. Contract!Abandon({j \in Jobs : ReapExhausts(j)})
    BY <1>8 DEF SetStatusWhere, ReapExhausts, SoloInv, Contract!Abandon, Contract!Started
  <2> QED
    BY <2>1
<1>9. ASSUME NEW b \in Bots, WorkerStep(b)
      PROVE  Contract!Next \/ UNCHANGED <<status, attempt>>
  BY <1>3, <1>4, <1>5, <1>6, <1>9
  DEF WorkerStep, ClaimLock, ClaimCommit, ClaimRaises, HandlerReturns,
    HandlerRaises, Complete, CompleteRaises, ReadAttempt, Requeue, GiveUp,
    MarkFailedRaises, NoEffect, table
<1>10. ASSUME NEW b \in Bots, ReaperStep(b)
       PROVE  Contract!Next \/ UNCHANGED <<status, attempt>>
  BY <1>7, <1>8, <1>10
  DEF ReaperStep, ReapToPending, ReapToFailed, ReapRaises, NoEffect, table
<1>11. ASSUME NEW b \in Bots, Start(b) \/ Stop(b)
       PROVE  UNCHANGED <<status, attempt>>
  BY <1>11 DEF Start, Stop, table
<1>12. ASSUME NEW j \in Jobs, Age(j) PROVE UNCHANGED <<status, attempt>>
  BY <1>12 DEF Age
<1>13. CASE UNCHANGED vars
  BY <1>13 DEF vars, table
<1> QED
  BY <1>2, <1>9, <1>10, <1>11, <1>12, <1>13 DEF Next

\* At the start no job has been given up.
LEMMA InitGiveUp == Init => GiveUpInv
  BY DEF Init, GiveUpInv, FailedOnlyWhenExhausted

\* A queue that one bot serves implements the contract its users see.
THEOREM SoloImplementsContract ==
  ASSUME OneBot PROVE Spec => ImplementsContract
<1>1. Init => Contract!Init
  BY DEF Init, Contract!Init
<1>2. ExclusionInv => LockedIsPending
  BY DEF ExclusionInv
<1> QED
  BY InitBase, BaseStep, InitExclusion, ExclusionInvStep, InitGiveUp,
     GiveUpInvStep, InitSolo, SoloInvStep, SoloContractStep, <1>1, <1>2, PTL
  DEF Spec, ImplementsContract, Contract!Spec
=============================================================================
