---------------------------- MODULE BackupProofs ----------------------------
(***************************************************************************)
(* What the outcome of a backup says of its file, for a dump of any        *)
(* length, pipes of any size and any faults: a success is the whole dump,  *)
(* or lacks what little a write that raised may hide, and a failure leaves *)
(* nothing.  The argument follows the chunks: none is lost between the     *)
(* processes but in that write, and each end of a pipe is seen only when   *)
(* nothing is left.  The same invariant shows that the run is one of those *)
(* that BackupRotation's directory sees.                                   *)
(*                                                                         *)
(* What rotations never delete: with one worker the newest backup, and the *)
(* newest file of every month of the window; with any number of them a     *)
(* backup that few newer ones follow.  For any number of backups, any      *)
(* retention, any calendar, any failures of unlink, any killed runs.       *)
(***************************************************************************)
EXTENDS BackupJob, BackupRotation, FiniteSetTheorems, WellFoundedInduction, TLAPS

-----------------------------------------------------------------------------
(* One run *)

\* The counters are numbers.
Counters == /\ dumped \in Nat /\ toWarn \in Nat /\ dumpOut \in Nat /\ dumpErr \in Nat
            /\ gzIn \in Nat /\ gzOut \in Nat /\ written \in Nat
            /\ exists \in BOOLEAN /\ inOpen \in BOOLEAN /\ stuck \in BOOLEAN

\* Every chunk that pg_dump wrote is in a pipe or in the file, as long as the
\* file could be written.
Conserved ==
  result # "failure" /\ write # "failed" => written + gzOut + gzIn + dumpOut = dumped

\* A write that raised has lost one of them at most.
LostOne == exists /\ result # "failure" => dumped <= written + gzOut + gzIn + dumpOut + 1

\* What the end of one actor says of those before it.
EndsInOrder ==
  /\ dump = "ok" => dumped = Chunks
  /\ ~inOpen => Ended(dump) /\ dumpOut = 0
  /\ gzip = "ok" => ~inOpen /\ gzIn = 0
  /\ write = "opening" => ~exists
  /\ write = "done" /\ exists /\ result # "cancelled" => Ended(gzip) /\ gzOut = 0

\* Where the handler is, and what it has found out.
HandlerKnows ==
  /\ result = "none" <=> handler # "returned"
  /\ handler = "starting" => /\ dump = "none" /\ gzip = "none" /\ inOpen
                             /\ pipe = "idle" /\ write = "idle" /\ ~exists
  /\ write \in {"opening", "reading"} => handler = "gathering"
  /\ handler \in {"stderr", "checking"} => write \in {"done", "failed"}
  /\ handler = "checking" => Ended(dump) /\ Ended(gzip)
  /\ result = "success" => /\ dump = "ok" /\ gzip = "ok"
                           /\ write \in {"done", "failed"} /\ exists
  /\ result = "failure" => /\ write \in {"idle", "done", "failed"}
                           /\ ~exists \/ stuck

Inv == Counters /\ Conserved /\ LostOne /\ EndsInOrder /\ HandlerKnows

\* Before the processes are spawned nothing has been written or promised.
LEMMA InitInv == Init => Inv
<1> SUFFICES ASSUME Init PROVE Inv
  OBVIOUS
<1>1. Counters
  <2>1. exists \in BOOLEAN /\ inOpen \in BOOLEAN /\ stuck \in BOOLEAN
    BY Zenon DEF Init
  <2> QED
    BY <2>1 DEF Init, Counters
<1>2. Conserved /\ LostOne
  BY DEF Init, Conserved, LostOne
<1>3. EndsInOrder
  BY Zenon DEF Init, EndsInOrder
<1>4. HandlerKnows
  BY Zenon DEF Init, HandlerKnows
<1> QED
  BY <1>1, <1>2, <1>3, <1>4 DEF Inv

\* Steps of the two processes.
LEMMA ProcessStep ==
  ASSUME Inv, DumpStep \/ GzipStep \/ DumpDies \/ GzipDies
  PROVE  Inv'
<1> USE BackupAssumption DEF Inv, Counters, Conserved, LostOne, EndsInOrder, HandlerKnows, Ended,
      pgdump, gz, file, control
<1>1. CASE DumpChunk BY <1>1 DEF DumpChunk
<1>2. CASE DumpWarning BY <1>2 DEF DumpWarning
<1>3. CASE DumpExits BY <1>3 DEF DumpExits
<1>4. CASE GzipChunk BY <1>4 DEF GzipChunk
<1>5. CASE GzipExits BY <1>5 DEF GzipExits
<1>6. CASE DumpDies BY <1>6 DEF DumpDies
<1>7. CASE GzipDies BY <1>7 DEF GzipDies
<1> QED BY <1>1, <1>2, <1>3, <1>4, <1>5, <1>6, <1>7 DEF DumpStep, GzipStep

\* Steps of the two coroutines.
LEMMA CoroutineStep ==
  ASSUME Inv, PipeStep \/ WriteStep
  PROVE  Inv'
<1> USE BackupAssumption
    DEF Inv, Counters, Conserved, LostOne, EndsInOrder, HandlerKnows, Ended,
        pgdump, gz, file, control
<1>1. CASE PipeChunk BY <1>1 DEF PipeChunk
<1>2. CASE PipeDrained BY <1>2 DEF PipeDrained
<1>3. CASE PipeEnd BY <1>3 DEF PipeEnd, AtDumpEnd, Close
<1>4. CASE PipeClosed BY <1>4 DEF PipeClosed
<1>5. CASE PipeBreaks BY <1>5 DEF PipeBreaks
<1>6. CASE WriteOpens BY <1>6 DEF WriteOpens
<1>7. CASE OpenRaises BY <1>7 DEF OpenRaises
<1>8. CASE WriteChunk BY <1>8 DEF WriteChunk
<1>9. CASE WriteRaises BY <1>9 DEF WriteRaises, AtGzipEnd
<1>10. CASE WriteEnd BY <1>10 DEF WriteEnd, AtGzipEnd
<1> QED BY <1>1, <1>2, <1>3, <1>4, <1>5, <1>6, <1>7, <1>8, <1>9, <1>10
        DEF PipeStep, WriteStep

\* Steps of the handler and of the worker that runs it.
LEMMA HandlerInvStep ==
  ASSUME Inv, HandlerStep \/ Cancel
  PROVE  Inv'
<1> USE BackupAssumption DEF Inv, Counters, Conserved, LostOne, EndsInOrder, HandlerKnows, Ended,
      pgdump, gz, file, control, Return
<1>1. CASE Spawn BY <1>1 DEF Spawn
<1>2. CASE SpawnRaises BY <1>2 DEF SpawnRaises
<1>3. CASE MkdirRaises BY <1>3 DEF MkdirRaises
<1>4. CASE Gathered BY <1>4 DEF Gathered
<1>5. CASE ReadStderr BY <1>5 DEF ReadStderr
<1>6. CASE Reap BY <1>6 DEF Reap
<1>7. CASE Succeed BY <1>7 DEF Succeed, BadExit
<1>8. CASE Fail BY <1>8 DEF Fail, CleanUp
<1>9. CASE FailUnlinkRaises BY <1>9 DEF FailUnlinkRaises
<1>10. CASE RotateRaises
  <2>1. CASE CleanUp BY <1>10, <2>1 DEF RotateRaises, CleanUp
  <2>2. CASE stuck' = TRUE /\ UNCHANGED <<exists, written>>
    BY <1>10, <2>2 DEF RotateRaises
  <2> QED BY <1>10, <2>1, <2>2 DEF RotateRaises
<1>11. CASE Record BY <1>11 DEF Record
<1>12. CASE Cancel BY <1>12 DEF Cancel, StopGather
<1> QED BY <1>1, <1>2, <1>3, <1>4, <1>5, <1>6, <1>7, <1>8, <1>9, <1>10, <1>11, <1>12
        DEF HandlerStep

\* Every step preserves it.
LEMMA InvStep == Inv /\ [Next]_vars => Inv'
<1> SUFFICES ASSUME Inv, [Next]_vars PROVE Inv'
  OBVIOUS
<1>1. CASE UNCHANGED vars
  BY <1>1 DEF Inv, Counters, Conserved, LostOne, EndsInOrder, HandlerKnows, Ended,
              vars, pgdump, gz, file, control
<1> QED BY <1>1, ProcessStep, CoroutineStep, HandlerInvStep DEF Next

\* What is between the processes is never more than the pipes hold, and one
\* chunk that is being drained.
BuffersBounded ==
  /\ dumped \in 0..Chunks /\ toWarn \in 0..Warnings
  /\ dumpOut \in 0..PipeSize /\ dumpErr \in 0..PipeSize
  /\ gzIn \in 0..PipeSize + 1 /\ gzOut \in 0..PipeSize
  /\ written \in Nat
  /\ written + gzOut + gzIn + dumpOut <= dumped
  /\ pipe \in {"idle", "reading"} => gzIn <= PipeSize

\* Where each of the actors may be.
Places ==
  /\ dump \in ProcessStates /\ gzip \in ProcessStates
  /\ pipe \in {"idle", "reading", "draining", "closing", "done"}
  /\ write \in {"idle", "opening", "reading", "done", "failed"}
  /\ handler \in {"starting", "gathering", "stderr", "checking", "returned"}
  /\ result \in {"none", "success", "failure", "raised", "cancelled"}
  /\ job \in {"running", "completed", "retried"}

\* Nothing is between processes that have not been spawned.
LEMMA InitBuffers == Init => BuffersBounded /\ Places
  BY BackupAssumption DEF Init, BuffersBounded, Places, ProcessStates

\* Each reads only what the other wrote, and writes only into a pipe with room.
LEMMA BuffersStep == Inv /\ BuffersBounded /\ [Next]_vars => BuffersBounded'
<1> SUFFICES ASSUME Inv, BuffersBounded, [Next]_vars PROVE BuffersBounded'
  OBVIOUS
<1> USE BackupAssumption DEF BuffersBounded, pgdump, gz, file, control, Return
<1>1. CASE DumpStep \/ DumpDies
  BY <1>1 DEF DumpStep, DumpChunk, DumpWarning, DumpExits, DumpDies
<1>2. CASE GzipStep \/ GzipDies
  BY <1>2 DEF GzipStep, GzipChunk, GzipExits, GzipDies
<1>3. CASE PipeStep
  <2>1. CASE PipeChunk BY <2>1 DEF PipeChunk
  <2>2. CASE PipeDrained BY <2>2 DEF PipeDrained, Drained
  <2>3. CASE PipeEnd BY <2>3 DEF PipeEnd, Close
  <2>4. CASE PipeClosed BY <2>4 DEF PipeClosed
  <2>5. CASE PipeBreaks BY <2>5 DEF PipeBreaks
  <2> QED
    BY <1>3, <2>1, <2>2, <2>3, <2>4, <2>5 DEF PipeStep
<1>4. CASE WriteStep
  <2>1. CASE WriteOpens BY <2>1 DEF WriteOpens
  <2>2. CASE OpenRaises BY <2>2 DEF OpenRaises
  <2>3. CASE WriteChunk BY <2>3 DEF WriteChunk
  <2>4. CASE WriteRaises BY <2>4 DEF WriteRaises, AtGzipEnd
  <2>5. CASE WriteEnd BY <2>5 DEF WriteEnd
  <2> QED
    BY <1>4, <2>1, <2>2, <2>3, <2>4, <2>5 DEF WriteStep
<1>5. CASE Spawn \/ SpawnRaises \/ MkdirRaises
  BY <1>5 DEF Spawn, SpawnRaises, MkdirRaises, Inv, HandlerKnows
<1>6. CASE Gathered \/ ReadStderr \/ Reap
  BY <1>6 DEF Gathered, ReadStderr, Reap
<1>7. CASE Succeed \/ FailUnlinkRaises \/ Record
  BY <1>7 DEF Succeed, FailUnlinkRaises, Record
<1>8. CASE Fail
  BY <1>8 DEF Fail, CleanUp
<1>9. CASE RotateRaises
  <2>1. written' = 0 \/ written' = written
    BY <1>9 DEF RotateRaises, CleanUp
  <2>2. UNCHANGED <<dumped, toWarn, dumpOut, dumpErr, gzIn, gzOut, pipe>>
    BY <1>9 DEF RotateRaises
  <2> QED
    BY <2>1, <2>2
<1>10. CASE Cancel
  BY <1>10 DEF Cancel, StopGather
<1>11. CASE UNCHANGED vars
  BY <1>11 DEF vars
<1> QED
  BY <1>1, <1>2, <1>3, <1>4, <1>5, <1>6, <1>7, <1>8, <1>9, <1>10, <1>11 DEF Next, HandlerStep

\* No step leads an actor anywhere else.
LEMMA PlacesStep == Places /\ [Next]_vars => Places'
<1> SUFFICES ASSUME Places, [Next]_vars PROVE Places'
  OBVIOUS
<1> USE DEF Places, ProcessStates, pgdump, gz, file, control, Return
<1>1. CASE DumpStep \/ DumpDies \/ GzipStep \/ GzipDies
  BY <1>1 DEF DumpStep, DumpChunk, DumpWarning, DumpExits, DumpDies, GzipStep, GzipChunk,
              GzipExits, GzipDies
<1>2. CASE PipeStep
  BY <1>2 DEF PipeStep, PipeChunk, PipeDrained, PipeEnd, PipeClosed, PipeBreaks
<1>3. CASE WriteStep
  BY <1>3 DEF WriteStep, WriteOpens, OpenRaises, WriteChunk, WriteRaises, WriteEnd
<1>4. CASE Spawn \/ SpawnRaises \/ MkdirRaises \/ Gathered \/ ReadStderr \/ Reap
  BY <1>4 DEF Spawn, SpawnRaises, MkdirRaises, Gathered, ReadStderr, Reap
<1>5. CASE Succeed \/ Fail \/ FailUnlinkRaises \/ RotateRaises \/ Record
  BY <1>5 DEF Succeed, Fail, FailUnlinkRaises, RotateRaises, Record
<1>6. CASE Cancel
  BY <1>6 DEF Cancel, StopGather
<1>7. CASE UNCHANGED vars
  BY <1>7 DEF vars
<1> QED
  BY <1>1, <1>2, <1>3, <1>4, <1>5, <1>6, <1>7 DEF Next, HandlerStep

\* Every reachable state of the handler is well typed: however long the dump
\* is, pipe_to_gzip buffers no more than one chunk beyond what a pipe holds.
THEOREM RunTypeCorrect == Spec => []TypeOK
<1>1. Inv /\ BuffersBounded /\ Places => TypeOK
  <2> SUFFICES ASSUME Inv, BuffersBounded, Places PROVE TypeOK
    OBVIOUS
  <2>1. inOpen \in BOOLEAN /\ exists \in BOOLEAN /\ stuck \in BOOLEAN
    BY DEF Inv, Counters
  <2>2. written \in 0..Chunks
    BY BackupAssumption DEF BuffersBounded
  <2> QED
    BY <2>1, <2>2 DEF TypeOK, BuffersBounded, Places
<1> QED BY InitInv, InvStep, InitBuffers, BuffersStep, PlacesStep, <1>1, PTL DEF Spec

\* A backup reported as a success holds the whole dump (the handler's lines
\* 222 to 262), although the coroutines swallow their errors: all but what the
\* write that raised lost, and what gzip could leave in a pipe and still end.
THEOREM SuccessHoldsWholeDump == Spec => []SuccessIsComplete
<1>1. Inv /\ BuffersBounded => SuccessIsComplete
  <2> SUFFICES ASSUME Inv, BuffersBounded, result = "success"
               PROVE  /\ exists
                      /\ \/ written = Chunks
                         \/ write = "failed" /\ Chunks <= written + PipeSize + 1
    BY DEF SuccessIsComplete
  <2>1. /\ exists /\ dump = "ok" /\ gzip = "ok" /\ write \in {"done", "failed"}
        /\ dumped = Chunks /\ dumpOut = 0 /\ gzIn = 0
    BY DEF Inv, HandlerKnows, EndsInOrder
  <2>2. CASE write = "done"
    BY <2>1, <2>2, BackupAssumption DEF Inv, Counters, Conserved, EndsInOrder
  <2>3. CASE write = "failed"
    <3>1. Chunks <= written + gzOut + 0 + 0 + 1
      BY <2>1 DEF Inv, LostOne
    <3>2. gzOut \in 0..PipeSize /\ written \in Nat
      BY DEF BuffersBounded
    <3> QED
      BY <2>1, <2>3, <3>1, <3>2, BackupAssumption
  <2> QED
    BY <2>1, <2>2, <2>3
<1> QED BY InitInv, InvStep, InitBuffers, BuffersStep, <1>1, PTL DEF Spec

\* A backup reported as a failure has removed its file (the handler's lines
\* 226, 236 and 274), unless unlink raised.
THEOREM FailureCleansUp == Spec => []FailureLeavesNoFile
<1>1. Inv => FailureLeavesNoFile
  BY Zenon DEF Inv, HandlerKnows, FailureLeavesNoFile
<1> QED BY InitInv, InvStep, <1>1, PTL DEF Spec

-----------------------------------------------------------------------------
(* The run as the directory sees it *)

\* Nothing that the directory sees changes.
LEMMA Unseen ==
  ASSUME UNCHANGED <<exists, result>>, (handler' = "returned") = (handler = "returned")
  PROVE  UNCHANGED Directory!dirVars
BY DEF Directory!dirVars

\* The file appears while the handler waits for its coroutines: the run starts.
LEMMA OpensIsStart ==
  ASSUME Inv, WriteOpens
  PROVE  Directory!DirNext
<1>1. ~exists /\ exists' /\ handler = "gathering" /\ UNCHANGED <<handler, result>>
  BY DEF Inv, EndsInOrder, HandlerKnows, WriteOpens, control
<1>2. Cardinality({}) = 0
  BY FS_EmptySet
<1>3. (IF exists /\ handler # "returned" THEN {0} ELSE {}) = {}
  BY <1>1
<1>4. Directory!Idle
  <2>1. Directory!Cardinality({}) = Cardinality({})
    BY DEF Directory!Cardinality, Cardinality
  <2>2. Directory!Cardinality(IF exists /\ handler # "returned" THEN {0} ELSE {}) = 0
    BY Zenon, <1>2, <1>3, <2>1
  <2> QED
    BY <2>2 DEF Directory!Idle
<1>5. Directory!Start
  BY <1>1, <1>3, <1>4 DEF Directory!Start
<1> QED
  BY <1>5 DEF Directory!DirNext

\* The handler is done with a file that stays: completed, or abandoned.
LEMMA ReturnsWithFile ==
  ASSUME handler # "returned", handler' = "returned", result = "none",
         exists, exists', result' # "none"
  PROVE  Directory!DirNext
<1>1. 0 \in Directory!Times
  BY DEF Directory!Times
<1>2. CASE result' = "success"
  <2>1. Directory!FinishOnly(0)
    BY <1>2 DEF Directory!FinishOnly
  <2> QED
    BY <1>1, <2>1 DEF Directory!DirNext
<1>3. CASE result' # "success"
  <2>1. Directory!Kill(0)
    BY <1>3 DEF Directory!Kill
  <2> QED
    BY <1>1, <2>1 DEF Directory!DirNext
<1> QED
  BY <1>2, <1>3

\* It is done and has no file: it removed it, or there never was one.
LEMMA ReturnsWithoutFile ==
  ASSUME exists \in BOOLEAN, handler # "returned", handler' = "returned", result = "none",
         exists' = FALSE, result' \notin {"none", "success"}
  PROVE  Directory!DirNext \/ UNCHANGED Directory!dirVars
<1>1. CASE exists
  <2>1. 0 \in Directory!Times
    BY DEF Directory!Times
  <2>2. Directory!RunFails(0)
    BY <1>1 DEF Directory!RunFails
  <2> QED
    BY <2>1, <2>2 DEF Directory!DirNext
<1>2. CASE ~exists
  BY <1>2 DEF Directory!dirVars
<1> QED
  BY <1>1, <1>2

\* Every step of the run is one of the directory, or none.
LEMMA RunStep ==
  Inv /\ [Next]_vars => [Directory!DirNext]_(Directory!dirVars)
<1> SUFFICES ASSUME Inv, [Next]_vars
             PROVE  Directory!DirNext \/ UNCHANGED Directory!dirVars
  OBVIOUS
<1> USE DEF Inv, Counters, HandlerKnows
<1>1. CASE \/ DumpStep \/ GzipStep \/ DumpDies \/ GzipDies \/ PipeStep
           \/ UNCHANGED vars
  <2>1. UNCHANGED <<exists, result, handler>>
    BY <1>1 DEF DumpStep, GzipStep, DumpDies, GzipDies, PipeStep, DumpChunk, DumpWarning,
       DumpExits, GzipChunk, GzipExits, PipeChunk, PipeDrained, PipeEnd, PipeClosed,
       PipeBreaks, vars, file, control
  <2> QED
    BY <2>1, Unseen
<1>2. CASE WriteStep
  <2>1. CASE WriteOpens
    BY <2>1, OpensIsStart
  <2>2. CASE OpenRaises \/ WriteChunk \/ WriteRaises \/ WriteEnd
    <3>1. UNCHANGED <<exists, result, handler>>
      BY <2>2 DEF OpenRaises, WriteChunk, WriteRaises, WriteEnd, file, control
    <3> QED
      BY <3>1, Unseen
  <2> QED
    BY <1>2, <2>1, <2>2 DEF WriteStep
<1>3. CASE Spawn \/ Gathered \/ ReadStderr \/ Reap \/ Record
  <2>1. UNCHANGED <<exists, result>> /\ (handler' = "returned") = (handler = "returned")
    BY <1>3 DEF Spawn, Gathered, ReadStderr, Reap, Record, file, control
  <2> QED
    BY <2>1, Unseen
<1>4. CASE SpawnRaises \/ MkdirRaises
  <2>1. exists' = FALSE /\ handler # "returned" /\ handler' = "returned"
        /\ result' \in {"failure", "raised"}
    BY <1>4 DEF SpawnRaises, MkdirRaises, Return, file
  <2> QED
    BY <2>1, ReturnsWithoutFile
<1>5. CASE Succeed
  BY <1>5, ReturnsWithFile DEF Succeed, Return, file
<1>6. CASE Fail
  BY <1>6, ReturnsWithoutFile DEF Fail, Return, CleanUp
<1>7. CASE FailUnlinkRaises
  BY <1>7, ReturnsWithFile DEF FailUnlinkRaises, Return
<1>8. CASE RotateRaises
  BY <1>8, ReturnsWithFile, ReturnsWithoutFile DEF RotateRaises, Return, CleanUp
<1>9. CASE Cancel
  <2>1. handler # "returned" /\ handler' = "returned" /\ result' = "cancelled" /\ exists' = exists
    BY <1>9 DEF Cancel, Return, file
  <2> QED
    BY <2>1, ReturnsWithFile, ReturnsWithoutFile
<1> QED
  BY <1>1, <1>2, <1>3, <1>4, <1>5, <1>6, <1>7, <1>8, <1>9 DEF Next, HandlerStep

\* One run of the handler implements one run of the directory, whatever fails,
\* for a dump of any length and pipes of any size.
THEOREM RunImplementsRotation == Spec => ImplementsRotation
<1>1. Init => Directory!DirInit
  <2> SUFFICES ASSUME Init PROVE Directory!DirInit
    OBVIOUS
  <2>1. exists = FALSE /\ result = "none"
    BY DEF Init
  <2> QED
    BY <2>1 DEF Directory!DirInit, Directory!Times
<1> QED
  BY InitInv, InvStep, RunStep, <1>1, PTL DEF Spec, ImplementsRotation, Directory!DirSpec

-----------------------------------------------------------------------------
(* The directory *)

\* The assumption of the first theorems.
OneWorker == Workers = 1

\* At most one run is in progress, and its file is the newest one.
RunsInOrder ==
  /\ now \in Times
  /\ files \subseteq 0..now /\ running \subseteq 0..now /\ whole \subseteq 0..now
  /\ IsFiniteSet(running)
  /\ \A r, u \in running : r = u
  /\ \A r \in running : \A f \in files \cup whole : f <= r
  /\ running \cap whole = {}

DirInv == RunsInOrder /\ LatestWholeSurvives

-----------------------------------------------------------------------------
\* The window only ever loses months.
LEMMA WindowShrinks ==
  ASSUME now \in Times, now' \in Times, now' >= now, NEW t \in Times, InWindow(t)'
  PROVE  InWindow(t)
BY KeepAssumption, TimeAssumption DEF InWindow, Times

\* A worker that is idle runs nothing.
LEMMA IdleRunsNothing ==
  ASSUME OneWorker, IsFiniteSet(running), Idle
  PROVE  running = {}
<1>1. Cardinality(running) \in Nat
  BY FS_CardinalityType
<1>2. Cardinality(running) = 0
  BY <1>1 DEF Idle, OneWorker
<1> QED
  BY <1>2, FS_EmptySet

\* What nothing exceeds is the newest.
LEMMA NothingNewer ==
  ASSUME NEW S \in SUBSET Nat, NEW t \in Nat, \A u \in S : u <= t
  PROVE  Newer(t, S) = {}
<1> SUFFICES ASSUME NEW u \in S, u > t PROVE FALSE
  BY Zenon DEF Newer
<1> QED
  OBVIOUS

\* The rotation keeps the newest file, and the newest of each month of the
\* window.
LEMMA KeepsNewest ==
  ASSUME NEW S, NEW t \in S
  PROVE  /\ Newer(t, S) = {} => t \in Keep(S)
         /\ InWindow(t) /\ SameMonth(t, Newer(t, S)) = {} => t \in Keep(S)
<1>1. Cardinality({}) = 0
  BY FS_EmptySet
<1> QED
  BY <1>1, KeepAssumption DEF Keep, Daily, Monthly

\* What the rotation deletes was there.
LEMMA RotationOnlyDeletes ==
  ASSUME NEW t, Finish(t)
  PROVE  files' \subseteq files /\ Keep(files) \subseteq files'
BY DEF Finish, Stuck, Keep, Daily, Monthly

-----------------------------------------------------------------------------
\* At the start there is nothing to order.
LEMMA InitDirInv == DirInit => DirInv /\ MonthCovered
<1>1. IsFiniteSet({})
  BY FS_EmptySet
<1> QED
  BY <1>1, TimeAssumption
  DEF DirInit, DirInv, RunsInOrder, LatestWholeSurvives, MonthCovered, Times

\* A run that starts is the newest, one that ends leaves none.
LEMMA OrderStep ==
  ASSUME OneWorker, DirInv, [DirNext]_dirVars
  PROVE  RunsInOrder'
<1> USE TimeAssumption DEF DirInv, RunsInOrder, Times
<1>1. CASE Start
  <2>1. running = {} /\ running' = {now}
    BY <1>1, IdleRunsNothing DEF Start
  <2>2. IsFiniteSet(running')
    BY <2>1, FS_Singleton
  <2>3. now \notin whole
    <3>1. now \in Nat /\ \A f \in whole : f \in Nat /\ f <= now
      OBVIOUS
    <3>2. Newer(now, whole) = {}
      BY <3>1, NothingNewer
    <3> QED
      BY <1>1, <3>2 DEF Start, LatestWholeSurvives
  <2> QED
    BY <1>1, <2>1, <2>2, <2>3 DEF Start
<1>2. ASSUME NEW t \in Times, Finish(t) \/ FinishOnly(t) PROVE RunsInOrder'
  <2>1. running = {t} /\ running' = {}
    BY <1>2 DEF Finish, FinishOnly
  <2>2. IsFiniteSet(running')
    BY <2>1, FS_EmptySet
  <2>3. files' \subseteq files /\ whole' = whole \cup {t} /\ now' = now
    BY <1>2, RotationOnlyDeletes DEF Finish, FinishOnly
  <2> QED
    BY <2>1, <2>2, <2>3
<1>3. ASSUME NEW t \in Times, RunFails(t) \/ Kill(t) PROVE RunsInOrder'
  <2>1. running = {t} /\ running' = {}
    BY <1>3 DEF RunFails, Kill
  <2>2. IsFiniteSet(running')
    BY <2>1, FS_EmptySet
  <2>3. files' \subseteq files /\ whole' = whole /\ now' = now
    BY <1>3 DEF RunFails, Kill
  <2> QED
    BY <2>1, <2>2, <2>3
<1>4. CASE Tick
  BY <1>4 DEF Tick
<1>5. CASE UNCHANGED dirVars
  BY <1>5 DEF dirVars
<1> QED
  BY <1>1, <1>2, <1>3, <1>4, <1>5 DEF DirNext

\* The rotation spares the backup that runs it, and that is the newest.
LEMMA LatestStep ==
  ASSUME OneWorker, DirInv, [DirNext]_dirVars
  PROVE  LatestWholeSurvives'
<1> SUFFICES ASSUME NEW t \in whole', Newer(t, whole') = {}
             PROVE  t \in files'
  BY DEF LatestWholeSurvives, Newer
<1> USE DEF DirInv, RunsInOrder
<1>1. ASSUME whole' = whole PROVE t \in files
  BY <1>1 DEF LatestWholeSurvives, Newer
<1>2. ASSUME NEW u \in Times, Finish(u) \/ FinishOnly(u) PROVE t \in files'
  <2>1. u \in running /\ u \in files /\ whole' = whole \cup {u}
    BY <1>2 DEF Finish, FinishOnly
  <2>2. t <= u /\ u <= t
    BY <2>1, TimeAssumption DEF Newer, Times
  <2>3. t = u
    BY <2>1, <2>2, TimeAssumption DEF Times
  <2>4. Newer(u, files) = {}
    <3>1. u \in Nat /\ \A f \in files : f \in Nat /\ f <= u
      BY <2>1, TimeAssumption DEF Times
    <3> QED
      BY <3>1, NothingNewer
  <2> QED
    BY <1>2, <2>1, <2>3, <2>4, KeepsNewest, RotationOnlyDeletes DEF FinishOnly
<1>3. ASSUME NEW u \in Times, RunFails(u) PROVE t \in files'
  BY <1>1, <1>3 DEF RunFails
<1>4. ASSUME NEW u \in Times, Kill(u) PROVE t \in files'
  BY <1>1, <1>4 DEF Kill
<1>5. CASE Start
  BY <1>1, <1>5 DEF Start
<1>6. CASE Tick \/ UNCHANGED dirVars
  BY <1>1, <1>6 DEF Tick, dirVars
<1> QED
  BY <1>2, <1>3, <1>4, <1>5, <1>6 DEF DirNext

\* _rotate_backups never deletes the newest backup, whatever partial files
\* of killed runs it takes for backups.
THEOREM NewestBackupSurvives ==
  ASSUME OneWorker
  PROVE  DirSpec => []LatestWholeSurvives
<1>1. DirInv /\ [DirNext]_dirVars => DirInv'
  BY OrderStep, LatestStep DEF DirInv
<1> QED
  BY InitDirInv, <1>1, PTL DEF DirSpec, DirInv

-----------------------------------------------------------------------------
\* Timestamps that are there have a newest one.
LEMMA NewestExists ==
  ASSUME NEW S \in SUBSET Times, S # {}
  PROVE  \E v \in S : \A u \in S : u <= v
<1> DEFINE Below == {MaxTime - u : u \in S}
<1>1. Below \subseteq Nat /\ Below # {}
  BY TimeAssumption DEF Times
<1>2. PICK d \in Below : \A e \in Below : ~(<<e, d>> \in OpToRel(<, Nat))
  BY <1>1, NatLessThanWellFounded, WFMin
<1>3. \A e \in Below : ~(e < d)
  BY <1>1, <1>2 DEF OpToRel
<1>4. PICK v \in S : d = MaxTime - v
  OBVIOUS
<1>5. \A u \in S : ~(MaxTime - u < MaxTime - v)
  BY <1>3, <1>4
<1>6. \A u \in S : u \in Int /\ v \in Int
  BY <1>4 DEF Times
<1> QED
  BY <1>4, <1>5, <1>6, TimeAssumption

\* Where a month's newest backup is deleted, the newest partial file of that
\* month is kept: either it is the newest file of the month, or there is none.
LEMMA RotationCovers ==
  ASSUME DirInv, MonthCovered, NEW u \in Times, Finish(u),
         NEW t \in whole', InWindow(t)', SameMonth(t, Newer(t, whole')) = {}
  PROVE  t \in files' \/ SameMonth(t, Newer(t, Partial)) \cap files' # {}
<1> USE DEF DirInv, RunsInOrder
<1> DEFINE P == SameMonth(t, Newer(t, Partial))
<1>1. /\ u \in files /\ running = {u} /\ running' = {}
      /\ whole' = whole \cup {u} /\ now' = now
  BY DEF Finish
<1>2. InWindow(t) /\ t \in Times
  <2>1. t \in Times
    BY <1>1, TimeAssumption DEF Times
  <2> QED
    BY <1>1, <2>1 DEF InWindow
<1>3. files \subseteq Times
  BY TimeAssumption DEF Times
<1>4. \A v \in files : v > t /\ MonthOf[v] = MonthOf[t] => v \in P
  BY <1>1 DEF SameMonth, Newer, Partial
<1>5. CASE P = {}
  <2>1. SameMonth(t, Newer(t, files)) = {}
    BY <1>4, <1>5 DEF SameMonth, Newer
  <2>2. t \in files
    <3>1. CASE t = u
      BY <1>1, <3>1
    <3>2. CASE t \in whole
      <4>1. SameMonth(t, Newer(t, whole)) = {}
        BY <1>1 DEF SameMonth, Newer
      <4> QED
        BY <1>2, <1>5, <3>2, <4>1 DEF MonthCovered
    <3> QED
      BY <1>1, <3>1, <3>2
  <2> QED
    BY <1>2, <2>1, <2>2, KeepsNewest, RotationOnlyDeletes
<1>6. CASE P # {}
  <2>1. P \subseteq Times /\ P \subseteq files
    BY <1>3 DEF SameMonth, Newer, Partial
  <2>2. PICK v \in P : \A w \in P : w <= v
    BY <1>6, <2>1, NewestExists
  <2>3. v \in files /\ v > t /\ MonthOf[v] = MonthOf[t] /\ v \in Times
    BY <2>1, <2>2 DEF SameMonth, Newer
  <2>4. SameMonth(v, Newer(v, files)) = {}
    <3> SUFFICES ASSUME NEW w \in files, w > v, MonthOf[w] = MonthOf[v] PROVE FALSE
      BY DEF SameMonth, Newer
    <3>1. w \in Times /\ w > t
      BY <1>2, <1>3, <2>3 DEF Times
    <3>2. w \in P
      BY <1>4, <2>3, <3>1
    <3> QED
      BY <2>2, <2>3, <3>1, <3>2 DEF Times
  <2>5. InWindow(v)
    BY <1>2, <2>3 DEF InWindow
  <2>6. v \in files'
    BY <2>3, <2>4, <2>5, KeepsNewest, RotationOnlyDeletes
  <2> QED
    BY <2>2, <2>6
<1> QED
  BY <1>5, <1>6

\* Only a rotation deletes files that no run owns, and only the clock moves
\* the window.
LEMMA CoveredStep ==
  ASSUME OneWorker, DirInv, DirInv', MonthCovered, [DirNext]_dirVars
  PROVE  MonthCovered'
<1> SUFFICES ASSUME NEW t \in whole', InWindow(t)', SameMonth(t, Newer(t, whole')) = {}
             PROVE  t \in files' \/ SameMonth(t, Newer(t, Partial')) # {}
  BY DEF MonthCovered, SameMonth, Newer
<1>1. now \in Times /\ now' \in Times /\ now' >= now /\ t \in Times
  BY TimeAssumption DEF DirInv, RunsInOrder, DirNext, Start, Finish, FinishOnly, RunFails, Kill,
                        Tick, dirVars, Times
<1>2. InWindow(t)
  BY <1>1, WindowShrinks
<1>3. t \in whole => t \in files \/ SameMonth(t, Newer(t, Partial)) # {}
  <2> SUFFICES ASSUME t \in whole PROVE SameMonth(t, Newer(t, whole)) = {}
    BY <1>2 DEF MonthCovered
  <2>1. whole \subseteq whole'
    BY DEF DirNext, Start, Finish, FinishOnly, RunFails, Kill, Tick, dirVars
  <2> QED
    BY <2>1 DEF SameMonth, Newer
<1>4. ASSUME t \in whole, Partial \subseteq Partial', t \in files => t \in files'
      PROVE  t \in files' \/ SameMonth(t, Newer(t, Partial')) # {}
  BY <1>3, <1>4 DEF SameMonth, Newer
<1>5. ASSUME NEW u \in Times, Finish(u)
      PROVE  t \in files' \/ SameMonth(t, Newer(t, Partial')) # {}
  <2>1. Partial \cap files' \subseteq Partial'
    BY <1>5 DEF Finish, Partial, DirInv, RunsInOrder
  <2>2. t \in files' \/ SameMonth(t, Newer(t, Partial)) \cap files' # {}
    BY <1>5, RotationCovers
  <2> QED
    BY <2>1, <2>2 DEF SameMonth, Newer, Partial
<1>6. ASSUME NEW u \in Times, FinishOnly(u)
      PROVE  t \in files' \/ SameMonth(t, Newer(t, Partial')) # {}
  <2>1. CASE t = u
    BY <1>6, <2>1 DEF FinishOnly
  <2>2. CASE t \in whole
    BY <1>4, <1>6, <2>2 DEF FinishOnly, Partial
  <2> QED
    BY <1>6, <2>1, <2>2 DEF FinishOnly
<1>7. ASSUME NEW u \in Times, RunFails(u)
      PROVE  t \in files' \/ SameMonth(t, Newer(t, Partial')) # {}
  <2>1. t \in whole /\ t # u
    BY <1>7 DEF RunFails, DirInv, RunsInOrder
  <2> QED
    BY <1>4, <1>7, <2>1 DEF RunFails, Partial
<1>8. ASSUME NEW u \in Times, Kill(u)
      PROVE  t \in files' \/ SameMonth(t, Newer(t, Partial')) # {}
  BY <1>4, <1>8 DEF Kill, Partial
<1>9. CASE Start
  <2>1. IsFiniteSet(running) /\ running = {}
    BY <1>9, IdleRunsNothing DEF Start, DirInv, RunsInOrder
  <2>2. now \notin Partial
    BY <1>9 DEF Start, Partial
  <2> QED
    BY <1>4, <1>9, <2>1, <2>2 DEF Start, Partial
<1>10. CASE Tick \/ UNCHANGED dirVars
  BY <1>4, <1>10 DEF Tick, dirVars, Partial
<1> QED
  BY <1>5, <1>6, <1>7, <1>8, <1>9, <1>10 DEF DirNext

\* Every month of _rotate_backups' window that saw a backup is covered by its
\* newest one, or by a newer partial file that a killed run left in that month.
THEOREM EveryMonthCovered ==
  ASSUME OneWorker
  PROVE  DirSpec => []MonthCovered
<1>1. DirInv /\ MonthCovered /\ [DirNext]_dirVars => DirInv' /\ MonthCovered'
  <2> SUFFICES ASSUME DirInv, MonthCovered, [DirNext]_dirVars
               PROVE  DirInv' /\ MonthCovered'
    OBVIOUS
  <2>1. DirInv'
    BY OrderStep, LatestStep DEF DirInv
  <2> QED
    BY <2>1, CoveredStep
<1> QED
  BY InitDirInv, <1>1, PTL DEF DirSpec

-----------------------------------------------------------------------------
(* Several workers *)

\* What holds with any number of workers: a run that has not ended is no
\* backup yet, and the newest timestamp there can be is safe from rotations.
RunsApart ==
  /\ DirTypeOK
  /\ files \subseteq 0..now /\ running \subseteq 0..now /\ whole \subseteq 0..now
  /\ running \cap whole = {}
  /\ now \in running \cup whole => now \in files

\* Each worker is about one run; only the newest run can share its timestamp.
LEMMA RunsApartStep ==
  ASSUME RunsApart, [DirNext]_dirVars
  PROVE  RunsApart'
<1> USE TimeAssumption, KeepAssumption DEF RunsApart, DirTypeOK, Times
<1>1. IsFiniteSet(running) /\ Cardinality(running) \in Nat
  <2>1. IsFiniteSet(Times)
    BY FS_Interval
  <2> QED
    BY <2>1, FS_Subset, FS_CardinalityType
<1>2. CASE Start
  <2>1. running' = running \cup {now} /\ Cardinality(running) < Workers
    BY <1>2 DEF Start, Idle
  <2>2. Cardinality(running \cup {now}) =
          IF now \in running THEN Cardinality(running) ELSE Cardinality(running) + 1
    BY <1>1, FS_AddElement
  <2>3. Cardinality(running') <= Workers
    BY <1>1, <2>1, <2>2
  <2> QED
    BY <1>2, <2>3 DEF Start
<1>3. ASSUME NEW u \in Times, running' = running \ {u}
      PROVE  Cardinality(running') <= Workers
  <2>1. Cardinality(running') \in Nat /\ Cardinality(running') <= Cardinality(running)
    BY <1>1, <1>3, FS_Subset, FS_CardinalityType
  <2> QED
    BY <1>1, <2>1
<1>4. ASSUME NEW u \in Times, Finish(u) PROVE RunsApart'
  <2>1. /\ u \in running /\ running' = running \ {u} /\ whole' = whole \cup {u} /\ now' = now
        /\ files' \subseteq files /\ Keep(files) \subseteq files'
    BY <1>4, RotationOnlyDeletes DEF Finish
  <2>2. now \in files => now \in files'
    <3>1. now \in Nat /\ \A f \in files : f \in Nat /\ f <= now
      OBVIOUS
    <3>2. Newer(now, files) = {}
      BY <3>1, NothingNewer
    <3> QED
      BY <2>1, <3>2, KeepsNewest
  <2> QED
    BY <1>3, <2>1, <2>2
<1>5. ASSUME NEW u \in Times, FinishOnly(u) \/ RunFails(u) \/ Kill(u) PROVE RunsApart'
  <2>1. running' = running \ {u}
    BY <1>5 DEF FinishOnly, RunFails, Kill
  <2> QED
    BY <1>3, <1>5, <2>1 DEF FinishOnly, RunFails, Kill
<1>6. CASE Tick
  BY <1>6 DEF Tick
<1>7. CASE UNCHANGED dirVars
  BY <1>7 DEF dirVars
<1> QED
  BY <1>2, <1>4, <1>5, <1>6, <1>7 DEF DirNext

\* At the start no worker runs anything.
LEMMA InitRunsApart == DirInit => RunsApart
  BY FS_EmptySet, KeepAssumption, TimeAssumption DEF DirInit, RunsApart, DirTypeOK, Times

\* Every reachable directory is well typed, and no worker is about two runs.
THEOREM DirTypeCorrect == DirSpec => []DirTypeOK
<1>1. RunsApart => DirTypeOK
  BY DEF RunsApart
<1> QED
  BY InitRunsApart, RunsApartStep, <1>1, PTL DEF DirSpec

\* There are no more newer timestamps in a directory than in a larger one and
\* in what it lacks.
LEMMA FewerNewer ==
  ASSUME NEW t, NEW A, NEW B \in SUBSET Times, NEW R \in SUBSET Times,
         Newer(t, A) \subseteq B \cup R
  PROVE  /\ Cardinality(Newer(t, A)) \in Nat /\ Cardinality(Newer(t, B)) \in Nat
         /\ Cardinality(R) \in Nat
         /\ Cardinality(Newer(t, A)) <= Cardinality(Newer(t, B)) + Cardinality(R)
<1> DEFINE N == Newer(t, B)
<1>1. IsFiniteSet(Times)
  BY TimeAssumption, FS_Interval DEF Times
<1>2. N \subseteq Times /\ Newer(t, A) \subseteq N \cup R
  BY DEF Newer
<1> HIDE DEF N
<1>3. IsFiniteSet(N) /\ IsFiniteSet(R)
  BY <1>1, <1>2, FS_Subset
<1>4. /\ IsFiniteSet(N \cup R) /\ Cardinality(N \cap R) \in Nat
      /\ Cardinality(N \cup R) = Cardinality(N) + Cardinality(R) - Cardinality(N \cap R)
  <2>1. IsFiniteSet(N \cap R)
    BY <1>3, FS_Subset
  <2> QED
    BY <1>3, <2>1, FS_Union, FS_CardinalityType
<1>5. /\ Cardinality(N) \in Nat /\ Cardinality(R) \in Nat
      /\ Cardinality(Newer(t, A)) \in Nat
      /\ Cardinality(Newer(t, A)) <= Cardinality(N \cup R)
  BY <1>2, <1>3, <1>4, FS_Subset, FS_CardinalityType
<1>6. Cardinality(Newer(t, A)) <= Cardinality(N) + Cardinality(R)
  BY <1>4, <1>5
<1> QED
  BY <1>5, <1>6 DEF N

\* What a rotation deletes has daily_keep newer files that it spares, all but
\* the other workers' complete or cut short: where fewer are left above t, none
\* above t was deleted.
LEMMA NoneAboveDeleted ==
  ASSUME RunsApart, NEW u \in Times, Finish(u), NEW t \in Times,
         Cardinality(Newer(t, (whole \cup Partial)')) + Workers <= DailyKeep
  PROVE  /\ Newer(t, files) \subseteq (whole \cup Partial)' \cup running'
         /\ Cardinality(Newer(t, files)) < DailyKeep
<1> DEFINE W == whole' \cup Partial'
           D == Newer(t, files) \ (W \cup running')
<1> USE TimeAssumption DEF RunsApart, DirTypeOK
<1>1. /\ u \in files /\ whole' = whole \cup {u} /\ running' = running \ {u} /\ u \in running
      /\ files' \subseteq files /\ Keep(files) \subseteq files'
  BY RotationOnlyDeletes DEF Finish
<1>2. files \subseteq Times /\ W \subseteq Times /\ running' \subseteq Times
  BY <1>1 DEF Partial, Times
<1>3. Cardinality(running') \in Nat /\ Cardinality(running') + 1 <= Workers
  <2>1. IsFiniteSet(running)
    <3>1. IsFiniteSet(Times)
      BY FS_Interval DEF Times
    <3> QED
      BY <3>1, FS_Subset
  <2>2. Cardinality(running) \in Nat /\ Cardinality(running') = Cardinality(running) - 1
    BY <1>1, <2>1, FS_RemoveElement, FS_CardinalityType
  <2>3. Cardinality(running') \in Nat
    BY <1>1, <2>1, FS_RemoveElement, FS_CardinalityType
  <2> QED
    BY <2>2, <2>3, KeepAssumption
<1>4. Cardinality(Newer(t, W)) + Workers <= DailyKeep
  BY DEF Newer
<1>5. ASSUME NEW S, Newer(t, S) \subseteq W \cup running'
      PROVE  Cardinality(Newer(t, S)) \in Nat /\ Cardinality(Newer(t, S)) < DailyKeep
  <2> HIDE DEF W
  <2>1. /\ Cardinality(Newer(t, S)) \in Nat /\ Cardinality(Newer(t, W)) \in Nat
        /\ Cardinality(Newer(t, S)) <= Cardinality(Newer(t, W)) + Cardinality(running')
    BY <1>2, <1>5, FewerNewer
  <2> QED
    BY <1>3, <1>4, <2>1, KeepAssumption
<1>6. D = {}
  <2> SUFFICES ASSUME D # {} PROVE FALSE
    OBVIOUS
  <2>1. D \subseteq Times
    BY <1>2 DEF Newer
  <2>2. PICK p \in D : \A q \in D : q <= p
    <3> HIDE DEF D
    <3> QED
      BY <2>1, NewestExists
  <2>3. p \in files /\ p \in Times /\ p > t /\ p \notin files'
    BY <1>1, <2>1, <2>2 DEF Newer, Partial
  <2>4. Newer(p, files) \subseteq W \cup running'
    <3> SUFFICES ASSUME NEW q \in files, q > p, q \notin W \cup running' PROVE FALSE
      BY DEF Newer
    <3>1. q \in Times /\ q > t
      BY <1>2, <2>3 DEF Times
    <3>2. q \in D
      BY <3>1 DEF Newer
    <3> QED
      BY <2>2, <2>3, <3>1, <3>2 DEF Times
  <2> DEFINE A == Newer(p, files)
  <2>5. Newer(t, A) = A
    <3>1. \A q \in A : q > t
      BY <1>2, <2>3 DEF Newer, Times
    <3> QED
      BY <3>1, Zenon DEF Newer
  <2>6. Cardinality(A) \in Nat /\ Cardinality(A) < DailyKeep
    <3>1. Newer(t, A) \subseteq W \cup running'
      BY <2>4, <2>5
    <3> HIDE DEF A, W
    <3> QED
      BY <1>5, <2>5, <3>1
  <2> QED
    BY <1>1, <2>3, <2>6 DEF Keep, Daily
<1>7. Newer(t, files) \subseteq W \cup running'
  BY <1>6
<1> QED
  BY <1>5, <1>7

\* Only a rotation deletes backups, and only what daily_keep newer files
\* outlive.
LEMMA NewestKeptStep ==
  ASSUME RunsApart, RunsApart', NewestKept, [DirNext]_dirVars
  PROVE  NewestKept'
<1> DEFINE W == whole \cup Partial
<1> SUFFICES ASSUME NEW t \in whole', Cardinality(Newer(t, W')) + Workers <= DailyKeep
             PROVE  t \in files'
  BY DEF NewestKept, Newer
<1> USE TimeAssumption, KeepAssumption DEF RunsApart, DirTypeOK
<1>1. t \in Times /\ W' \subseteq Times
  BY DEF Partial
<1>2. ASSUME t \in whole, Newer(t, W) \subseteq W' PROVE t \in files
  <2> HIDE DEF W
  <2>1. /\ Cardinality(Newer(t, W)) \in Nat /\ Cardinality(Newer(t, W')) \in Nat
        /\ Cardinality(Newer(t, W)) <= Cardinality(Newer(t, W')) + Cardinality({})
    BY <1>1, <1>2, FewerNewer
  <2>2. Cardinality(Newer(t, W)) + Workers <= DailyKeep
    BY <2>1, FS_EmptySet
  <2> QED
    BY <1>2, <2>2 DEF NewestKept, W
<1>3. CASE Start
  <2>1. whole' = whole /\ W' = W /\ files \subseteq files'
    BY <1>3 DEF Start, Partial
  <2>2. t \in files
    BY <1>2, <2>1 DEF Newer
  <2> QED
    BY <2>1, <2>2
<1>4. ASSUME NEW u \in Times, Finish(u) PROVE t \in files'
  <2>1. /\ u \in files /\ u \in running /\ running' = running \ {u} /\ whole' = whole \cup {u}
        /\ files' \subseteq files /\ Keep(files) \subseteq files'
    BY <1>4, RotationOnlyDeletes DEF Finish
  <2>2. /\ Newer(t, files) \subseteq W' \cup running'
        /\ Cardinality(Newer(t, files)) < DailyKeep
    BY <1>1, <1>4, NoneAboveDeleted
  <2>3. t \in files
    <3>1. Newer(t, W) \subseteq W'
      BY <2>1, <2>2 DEF Newer, Partial
    <3> QED
      BY <1>2, <2>1, <3>1
  <2> QED
    BY <2>1, <2>2, <2>3 DEF Keep, Daily
<1>5. ASSUME NEW u \in Times, FinishOnly(u) PROVE t \in files'
  <2>1. u \in files /\ whole' = whole \cup {u} /\ files' = files
    BY <1>5 DEF FinishOnly
  <2>2. Newer(t, W) \subseteq W'
    BY <1>5 DEF FinishOnly, Partial, Newer
  <2> QED
    BY <1>2, <2>1, <2>2
<1>6. ASSUME NEW u \in Times, RunFails(u) \/ Kill(u) PROVE t \in files'
  <2>1. running' = running \ {u} /\ whole' = whole /\ files \ {u} \subseteq files'
    BY <1>6 DEF RunFails, Kill
  <2>2. files' \subseteq files /\ u \in running /\ u \notin whole
    BY <1>6 DEF RunFails, Kill
  <2>3. t # u /\ W \subseteq W'
    BY <2>1, <2>2 DEF Partial
  <2> QED
    BY <1>2, <2>1, <2>3 DEF Newer
<1>7. CASE Tick \/ UNCHANGED dirVars
  <2>1. whole' = whole /\ files' = files /\ W' = W
    BY <1>7 DEF Tick, dirVars, Partial
  <2> QED
    BY <1>2, <2>1 DEF Newer
<1> QED
  BY <1>3, <1>4, <1>5, <1>6, <1>7 DEF DirNext

\* However many workers share the directory: a backup stays until daily_keep
\* newer files, complete or cut short, have been made, but for one a further
\* worker.
THEOREM NewestAreKept == DirSpec => []NewestKept
<1>1. DirInit => NewestKept
  BY DEF DirInit, NewestKept
<1>2. RunsApart /\ NewestKept /\ [DirNext]_dirVars => RunsApart' /\ NewestKept'
  <2> SUFFICES ASSUME RunsApart, NewestKept, [DirNext]_dirVars
               PROVE  RunsApart' /\ NewestKept'
    OBVIOUS
  <2>1. RunsApart'
    BY RunsApartStep
  <2> QED
    BY <2>1, NewestKeptStep
<1> QED
  BY <1>1, <1>2, InitRunsApart, PTL DEF DirSpec
=============================================================================
