----------------------------- MODULE BackupJob -----------------------------
(***************************************************************************)
(* One run of the database_backup handler: pg_dump | gzip > file, plumbed  *)
(* by two coroutines inside the bot (pipe_to_gzip and write_to_file), and  *)
(* what the worker records of its result.  Five actors run concurrently:   *)
(* the two processes, the two coroutines and the handler.                  *)
(*                                                                         *)
(* Abstracted: the dump is a number of chunks, gzip emits one chunk for    *)
(* each it takes, a pipe is the number of chunks it holds (the operating   *)
(* system's buffer and asyncio's together).                                *)
(***************************************************************************)
EXTENDS Naturals

CONSTANTS Chunks,    \* length of the dump
          Warnings,  \* the most that pg_dump writes to stderr in the course of it
          PipeSize,  \* what a pipe holds before its writer blocks
          Faults     \* what may go wrong

ASSUME BackupAssumption ==
  /\ Chunks \in Nat /\ Warnings \in Nat /\ PipeSize \in Nat \ {0}
  /\ Faults \subseteq {"mkdir", "spawn", "dump", "gzip", "open", "write",
                       "unlink", "rotate", "cancel"}

VARIABLES
  dump,      \* state of the pg_dump process
  dumped,    \* chunks it has written so far
  toWarn,    \* warnings it has yet to write
  dumpOut,   \* chunks in its stdout
  dumpErr,   \* warnings in its stderr
  gzip,      \* state of the gzip process
  gzIn,      \* chunks in its stdin
  inOpen,    \* gzip_proc.stdin has not been closed
  gzOut,     \* chunks in its stdout
  pipe,      \* where pipe_to_gzip is
  write,     \* where write_to_file is
  exists,    \* backup_path.exists()
  written,   \* chunks in the file
  stuck,     \* history: unlink has raised
  handler,   \* where handle_database_backup is
  result,    \* how it ended
  job        \* the status the worker gave the job

pgdump  == <<dump, dumped, toWarn, dumpOut, dumpErr>>
gz      == <<gzip, gzIn, inOpen, gzOut>>
file    == <<exists, written, stuck>>
control == <<handler, result, job>>
vars    == <<pgdump, gz, pipe, write, file, control>>

ProcessStates == {"none", "running", "ok", "failed"}
Ended(p) == p \in {"ok", "failed"}

\* StreamWriter.drain and wait_closed wait for this.
Drained == gzIn <= PipeSize

\* What a return code other than 0 makes of the run.
BadExit == dump = "failed" \/ gzip = "failed"

Return(r) == handler' = "returned" /\ result' = r

\* backup_path.unlink() of the failure branches and of the except clause.
CleanUpForgotten == UNCHANGED file
CleanUp == exists' = FALSE /\ written' = 0 /\ UNCHANGED stuck

-----------------------------------------------------------------------------
Init == /\ dump = "none" /\ dumped = 0 /\ toWarn \in 0..Warnings
        /\ dumpOut = 0 /\ dumpErr = 0
        /\ gzip = "none" /\ gzIn = 0 /\ inOpen = TRUE /\ gzOut = 0
        /\ pipe = "idle" /\ write = "idle"
        /\ exists = FALSE /\ written = 0 /\ stuck = FALSE
        /\ handler = "starting" /\ result = "none" /\ job = "running"

\* Both processes are spawned, both tasks created, gather awaits them.
Spawn == /\ handler = "starting"
         /\ dump' = "running" /\ gzip' = "running"
         /\ pipe' = "reading" /\ write' = "opening"
         /\ handler' = "gathering"
         /\ UNCHANGED <<dumped, toWarn, dumpOut, dumpErr, gzIn, inOpen, gzOut,
                        file, result, job>>

\* create_subprocess_exec raises, for pg_dump or, with pg_dump running, for
\* gzip; the except clause finds no file.
SpawnRaises == /\ "spawn" \in Faults
               /\ handler = "starting"
               /\ dump' \in {"none", "running"}
               /\ Return("failure")
               /\ UNCHANGED <<dumped, toWarn, dumpOut, dumpErr, gz, pipe, write,
                              file, job>>

\* mkdir is outside of the try block: the handler raises.
MkdirRaises == /\ "mkdir" \in Faults
               /\ handler = "starting"
               /\ Return("raised")
               /\ UNCHANGED <<pgdump, gz, pipe, write, file, job>>

-----------------------------------------------------------------------------
DumpChunk == /\ dump = "running"
             /\ dumped < Chunks /\ dumpOut < PipeSize
             /\ dumped' = dumped + 1
             /\ dumpOut' = dumpOut + 1
             /\ UNCHANGED <<dump, toWarn, dumpErr, gz, pipe, write, file, control>>

DumpWarning == /\ dump = "running"
               /\ toWarn > 0 /\ dumpErr < PipeSize
               /\ toWarn' = toWarn - 1
               /\ dumpErr' = dumpErr + 1
               /\ UNCHANGED <<dump, dumped, dumpOut, gz, pipe, write, file, control>>

DumpExits == /\ dump = "running"
             /\ dumped = Chunks /\ toWarn = 0
             /\ dump' = "ok"
             /\ UNCHANGED <<dumped, toWarn, dumpOut, dumpErr, gz, pipe, write,
                            file, control>>

DumpDies == /\ "dump" \in Faults
            /\ dump = "running"
            /\ dump' = "failed"
            /\ UNCHANGED <<dumped, toWarn, dumpOut, dumpErr, gz, pipe, write,
                           file, control>>

GzipChunk == /\ gzip = "running"
             /\ gzIn > 0 /\ gzOut < PipeSize
             /\ gzIn' = gzIn - 1
             /\ gzOut' = gzOut + 1
             /\ UNCHANGED <<pgdump, gzip, inOpen, pipe, write, file, control>>

\* End of its input.
GzipExits == /\ gzip = "running"
             /\ gzIn = 0 /\ ~inOpen
             /\ gzip' = "ok"
             /\ UNCHANGED <<pgdump, gzIn, inOpen, gzOut, pipe, write, file, control>>

GzipDies == /\ "gzip" \in Faults
            /\ gzip = "running"
            /\ gzip' = "failed"
            /\ UNCHANGED <<pgdump, gzIn, inOpen, gzOut, pipe, write, file, control>>

-----------------------------------------------------------------------------
\* pipe_to_gzip: read returns a chunk, write buffers it.
PipeChunk == /\ pipe = "reading"
             /\ dumpOut > 0
             /\ dumpOut' = dumpOut - 1
             /\ gzIn' = gzIn + 1
             /\ pipe' = "draining"
             /\ UNCHANGED <<dump, dumped, toWarn, dumpErr, gzip, inOpen, gzOut,
                            write, file, control>>

PipeDrained == /\ pipe = "draining"
               /\ Drained
               /\ pipe' = "reading"
               /\ UNCHANGED <<pgdump, gz, write, file, control>>

\* read returns b"": only at the end of pg_dump's output.
AtDumpEndTooEarly == dumpOut = 0 /\ dumped > 0
AtDumpEnd == dumpOut = 0 /\ Ended(dump)

\* gzip_proc.stdin.close()
CloseForgotten == UNCHANGED inOpen
Close == inOpen' = FALSE

PipeEnd == /\ pipe = "reading"
           /\ AtDumpEnd
           /\ Close
           /\ pipe' = "closing"
           /\ UNCHANGED <<pgdump, gzip, gzIn, gzOut, write, file, control>>

PipeClosed == /\ pipe = "closing"
              /\ Drained
              /\ pipe' = "done"
              /\ UNCHANGED <<pgdump, gz, write, file, control>>

\* gzip is gone: drain or wait_closed raises, which is logged and swallowed.
PipeBreaks == /\ pipe \in {"draining", "closing"}
              /\ gzip = "failed"
              /\ pipe' = "done"
              /\ UNCHANGED <<pgdump, gz, write, file, control>>

WriteOpens == /\ write = "opening"
              /\ exists' = TRUE
              /\ write' = "reading"
              /\ UNCHANGED <<pgdump, gz, pipe, written, stuck, control>>

\* open raises, which is logged and swallowed.
OpenRaises == /\ "open" \in Faults
              /\ write = "opening"
              /\ write' = "failed"
              /\ UNCHANGED <<pgdump, gz, pipe, file, control>>

WriteChunk == /\ write = "reading"
              /\ gzOut > 0
              /\ gzOut' = gzOut - 1
              /\ written' = written + 1
              /\ UNCHANGED <<pgdump, gzip, gzIn, inOpen, pipe, write, exists, stuck,
                              control>>

\* read returns b"": only at the end of gzip's output.
AtGzipEnd == gzOut = 0 /\ Ended(gzip)

\* No space is left for the chunk, or, when the file is closed, for the last
\* of what was buffered: out_file raises, which is logged and swallowed.
WriteRaises == /\ "write" \in Faults
               /\ write = "reading"
               /\ \/ gzOut > 0 /\ gzOut' = gzOut - 1 /\ UNCHANGED written
                  \/ AtGzipEnd /\ written > 0 /\ written' = written - 1 /\ UNCHANGED gzOut
               /\ write' = "failed"
               /\ UNCHANGED <<pgdump, gzip, gzIn, inOpen, pipe, exists, stuck, control>>

WriteEnd == /\ write = "reading"
            /\ AtGzipEnd
            /\ write' = "done"
            /\ UNCHANGED <<pgdump, gz, pipe, file, control>>

-----------------------------------------------------------------------------
\* gather returns when both tasks have.
Gathered == /\ handler = "gathering"
            /\ pipe = "done" /\ write \in {"done", "failed"}
            /\ handler' = "stderr"
            /\ UNCHANGED <<pgdump, gz, pipe, write, file, result, job>>

\* pg_dump.stderr.read(): what it holds, up to its end.
ReadStderr == /\ handler = "stderr"
              /\ dumpErr > 0
              /\ dumpErr' = 0
              /\ UNCHANGED <<dump, dumped, toWarn, dumpOut, gz, pipe, write, file,
                             control>>

\* ... and both processes have ended.
Reap == /\ handler = "stderr"
        /\ dumpErr = 0 /\ Ended(dump) /\ Ended(gzip)
        /\ handler' = "checking"
        /\ UNCHANGED <<pgdump, gz, pipe, write, file, result, job>>

\* Both return codes are 0, stat finds the file, and the rotation returns.
Succeed == /\ handler = "checking"
           /\ ~BadExit /\ exists
           /\ Return("success")
           /\ UNCHANGED <<pgdump, gz, pipe, write, file, job>>

Fail == /\ handler = "checking"
        /\ BadExit \/ ~exists
        /\ CleanUp
        /\ Return("failure")
        /\ UNCHANGED <<pgdump, gz, pipe, write, job>>

\* unlink raises, and once more in the except clause, where it is ignored.
FailUnlinkRaises == /\ "unlink" \in Faults
                    /\ handler = "checking"
                    /\ BadExit /\ exists
                    /\ stuck' = TRUE
                    /\ Return("failure")
                    /\ UNCHANGED <<pgdump, gz, pipe, write, exists, written, job>>

\* _rotate_backups raises: the except clause removes the finished backup,
\* unless unlink raises as well.
RotateRaises == /\ "rotate" \in Faults
                /\ handler = "checking"
                /\ ~BadExit /\ exists
                /\ \/ CleanUp
                   \/ "unlink" \in Faults /\ stuck' = TRUE /\ UNCHANGED <<exists, written>>
                /\ Return("failure")
                /\ UNCHANGED <<pgdump, gz, pipe, write, job>>

\* gather, cancelled, cancels both of its tasks.
StopGatherForgotten == UNCHANGED <<pipe, write>>
StopGather == /\ pipe' = "done"
              /\ write' = IF write = "failed" THEN write ELSE "done"

\* Scheduler.stop cancels the worker's task; CancelledError is no Exception:
\* no clause of the handler or of the worker runs, and the file stays.
Cancel == /\ "cancel" \in Faults
          /\ \/ /\ handler = "starting"
                /\ dump' \in {"none", "running"}
                /\ UNCHANGED <<pipe, write>>
             \/ /\ handler \in {"gathering", "stderr"}
                /\ StopGather
                /\ UNCHANGED dump
          /\ Return("cancelled")
          /\ UNCHANGED <<dumped, toWarn, dumpOut, dumpErr, gz, file, job>>

\* Worker._execute: a result is a result, only an exception is a failure.
Record == /\ handler = "returned"
          /\ job = "running"
          /\ \/ result \in {"success", "failure"} /\ job' = "completed"
             \/ result = "raised" /\ job' = "retried"
          /\ UNCHANGED <<pgdump, gz, pipe, write, file, handler, result>>

-----------------------------------------------------------------------------
DumpStep == DumpChunk \/ DumpWarning \/ DumpExits
GzipStep == GzipChunk \/ GzipExits
PipeStep == PipeChunk \/ PipeDrained \/ PipeEnd \/ PipeClosed \/ PipeBreaks
WriteStep == WriteOpens \/ OpenRaises \/ WriteChunk \/ WriteRaises \/ WriteEnd
HandlerStep == \/ Spawn \/ SpawnRaises \/ MkdirRaises
               \/ Gathered \/ ReadStderr \/ Reap
               \/ Succeed \/ Fail \/ FailUnlinkRaises \/ RotateRaises
               \/ Record

Next == \/ DumpStep \/ GzipStep \/ PipeStep \/ WriteStep \/ HandlerStep
        \/ DumpDies \/ GzipDies \/ Cancel

Spec == Init /\ [][Next]_vars

\* The operating system runs both processes, the event loop every task; no
\* process has to die.
Fairness == /\ WF_vars(DumpStep) /\ WF_vars(GzipStep)
            /\ WF_vars(PipeStep) /\ WF_vars(WriteStep) /\ WF_vars(HandlerStep)

-----------------------------------------------------------------------------
(* Properties *)

TypeOK ==
  /\ dump \in ProcessStates /\ gzip \in ProcessStates
  /\ dumped \in 0..Chunks /\ toWarn \in 0..Warnings
  /\ dumpOut \in 0..PipeSize /\ dumpErr \in 0..PipeSize
  /\ gzIn \in 0..PipeSize + 1 /\ gzOut \in 0..PipeSize
  /\ inOpen \in BOOLEAN /\ exists \in BOOLEAN /\ stuck \in BOOLEAN
  /\ written \in 0..Chunks
  /\ pipe \in {"idle", "reading", "draining", "closing", "done"}
  /\ write \in {"idle", "opening", "reading", "done", "failed"}
  /\ handler \in {"starting", "gathering", "stderr", "checking", "returned"}
  /\ result \in {"none", "success", "failure", "raised", "cancelled"}
  /\ job \in {"running", "completed", "retried"}

\* A backup reported as a success holds the whole dump, although both
\* coroutines swallow their errors: what the return codes do not show, the
\* missing file does.  A write that raised goes unnoticed only when what is
\* missing is no more than the pipe took after it, and that write itself: with
\* more to come gzip, and with it the handler, never ends.
SuccessIsComplete ==
  result = "success" =>
    /\ exists
    /\ \/ written = Chunks
       \/ write = "failed" /\ Chunks <= written + PipeSize + 1

\* A backup reported as a failure leaves no file that the rotation would
\* count as a backup, whichever of the actors failed, unless unlink did.
FailureLeavesNoFile == result = "failure" => ~exists \/ stuck

\* Nobody reads gzip's output any more, nor pg_dump's, nor yet pg_dump's
\* stderr, and it takes no more of what is still to be written.
Unread == \/ write = "failed" /\ gzip = "running" /\ gzOut = PipeSize /\ gzIn > 0
          \/ pipe = "done" /\ dump = "running" /\ dumpOut = PipeSize /\ dumped < Chunks
          \/ handler = "gathering" /\ dump = "running" /\ dumpErr = PipeSize /\ toWarn > 0

\* The handler returns, whatever fails, unless a process is held up for ever
\* by a full pipe that nobody reads: once the file cannot be written, once gzip
\* is gone, or when pg_dump warns more than a pipe holds.  Nothing else keeps a
\* backup, and with it the worker, from coming to an end.
EveryBackupEnds == <>(handler = "returned") \/ <>[]Unread

\* The directory as BackupRotation has it, seen by this one run: its file, made
\* at time 0, the run that fills it, and the backup it comes to be.
Directory == INSTANCE BackupRotation WITH
  Workers <- 1, DailyKeep <- 1, MonthlyKeep <- 1,
  MaxTime <- 0, MonthOf <- [t \in {0} |-> 0], DirFaults <- {"unlink", "kill"},
  now <- 0,
  files <- IF exists THEN {0} ELSE {},
  running <- IF exists /\ handler # "returned" THEN {0} ELSE {},
  whole <- IF result = "success" THEN {0} ELSE {}

\* Whatever the five actors do, the directory sees one run that begins, and is
\* completed, cleaned up or abandoned: no file appears or changes its standing
\* once the handler is gone, which is what the rotation of later runs rests on.
ImplementsRotation == Directory!DirSpec
=============================================================================
