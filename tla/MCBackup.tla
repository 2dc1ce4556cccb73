------------------------------ MODULE MCBackup ------------------------------
(***************************************************************************)
(* For TLC: one run of the backup handler (BackupJob), or the directory    *)
(* over the months (BackupRotation), which one run is a refinement of.  A  *)
(* behaviour is one of either machine, the other at rest.                  *)
(***************************************************************************)
EXTENDS BackupJob, BackupRotation

CONSTANT PerMonth  \* backups that can be made in a month

Months == [t \in Times |-> t \div PerMonth]

\* The handler has raised before anything was started.
JobAtRest == /\ dump = "none" /\ dumped = 0 /\ toWarn = 0 /\ dumpOut = 0 /\ dumpErr = 0
             /\ gzip = "none" /\ gzIn = 0 /\ inOpen = TRUE /\ gzOut = 0
             /\ pipe = "idle" /\ write = "idle"
             /\ exists = FALSE /\ written = 0 /\ stuck = FALSE
             /\ handler = "returned" /\ result = "raised" /\ job = "retried"

DirAtRest == now = MaxTime /\ files = {} /\ running = {} /\ whole = {}

MCInit == (Init /\ DirAtRest) \/ (JobAtRest /\ DirInit)
MCNext == (Next /\ UNCHANGED dirVars) \/ (DirNext /\ UNCHANGED vars)
MCSpec == MCInit /\ [][MCNext]_<<vars, dirVars>> /\ Fairness
=============================================================================
