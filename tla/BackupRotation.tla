--------------------------- MODULE BackupRotation ---------------------------
(***************************************************************************)
(* The backup directory over the months: a run of the backup handler names *)
(* its file when it starts, and runs _rotate_backups over the directory    *)
(* when it succeeds; a run that is killed leaves a partial file behind.    *)
(* Several workers may run backups at the same time.                       *)
(*                                                                         *)
(* A file is the timestamp in its name.  Files with other names are left   *)
(* out: the loop that parses the names skips them.  The clock does not run *)
(* backwards, and no two runs share a timestamp.                           *)
(***************************************************************************)
EXTENDS Naturals, FiniteSets

CONSTANTS Workers,      \* workers that share the directory
          DailyKeep,    \* daily_keep
          MonthlyKeep,  \* monthly_keep
          MonthOf,      \* the month of a timestamp, counted from some start
          MaxTime,      \* bound: the clock stops here
          DirFaults     \* "unlink" may raise, a run may be "kill"ed

Times == 0..MaxTime

ASSUME KeepAssumption ==
  Workers \in Nat /\ DailyKeep \in Nat \ {0} /\ MonthlyKeep \in Nat
ASSUME TimeAssumption ==
  /\ MaxTime \in Nat
  /\ MonthOf \in [Times -> Nat]
  /\ \A t, u \in Times : t <= u => MonthOf[t] <= MonthOf[u]
ASSUME DirFaultsAssumption == DirFaults \subseteq {"unlink", "kill"}

VARIABLES
  now,      \* datetime.now()
  files,    \* the directory
  running,  \* runs that have not ended
  whole     \* history: every backup that was completed

dirVars == <<now, files, running, whole>>

\* A worker executes one job at a time.
Idle == Cardinality(running) < Workers

Newer(t, S) == {u \in S : u > t}
Older(t, S) == {u \in S : u < t}
SameMonth(t, S) == {u \in S : MonthOf[u] = MonthOf[t]}

\* backup_files[:daily_keep], newest first.
DailyOneLess(S) == {t \in S : Cardinality(Newer(t, S)) + 1 < DailyKeep}
DailyOldest(S) == {t \in S : Cardinality(Older(t, S)) < DailyKeep}
Daily(S) == {t \in S : Cardinality(Newer(t, S)) < DailyKeep}

\* months_diff < monthly_keep, at the time of the rotation.
InWindow(t) == MonthOf[now] < MonthOf[t] + MonthlyKeep

\* One per month: the first that the loop meets.
MonthlyOldest(S) == {t \in S : InWindow(t) /\ SameMonth(t, Older(t, S)) = {}}
Monthly(S) == {t \in S : InWindow(t) /\ SameMonth(t, Newer(t, S)) = {}}

KeepUnsorted(S) == DailyOldest(S) \cup MonthlyOldest(S)
Keep(S) == Daily(S) \cup Monthly(S)

\* What unlink may fail to delete.
Stuck(S) == IF "unlink" \in DirFaults THEN SUBSET (S \ Keep(S)) ELSE {{}}

-----------------------------------------------------------------------------
DirInit == now \in Times /\ files = {} /\ running = {} /\ whole = {}

\* A run takes its timestamp and creates its file.
Start == /\ Idle
         /\ now \notin files
         /\ files' = files \cup {now}
         /\ running' = running \cup {now}
         /\ UNCHANGED <<now, whole>>

\* It succeeds, if its file is still there, and rotates.
Finish(t) == /\ t \in running \cap files
             /\ \E stuck \in Stuck(files) : files' = Keep(files) \cup stuck
             /\ running' = running \ {t}
             /\ whole' = whole \cup {t}
             /\ UNCHANGED now

\* The same with skip_rotation in the payload.
FinishOnly(t) == /\ t \in running \cap files
                 /\ running' = running \ {t}
                 /\ whole' = whole \cup {t}
                 /\ UNCHANGED <<now, files>>

\* It fails, and cleans up.
RunFails(t) == /\ t \in running
               /\ files' = files \ {t}
               /\ running' = running \ {t}
               /\ UNCHANGED <<now, whole>>

\* It is killed or cancelled: its file stays, cut short.
Kill(t) == /\ "kill" \in DirFaults
           /\ t \in running
           /\ running' = running \ {t}
           /\ UNCHANGED <<now, files, whole>>

Tick == now < MaxTime /\ now' = now + 1 /\ UNCHANGED <<files, running, whole>>

DirNext == \/ Start \/ Tick
           \/ \E t \in Times : Finish(t) \/ FinishOnly(t) \/ RunFails(t) \/ Kill(t)

DirSpec == DirInit /\ [][DirNext]_dirVars

-----------------------------------------------------------------------------
(* Properties *)

DirTypeOK == /\ now \in Times
             /\ files \subseteq Times /\ running \subseteq Times /\ whole \subseteq Times
             /\ Cardinality(running) <= Workers

\* The partial files that killed runs left and the rotation takes for backups.
Partial == files \ (whole \cup running)

\* Through any number of rotations, every month of the window that saw a
\* backup is covered by its newest one (one worker), or by a newer partial
\* file of that month, which the rotation takes for it.
MonthCovered ==
  \A t \in whole : InWindow(t) /\ SameMonth(t, Newer(t, whole)) = {}
                  => t \in files \/ SameMonth(t, Newer(t, Partial)) # {}

\* A backup is there as long as fewer than daily_keep newer ones have been
\* made, partial ones counted; each further worker may cost one, for a rotation
\* takes the file of a run that fails later for a backup.
NewestKept ==
  \A t \in whole : Cardinality(Newer(t, whole \cup Partial)) + Workers <= DailyKeep
                  => t \in files

\* The newest backup that was completed is never deleted, whatever partial
\* files of killed runs the rotations take for backups (one worker).
LatestWholeSurvives == \A t \in whole : Newer(t, whole) = {} => t \in files
=============================================================================
