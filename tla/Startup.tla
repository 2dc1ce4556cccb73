------------------------------ MODULE Startup ------------------------------
(***************************************************************************)
(* How the bot comes up and stays up: on_ready, on_resumed and the         *)
(* periodic loop, which share the command synchronisation (CommandSync)    *)
(* and, with everything else that asks the database, the pool of           *)
(* connections that the first caller of Database.fetch or execute makes.   *)
(*                                                                         *)
(* Discord may send "ready" or "resumed" while an earlier handler still    *)
(* waits: each event is a task of its own, and a member of Events is one   *)
(* that may run.  What the handlers and the loop do besides, the debug log *)
(* and the statistics channels ("upkeep"), keeps its errors to itself      *)
(* (DebugLog and StatsChannels say what it does); here it is one call to   *)
(* the database, because once a call has come back there is a pool.        *)
(***************************************************************************)
EXTENDS CommandSync

CONSTANT Members  \* tasks of commands that ask the database

ASSUME StartupAssumption == /\ Members \cap Triggers = {}
                            /\ IsFiniteSet(Triggers \cup Members)

\* The tasks of on_ready and on_resumed.
Events == Triggers \ {Loop}

VARIABLES
  at,          \* [Callers -> where the task is]
  db,          \* [Callers -> "none", "connecting" or "using"]
  pools,       \* how many pools were made; the latest is Database._pool
  schedulers,  \* how many were started; job_scheduler is None before the first
  loops,       \* how many periodic_command_resync_loop were started
  ready        \* Discord has said "ready" to this process

startVars == <<vars, at, db, pools, schedulers, loops, ready>>
ofProcess == <<schedulers, loops, ready>>

Callers == Triggers \cup Members

MoveTo(t, stage) == at' = [at EXCEPT ![t] = stage]

\* A command asks the database at any time.
Start == [c \in Callers |-> IF c \in Members THEN "asking" ELSE "idle"]

BootRest == /\ at' = Start
            /\ db' = [c \in Callers |-> "none"]
            /\ pools' = 0 /\ schedulers' = 0 /\ loops' = 0 /\ ready' = FALSE

StartInit == /\ Init
             /\ at = Start
             /\ db = [c \in Callers |-> "none"]
             /\ pools = 0 /\ schedulers = 0 /\ loops = 0 /\ ready = FALSE

-----------------------------------------------------------------------------
(* on_ready, on_resumed and the loop *)

OnReady(t) ==
  /\ at[t] = "idle"
  /\ MoveTo(t, "table")
  /\ ready' = TRUE
  /\ UNCHANGED <<vars, db, pools, schedulers, loops>>

\* A session that may be resumed has been ready before.
OnResumed(t) ==
  /\ ready /\ at[t] = "idle"
  /\ MoveTo(t, "refresh")
  /\ UNCHANGED <<vars, db, pools, ofProcess>>

LoopWakes ==
  /\ at[Loop] = "asleep"
  /\ MoveTo(Loop, "refresh")
  /\ UNCHANGED <<vars, db, pools, ofProcess>>

\* After the migration: Scheduler.start never waits, so the test of
\* job_scheduler and its assignment are one step.
ScheduleAnew == schedulers' = schedulers + 1
Schedule == schedulers' = IF schedulers = 0 THEN 1 ELSE schedulers

\* The end of on_ready; the loop's task is done only when the bot is closed.
StartLoop(t) ==
  IF loops = 0 THEN loops' = 1 /\ at' = [at EXCEPT ![t] = "idle", ![Loop] = "asleep"]
               ELSE UNCHANGED loops /\ MoveTo(t, "idle")

\* The upkeep of t is over, however it went: it is what on_ready does last,
\* and what on_resumed and the loop do first.
AfterUpkeep(t) == \/ at[t] = "upkeep" /\ StartLoop(t)
                  \/ at[t] = "refresh" /\ MoveTo(t, "resync") /\ UNCHANGED loops

\* The guild is not in the cache, or channels may not be managed.
UpkeepSkipped(t) ==
  /\ db[t] = "none"
  /\ AfterUpkeep(t)
  /\ UNCHANGED <<vars, db, pools, schedulers, ready>>

-----------------------------------------------------------------------------
(* Calls to the database *)

MayAsk(c) == at[c] \in {"asking", "table", "index", "upkeep", "refresh"}

\* Database.fetch and execute: connect first, if there is no pool.
NeedsPoolAlways == TRUE
NeedsPool == pools = 0
Ask(c) ==
  /\ MayAsk(c) /\ db[c] = "none"
  /\ db' = [db EXCEPT ![c] = IF NeedsPool THEN "connecting" ELSE "using"]
  /\ UNCHANGED <<vars, at, pools, ofProcess>>

\* create_pool returns; the caller takes a connection of the pool it made.
Connected(c) ==
  /\ db[c] = "connecting"
  /\ pools' = pools + 1
  /\ db' = [db EXCEPT ![c] = "using"]
  /\ UNCHANGED <<vars, at, ofProcess>>

Answered(c) ==
  /\ db[c] = "using"
  /\ db' = [db EXCEPT ![c] = "none"]
  /\ \/ at[c] = "asking" /\ UNCHANGED <<at, schedulers, loops>>
     \/ /\ at[c] = "table"
        /\ MoveTo(c, "index")
        /\ UNCHANGED <<schedulers, loops>>
     \/ /\ at[c] = "index"
        /\ Schedule
        /\ MoveTo(c, "sync")
        /\ UNCHANGED loops
     \/ AfterUpkeep(c) /\ UNCHANGED schedulers
  /\ UNCHANGED <<vars, pools, ready>>

\* The connection or the statement fails.  Nothing guards the migration:
\* on_ready ends there.
CallRaises(c) ==
  /\ db[c] # "none"
  /\ Fault
  /\ db' = [db EXCEPT ![c] = "none"]
  /\ \/ at[c] = "asking" /\ UNCHANGED <<at, loops>>
     \/ /\ at[c] \in {"table", "index"}
        /\ MoveTo(c, "idle")
        /\ UNCHANGED loops
     \/ AfterUpkeep(c)
  /\ UNCHANGED <<disabled, global, local, offered, lock, pc, synced, pools, schedulers, ready>>

-----------------------------------------------------------------------------
(* The synchronisation, as CommandSync has it *)

SyncBegins(t) ==
  /\ at[t] \in {"sync", "resync"}
  /\ Begin(t)
  /\ UNCHANGED <<at, db, pools, ofProcess>>

SyncGoesOn(t) == GuildSynced(t) /\ UNCHANGED <<at, db, pools, ofProcess>>

\* sync_app_commands keeps its errors to itself: its caller goes on either way.
AfterSync(t) == CASE at[t] = "sync" -> "upkeep"
                  [] t = Loop       -> "asleep"
                  [] OTHER          -> "idle"
AfterFailedSyncEnds(t) == "idle"
AfterFailedSync(t) == AfterSync(t)

SyncEnds(t) ==
  /\ \/ GlobalSynced(t) /\ MoveTo(t, AfterSync(t))
     \/ SyncRaises(t) /\ MoveTo(t, AfterFailedSync(t))
  /\ UNCHANGED <<db, pools, ofProcess>>

Reboot == Restart /\ BootRest

-----------------------------------------------------------------------------
Call(c) == Ask(c) \/ Connected(c) \/ Answered(c) \/ CallRaises(c)

\* What a task does without waiting for another one.
Runs(t) == UpkeepSkipped(t) \/ Call(t) \/ SyncGoesOn(t) \/ SyncEnds(t)

StartNext == \/ Reboot \/ LoopWakes
             \/ \E t \in Events : OnReady(t) \/ OnResumed(t)
             \/ \E t \in Triggers : SyncBegins(t) \/ Runs(t)
             \/ \E m \in Members : Call(m)

StartSpec == StartInit /\ [][StartNext]_startVars

\* Discord says "ready" to every new process, once at least; the database and
\* Discord answer or fail; the loop's sleep ends; asyncio.Lock serves its
\* waiters in turn.
StartFairSpec ==
  /\ StartSpec
  /\ WF_startVars(~ready /\ \E t \in Events : OnReady(t))
  /\ WF_startVars(LoopWakes)
  /\ \A t \in Triggers : WF_startVars(Runs(t)) /\ SF_startVars(SyncBegins(t))

-----------------------------------------------------------------------------
(* Properties *)

Stages == {"idle", "table", "index", "sync", "upkeep",
           "refresh", "resync", "asleep", "asking"}

StartTypeOK == /\ at \in [Callers -> Stages]
               /\ db \in [Callers -> {"none", "connecting", "using"}]
               /\ pools \in Nat /\ schedulers \in Nat /\ loops \in Nat
               /\ ready \in BOOLEAN

\* However often Discord says "ready", and however the handlers overlap, the
\* process has one scheduler (so one worker and one reaper), one loop, and the
\* loop only after the scheduler.
OneOfEach == /\ schedulers <= 1 /\ loops <= 1
             /\ loops <= schedulers

\* Callers that find no pool each make one, and the last one stays.  What that
\* leaks has a bound: nobody makes a second one, and the loop none.
LeakBounded == pools <= Cardinality(Callers \ {Loop})

\* A bot whose jobs table is in place comes up: whatever calls fail from then
\* on, it has its loop, and its commands are published.
UpOnceMigrated ==
  schedulers = 1 ~> (loops = 1 /\ synced) \/ schedulers = 0

\* "Slash commands are synced to DISCORD_GUILD_ID on startup": once Discord has
\* said "ready" they come to be, unless the process restarts.
SyncedOnStartup == ready ~> synced \/ ~ready
=============================================================================
