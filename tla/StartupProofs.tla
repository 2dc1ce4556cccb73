--------------------------- MODULE StartupProofs -------------------------
(***************************************************************************)
(* What a completed sync promises, that the process has one scheduler and  *)
(* one loop, and how many pools it leaks at most: for every set of         *)
(* commands, tasks and failures.                                           *)
(*                                                                         *)
(* GuildOffersEnabled alone is not inductive: a sync that starts from an   *)
(* offer that is right could publish a tree that is wrong.  SyncInv adds   *)
(* what the tree can be (whole, before the first sync; moved into the      *)
(* guild afterwards) and what a caller knows that waits for Discord.       *)
(* UpInv says how far on_ready must have come for a scheduler, a loop and  *)
(* a pool to exist, and PoolInv counts the callers that still connect.     *)
(***************************************************************************)
EXTENDS Startup, FiniteSetTheorems, TLAPS

Wanted == Commands \ disabled

\* The tree is as loaded, or the sync has moved it.
TreeOK == \/ local = {} /\ global = Commands /\ ~synced /\ \A t \in Triggers : pc[t] = "idle"
          \/ local = Wanted /\ global \subseteq Wanted

\* Before the global set is published it is empty, and the guild's is out.
PublishOK == \A t \in Triggers :
               pc[t] = "global" => /\ global = {} /\ local = Wanted
                                   /\ offered.guild = Wanted

SyncedOK == synced => global = {} /\ local = Wanted

SyncInv == TypeOK /\ TreeOK /\ PublishOK /\ SyncedOK /\ GuildOffersEnabled

\* The bot starts in the invariant, whatever Discord offers.
LEMMA InitSyncInv == Init => SyncInv
  <1> SUFFICES ASSUME Init
               PROVE  SyncInv
    OBVIOUS
  <1>1. TypeOK
    <2>1. pc \in [Triggers -> {"idle", "guild", "global"}]
      BY DEF Init
    <2>2. \A t \in Triggers : pc[t] # "idle" <=> lock = t
      BY SyncAssumption DEF Init
    <2>3. lock \in Triggers \cup {None} /\ faults \in 0..MaxFaults
      BY SyncAssumption DEF Init
    <2>4. synced \in BOOLEAN
      BY Zenon DEF Init
    <2> QED
      BY <2>1, <2>2, <2>3, <2>4 DEF Init, TypeOK
  <1>2. TreeOK /\ PublishOK
    <2>1. \A t \in Triggers : pc[t] = "idle"
      BY DEF Init
    <2>2. synced = FALSE
      BY DEF Init
    <2> QED
      BY <2>1, <2>2 DEF Init, TreeOK, PublishOK
  <1>3. SyncedOK /\ GuildOffersEnabled
    BY DEF Init, SyncedOK, GuildOffersEnabled
  <1> QED
    BY <1>1, <1>2, <1>3 DEF SyncInv

\* Begin keeps it: the copy of a whole tree is what the guild should offer,
\* and a copy of an emptied one adds nothing.
LEMMA BeginSyncInv ==
  ASSUME SyncInv, NEW t \in Triggers, Begin(t)
  PROVE  SyncInv'
  <1> USE SyncAssumption DEF SyncInv, Begin, Goto, Wanted, Copy, Enabled
  <1>1. TypeOK'
    BY DEF TypeOK
  <1>2. local' = Wanted' /\ global' \subseteq Wanted'
    BY DEF TreeOK, TypeOK
  <1>3. PublishOK'
    BY DEF PublishOK, TypeOK
  <1>4. SyncedOK' /\ GuildOffersEnabled'
    BY DEF SyncedOK, GuildOffersEnabled
  <1> QED
    BY <1>1, <1>2, <1>3, <1>4 DEF TreeOK

\* So does the first answer: the guild's offer is the guild's tree.
LEMMA GuildSyncedSyncInv ==
  ASSUME SyncInv, NEW t \in Triggers, GuildSynced(t)
  PROVE  SyncInv'
  <1> USE SyncAssumption DEF SyncInv, GuildSynced, Goto, Wanted, Clear
  <1>1. TypeOK'
    BY DEF TypeOK
  <1>2. local' = Wanted' /\ global' = {}
    BY DEF TreeOK
  <1>3. offered'.guild = Wanted'
    BY <1>2 DEF TypeOK
  <1>4. PublishOK' /\ SyncedOK'
    BY <1>2, <1>3 DEF PublishOK, SyncedOK
  <1>5. GuildOffersEnabled'
    BY <1>3 DEF GuildOffersEnabled, SyncedOK, TypeOK
  <1> QED
    BY <1>1, <1>2, <1>4, <1>5 DEF TreeOK

\* And the second: what is published everywhere is empty.
LEMMA GlobalSyncedSyncInv ==
  ASSUME SyncInv, NEW t \in Triggers, GlobalSynced(t)
  PROVE  SyncInv'
  <1> USE SyncAssumption DEF SyncInv, GlobalSynced, Goto, Wanted, Release
  <1>1. TypeOK'
    BY DEF TypeOK
  <1>2. global = {} /\ local = Wanted /\ offered.guild = Wanted
    BY DEF PublishOK
  <1>3. offered' = [guild |-> Wanted, everywhere |-> {}]
    BY <1>2 DEF TypeOK
  <1>4. PublishOK' /\ SyncedOK' /\ TreeOK'
    BY <1>2, <1>3 DEF PublishOK, SyncedOK, TreeOK
  <1>5. GuildOffersEnabled'
    BY <1>3 DEF GuildOffersEnabled
  <1> QED
    BY <1>1, <1>4, <1>5

\* A call on its way publishes what the guild should have, or nothing.
LEMMA PublishedIs ==
  ASSUME SyncInv, NEW t \in Triggers, pc[t] # "idle"
  PROVE  /\ Published(t) \in [guild : SUBSET Commands, everywhere : SUBSET Commands]
         /\ Published(t).guild \in {offered.guild, Wanted}
         /\ Published(t).everywhere \in {offered.everywhere, {}}
  <1>1. local = Wanted /\ global \subseteq Wanted
    BY DEF SyncInv, TreeOK
  <1>2. CASE pc[t] = "guild"
    BY <1>1, <1>2 DEF Published, Wanted, SyncInv, TypeOK
  <1>3. CASE pc[t] = "global"
    BY <1>1, <1>3 DEF Published, Wanted, SyncInv, TypeOK, PublishOK
  <1> QED
    BY <1>2, <1>3 DEF SyncInv, TypeOK

\* A call that raises, whether or not it took effect, publishes nothing else.
LEMMA SyncRaisesSyncInv ==
  ASSUME SyncInv, NEW t \in Triggers, SyncRaises(t)
  PROVE  SyncInv'
  <1> USE SyncAssumption DEF SyncInv, SyncRaises, Goto, Wanted, Release, Fault
  <1>1. TypeOK'
    BY PublishedIs DEF TypeOK
  <1>2. local = Wanted /\ global \subseteq Wanted
    BY DEF TreeOK
  <1>3. /\ offered' \in [guild : SUBSET Commands, everywhere : SUBSET Commands]
        /\ offered'.guild \in {offered.guild, Wanted}
        /\ offered'.everywhere \in {offered.everywhere, {}}
    BY PublishedIs DEF TypeOK
  <1>4. PublishOK' /\ SyncedOK' /\ TreeOK'
    BY <1>2, <1>3 DEF PublishOK, SyncedOK, TreeOK
  <1>5. GuildOffersEnabled'
    BY <1>3 DEF GuildOffersEnabled
  <1> QED
    BY <1>1, <1>4, <1>5

\* A restart forgets what was synced.
LEMMA RestartSyncInv ==
  ASSUME SyncInv, Restart
  PROVE  SyncInv'
  <1> USE SyncAssumption DEF SyncInv, Restart, Boot
  <1>1. \A t \in Triggers : pc'[t] = "idle"
    OBVIOUS
  <1>2. synced' = FALSE
    OBVIOUS
  <1>3. TypeOK'
    <2>1. pc' \in [Triggers -> {"idle", "guild", "global"}]
      OBVIOUS
    <2>2. synced' \in BOOLEAN
      BY Zenon, <1>2
    <2>3. faults' \in 0..MaxFaults
      BY DEF Fault, TypeOK
    <2>4. offered' \in [guild : SUBSET Commands, everywhere : SUBSET Commands]
      BY PublishedIs DEF TypeOK
    <2> QED
      BY <1>1, <2>1, <2>2, <2>3, <2>4 DEF TypeOK
  <1> QED
    BY <1>1, <1>2, <1>3 DEF TreeOK, PublishOK, SyncedOK, GuildOffersEnabled

\* A call to the database that raises leaves the commands alone.
LEMMA CallRaisesSyncInv ==
  ASSUME SyncInv, NEW c \in Callers, CallRaises(c)
  PROVE  SyncInv'
  <1>1. UNCHANGED <<disabled, global, local, offered, lock, pc, synced>>
    BY DEF CallRaises
  <1>2. faults' \in 0..MaxFaults
    BY SyncAssumption DEF CallRaises, Fault, SyncInv, TypeOK
  <1> QED
    BY <1>1, <1>2
    DEF SyncInv, TypeOK, TreeOK, PublishOK, SyncedOK, GuildOffersEnabled, Wanted

\* So does everything that leaves the variables of CommandSync alone.
LEMMA SameSyncInv == SyncInv /\ UNCHANGED vars => SyncInv'
  BY DEF vars, SyncInv, TypeOK, TreeOK, PublishOK, SyncedOK, GuildOffersEnabled, Wanted

\* Every step of the bot keeps the synchronisation's invariant.
LEMMA NextSyncInv == SyncInv /\ [StartNext]_startVars => SyncInv'
  <1> SUFFICES ASSUME SyncInv, [StartNext]_startVars
               PROVE  SyncInv'
    OBVIOUS
  <1>1. CASE Reboot
    BY <1>1, RestartSyncInv DEF Reboot
  <1>2. CASE LoopWakes
    BY <1>2, SameSyncInv DEF LoopWakes
  <1>3. ASSUME NEW t \in Events, OnReady(t) \/ OnResumed(t)
        PROVE  SyncInv'
    BY <1>3, SameSyncInv DEF OnReady, OnResumed
  <1>4. ASSUME NEW t \in Triggers, SyncBegins(t)
        PROVE  SyncInv'
    BY <1>4, BeginSyncInv DEF SyncBegins
  <1>5. ASSUME NEW t \in Triggers, SyncGoesOn(t) \/ SyncEnds(t)
        PROVE  SyncInv'
    BY <1>5, GuildSyncedSyncInv, GlobalSyncedSyncInv, SyncRaisesSyncInv DEF SyncGoesOn, SyncEnds
  <1>6. ASSUME NEW t \in Triggers, UpkeepSkipped(t)
        PROVE  SyncInv'
    BY <1>6, SameSyncInv DEF UpkeepSkipped
  <1>7. ASSUME NEW c \in Callers, Call(c)
        PROVE  SyncInv'
    BY <1>7, SameSyncInv, CallRaisesSyncInv DEF Call, Ask, Connected, Answered
  <1>8. CASE UNCHANGED startVars
    BY <1>8, SameSyncInv DEF startVars
  <1> QED
    BY <1>1, <1>2, <1>3, <1>4, <1>5, <1>6, <1>7, <1>8 DEF StartNext, Runs, Callers

\* sync_app_commands leaves the guild with the enabled commands and nobody
\* else with any, and no later sync or failure undoes it.
THEOREM GuildOffers == StartSpec => []GuildOffersEnabled
  <1>1. StartInit => SyncInv
    BY InitSyncInv DEF StartInit
  <1>2. SyncInv => GuildOffersEnabled
    BY DEF SyncInv
  <1> QED
    BY <1>1, <1>2, NextSyncInv, PTL DEF StartSpec

\* No step publishes a command outside of the guild.
THEOREM NothingOutside == StartSpec => NothingNewOutside
  <1>1. StartInit => SyncInv
    BY InitSyncInv DEF StartInit
  <1>2. SyncInv /\ [StartNext]_startVars => [offered'.everywhere \subseteq offered.everywhere]_vars
    <2> SUFFICES ASSUME SyncInv, StartNext
                 PROVE  offered'.everywhere \subseteq offered.everywhere
      BY DEF startVars
    <2>1. CASE UNCHANGED offered
      BY <2>1
    <2>2. ASSUME NEW t \in Triggers, GuildSynced(t)
          PROVE  offered'.everywhere \subseteq offered.everywhere
      BY <2>2 DEF GuildSynced, SyncInv, TypeOK
    <2>3. ASSUME NEW t \in Triggers, GlobalSynced(t)
          PROVE  offered'.everywhere \subseteq offered.everywhere
      BY <2>3 DEF GlobalSynced, SyncInv, TypeOK, PublishOK
    <2>4. ASSUME NEW t \in Triggers, SyncRaises(t)
          PROVE  offered'.everywhere \subseteq offered.everywhere
      BY <2>4, PublishedIs DEF SyncRaises
    <2>5. ASSUME NEW t \in Triggers, SyncGoesOn(t) \/ SyncEnds(t)
          PROVE  offered'.everywhere \subseteq offered.everywhere
      BY <2>2, <2>3, <2>4, <2>5 DEF SyncGoesOn, SyncEnds
    <2>6. CASE Reboot \/ LoopWakes
      BY <2>1, <2>6, PublishedIs DEF Reboot, Restart, LoopWakes, vars
    <2>7. ASSUME NEW t \in Triggers, OnReady(t) \/ OnResumed(t) \/ UpkeepSkipped(t)
          PROVE  offered'.everywhere \subseteq offered.everywhere
      BY <2>1, <2>7 DEF OnReady, OnResumed, UpkeepSkipped, vars
    <2>8. ASSUME NEW t \in Triggers, SyncBegins(t)
          PROVE  offered'.everywhere \subseteq offered.everywhere
      BY <2>1, <2>8 DEF SyncBegins, Begin
    <2>9. ASSUME NEW c \in Callers, Call(c)
          PROVE  offered'.everywhere \subseteq offered.everywhere
      BY <2>1, <2>9 DEF Call, Ask, Connected, Answered, CallRaises, vars
    <2> QED
      BY <2>5, <2>6, <2>7, <2>8, <2>9 DEF StartNext, Runs, Callers, Events
  <1> QED
    BY <1>1, <1>2, InitSyncInv, NextSyncInv, PTL DEF StartSpec, NothingNewOutside

-----------------------------------------------------------------------------
(* How far on_ready has come *)

\* A scheduler is there once the migration is through; on_ready goes on from
\* there, and the loop is started at its end.
UpOK == /\ OneOfEach
        /\ \A t \in Events : at[t] \in {"sync", "upkeep"} => schedulers = 1
        /\ at[Loop] \in {"idle", "asleep", "refresh", "resync"}
        /\ loops = 0 => at[Loop] = "idle"
        /\ \A m \in Members : at[m] = "asking"

\* A task is in sync_app_commands only where its caller awaits it.
SyncAt == \A t \in Triggers : pc[t] # "idle" => at[t] \in {"sync", "resync"}

UpInv == SyncInv /\ StartTypeOK /\ SyncAt /\ UpOK

\* It begins with nothing started.
LEMMA InitUpInv == StartInit => UpInv
  <1> SUFFICES ASSUME StartInit
               PROVE  UpInv
    OBVIOUS
  <1> USE SyncAssumption, StartupAssumption DEF StartInit, Start, Callers, Events
  <1>1. ready \in BOOLEAN
    BY Zenon
  <1>2. StartTypeOK
    BY <1>1 DEF StartTypeOK, Stages
  <1> QED
    BY <1>2, InitSyncInv DEF UpInv, UpOK, SyncAt, Init, OneOfEach

\* The end of an upkeep starts at most the first loop, with a scheduler there.
LEMMA AfterUpkeepUp ==
  ASSUME UpInv, NEW t \in Triggers, AfterUpkeep(t), UNCHANGED <<schedulers, ready>>,
         db' \in [Callers -> {"none", "connecting", "using"}], pools' = pools
  PROVE  StartTypeOK' /\ UpOK'
  <1> USE SyncAssumption, StartupAssumption
      DEF UpInv, UpOK, StartTypeOK, OneOfEach, Callers, Events, Stages, AfterUpkeep, StartLoop, MoveTo
  <1>1. ready' \in BOOLEAN
    BY Zenon
  <1>2. CASE at[t] = "upkeep" /\ StartLoop(t)
    <2>1. t \in Events /\ schedulers = 1
      BY <1>2
    <2> QED
      BY <1>1, <1>2, <2>1
  <1>3. CASE at[t] = "refresh" /\ MoveTo(t, "resync") /\ UNCHANGED loops
    BY <1>1, <1>3
  <1> QED
    BY <1>2, <1>3

\* Every step keeps SyncAt: a task that moves is not in the sync, or leaves it.
LEMMA NextSyncAt == UpInv /\ [StartNext]_startVars => SyncAt'
  <1> SUFFICES ASSUME UpInv, [StartNext]_startVars
               PROVE  SyncAt'
    OBVIOUS
  <1> USE SyncAssumption, StartupAssumption
      DEF SyncAt, UpInv, UpOK, StartTypeOK, Callers, Events, MoveTo, ofProcess
  <1>1. CASE Reboot
    BY <1>1 DEF Reboot, Restart, Boot
  <1>2. CASE LoopWakes
    BY <1>2 DEF LoopWakes, vars
  <1>3. ASSUME NEW t \in Events, OnReady(t) \/ OnResumed(t)
        PROVE  SyncAt'
    BY <1>3 DEF OnReady, OnResumed, vars
  <1>4. ASSUME NEW t \in Triggers, SyncBegins(t)
        PROVE  SyncAt'
    BY <1>4 DEF SyncBegins, Begin, Goto, SyncInv, TypeOK
  <1>5. ASSUME NEW t \in Triggers, SyncGoesOn(t)
        PROVE  SyncAt'
    BY <1>5 DEF SyncGoesOn, GuildSynced, Goto, SyncInv, TypeOK
  <1>6. ASSUME NEW t \in Triggers, SyncEnds(t)
        PROVE  SyncAt'
    <2>1. pc' = [pc EXCEPT ![t] = "idle"]
      BY <1>6 DEF SyncEnds, GlobalSynced, SyncRaises, Goto
    <2>2. \E stage : at' = [at EXCEPT ![t] = stage]
      BY <1>6 DEF SyncEnds
    <2> QED
      BY <2>1, <2>2 DEF SyncInv, TypeOK
  <1>7. ASSUME NEW t \in Triggers, AfterUpkeep(t), UNCHANGED pc
        PROVE  SyncAt'
    <2>1. at[t] \in {"upkeep", "refresh"} /\ pc[t] = "idle"
      BY <1>7 DEF AfterUpkeep
    <2>2. \A u \in Events \ {t} : at'[u] = at[u]
      BY <1>7 DEF AfterUpkeep, StartLoop
    <2>3. at'[Loop] = at[Loop] \/ pc[Loop] = "idle"
      BY <1>7, <2>1 DEF AfterUpkeep, StartLoop
    <2> QED
      BY <1>7, <2>1, <2>2, <2>3
  <1>8. ASSUME NEW t \in Triggers, UpkeepSkipped(t)
        PROVE  SyncAt'
    BY <1>7, <1>8 DEF UpkeepSkipped, vars
  <1>9. ASSUME NEW c \in Callers, Ask(c) \/ Connected(c)
        PROVE  SyncAt'
    BY <1>9 DEF Ask, Connected, vars
  <1>10. ASSUME NEW c \in Callers, AfterUpkeep(c)
         PROVE  c \in Triggers
    BY <1>10 DEF AfterUpkeep
  <1>11. ASSUME NEW c \in Callers, Answered(c)
         PROVE  SyncAt'
    BY <1>7, <1>10, <1>11 DEF Answered, vars
  <1>12. ASSUME NEW c \in Callers, CallRaises(c)
         PROVE  SyncAt'
    BY <1>7, <1>10, <1>12 DEF CallRaises
  <1>13. CASE UNCHANGED startVars
    BY <1>13 DEF startVars, vars
  <1> QED
    BY <1>1, <1>2, <1>3, <1>4, <1>5, <1>6, <1>8, <1>9, <1>11, <1>12, <1>13 DEF StartNext, Runs, Call

\* Every step keeps the invariant.
LEMMA NextUpInv == UpInv /\ [StartNext]_startVars => UpInv'
  <1> SUFFICES ASSUME UpInv, [StartNext]_startVars
               PROVE  StartTypeOK' /\ UpOK'
    BY NextSyncInv, NextSyncAt DEF UpInv
  <1> USE SyncAssumption, StartupAssumption
      DEF UpInv, UpOK, StartTypeOK, OneOfEach, Callers, Events, Stages, MoveTo, ofProcess
  <1>1. CASE Reboot
    <2>1. at' = Start /\ schedulers' = 0 /\ loops' = 0 /\ pools' = 0 /\ ready' \in BOOLEAN
      BY <1>1, Zenon DEF Reboot, BootRest
    <2>2. db' \in [Callers -> {"none", "connecting", "using"}]
      BY <1>1 DEF Reboot, BootRest
    <2> QED
      BY <2>1, <2>2 DEF Start
  <1>2. CASE LoopWakes
    BY <1>2 DEF LoopWakes
  <1>3. ASSUME NEW t \in Events, OnReady(t) \/ OnResumed(t)
        PROVE  StartTypeOK' /\ UpOK'
    <2>1. ready' \in BOOLEAN
      BY <1>3, Zenon DEF OnReady, OnResumed
    <2> QED
      BY <1>3, <2>1 DEF OnReady, OnResumed
  <1>4. ASSUME NEW t \in Triggers, SyncBegins(t) \/ SyncGoesOn(t)
        PROVE  StartTypeOK' /\ UpOK'
    BY <1>4 DEF SyncBegins, SyncGoesOn
  <1>5. ASSUME NEW t \in Triggers, SyncEnds(t)
        PROVE  StartTypeOK' /\ UpOK'
    <2>1. at' = [at EXCEPT ![t] = AfterSync(t)] /\ UNCHANGED <<db, pools, schedulers, loops, ready>>
      BY <1>5 DEF SyncEnds, AfterFailedSync
    <2>2. at[t] \in {"sync", "resync"}
      BY <1>5 DEF SyncAt, SyncEnds, GlobalSynced, SyncRaises
    <2> QED
      BY <2>1, <2>2 DEF AfterSync
  <1>6. ASSUME NEW t \in Triggers, UpkeepSkipped(t)
        PROVE  StartTypeOK' /\ UpOK'
    BY <1>6, AfterUpkeepUp DEF UpkeepSkipped
  <1>7. ASSUME NEW c \in Callers, Ask(c) \/ Connected(c)
        PROVE  StartTypeOK' /\ UpOK'
    BY <1>7 DEF Ask, Connected
  <1>8. ASSUME NEW c \in Callers, Answered(c)
        PROVE  StartTypeOK' /\ UpOK'
    <2>1. db' \in [Callers -> {"none", "connecting", "using"}] /\ UNCHANGED <<pools, ready>>
      BY <1>8 DEF Answered
    <2>2. CASE at[c] = "asking" /\ UNCHANGED <<at, schedulers, loops>>
      BY <2>1, <2>2
    <2>3. CASE at[c] = "table" /\ MoveTo(c, "index") /\ UNCHANGED <<schedulers, loops>>
      BY <2>1, <2>3
    <2>4. CASE at[c] = "index" /\ Schedule /\ MoveTo(c, "sync") /\ UNCHANGED loops
      BY <2>1, <2>4 DEF Schedule
    <2>5. CASE AfterUpkeep(c) /\ UNCHANGED schedulers
      <3>1. c \in Triggers
        BY <2>5 DEF AfterUpkeep
      <3> QED
        BY <2>1, <2>5, <3>1, AfterUpkeepUp
    <2> QED
      BY <1>8, <2>2, <2>3, <2>4, <2>5 DEF Answered
  <1>9. ASSUME NEW c \in Callers, CallRaises(c)
        PROVE  StartTypeOK' /\ UpOK'
    <2>1. db' \in [Callers -> {"none", "connecting", "using"}] /\ UNCHANGED <<pools, schedulers, ready>>
      BY <1>9 DEF CallRaises
    <2>2. CASE at[c] = "asking" /\ UNCHANGED <<at, loops>>
      BY <2>1, <2>2
    <2>3. CASE at[c] \in {"table", "index"} /\ MoveTo(c, "idle") /\ UNCHANGED loops
      BY <2>1, <2>3
    <2>4. CASE AfterUpkeep(c)
      <3>1. c \in Triggers
        BY <2>4 DEF AfterUpkeep
      <3> QED
        BY <2>1, <2>4, <3>1, AfterUpkeepUp
    <2> QED
      BY <1>9, <2>2, <2>3, <2>4 DEF CallRaises
  <1>10. CASE UNCHANGED startVars
    BY <1>10 DEF startVars
  <1> QED
    BY <1>1, <1>2, <1>3, <1>4, <1>5, <1>6, <1>7, <1>8, <1>9, <1>10 DEF StartNext, Runs, Call

\* One scheduler and one loop, for every number of overlapping handlers.
THEOREM OneOfEachHolds == StartSpec => []OneOfEach
  <1>1. UpInv => OneOfEach
    BY DEF UpInv, UpOK
  <1> QED
    BY <1>1, InitUpInv, NextUpInv, PTL DEF StartSpec

\* Every reachable state of the process and of its sync is well typed.
THEOREM StartTypeCorrect == StartSpec => [](TypeOK /\ StartTypeOK)
  <1>1. UpInv => TypeOK /\ StartTypeOK
    BY DEF UpInv, SyncInv
  <1> QED
    BY <1>1, InitUpInv, NextUpInv, PTL DEF StartSpec

-----------------------------------------------------------------------------
(* The pool *)

Connecting == {c \in Callers : db[c] = "connecting"}

\* Whoever connects began when there was no pool, and each of them makes one.
\* The loop is not among them: an on_ready that ended asked the database.
PoolOK == /\ pools + Cardinality(Connecting) <= Cardinality(Callers \ {Loop})
          /\ Loop \notin Connecting
          /\ \A c \in Callers : db[c] = "using" => pools > 0
          /\ \A t \in Events : at[t] = "index" => pools > 0
          /\ schedulers = 1 => pools > 0
          /\ at[Loop] # "idle" => pools > 0

PoolInv == UpInv /\ PoolOK

\* The sets of callers are finite, so that they can be counted.
LEMMA CallersCounted ==
  /\ IsFiniteSet(Callers) /\ IsFiniteSet(Callers \ {Loop})
  /\ Cardinality(Callers \ {Loop}) \in Nat
  BY StartupAssumption, FS_Difference, FS_Singleton, FS_CardinalityType DEF Callers

\* Nobody connects in a process that has just started.
LEMMA BootPool ==
  ASSUME pools = 0, db = [c \in Callers |-> "none"], at = Start, schedulers = 0
  PROVE  PoolOK
  <1>1. Connecting = {}
    BY DEF Connecting
  <1>2. Cardinality(Connecting) = 0
    BY <1>1, FS_EmptySet
  <1> QED
    BY <1>1, <1>2, CallersCounted, SyncAssumption, StartupAssumption
    DEF PoolOK, Start, Callers, Events

\* A step in which nobody begins to connect, and no pool is made, leaves the
\* count below its bound.
LEMMA FewerConnect ==
  ASSUME PoolInv, StartTypeOK', pools' = pools, Connecting' \subseteq Connecting
  PROVE  /\ pools' + Cardinality(Connecting') <= Cardinality(Callers \ {Loop})
         /\ Loop \notin Connecting'
  <1>1. IsFiniteSet(Connecting) /\ Cardinality(Connecting) \in Nat
    BY CallersCounted, FS_Subset, FS_CardinalityType DEF Connecting
  <1>2. Cardinality(Connecting') <= Cardinality(Connecting) /\ Cardinality(Connecting') \in Nat
    BY <1>1, FS_Subset, FS_CardinalityType
  <1> QED
    BY <1>1, <1>2, CallersCounted DEF PoolInv, PoolOK, UpInv, StartTypeOK

\* Whoever begins to connect found no pool: those who connect are callers, and
\* that is all there is to count.
LEMMA AskPool ==
  ASSUME PoolInv, StartTypeOK', NEW c \in Callers, Ask(c)
  PROVE  PoolOK'
  <1> USE DEF PoolInv, PoolOK, UpInv, UpOK, StartTypeOK, Ask, NeedsPool, MayAsk, ofProcess
  <1>1. CASE pools = 0
    <2>1. c # Loop
      BY <1>1
    <2>2. Connecting' = Connecting \cup {c} /\ Connecting' \subseteq Callers \ {Loop}
      BY <1>1, <2>1 DEF Connecting, Callers
    <2>3. Cardinality(Connecting') <= Cardinality(Callers \ {Loop}) /\ Cardinality(Connecting') \in Nat
      BY <2>2, CallersCounted, FS_Subset, FS_CardinalityType
    <2>4. Callers' = Callers
      BY DEF Callers
    <2> QED
      BY <1>1, <2>2, <2>3, <2>4
  <1>2. CASE pools # 0
    <2>1. Connecting' \subseteq Connecting
      BY <1>2 DEF Connecting, Callers
    <2>2. Callers' = Callers
      BY DEF Callers
    <2> QED
      BY <1>2, <2>1, <2>2, FewerConnect
  <1> QED
    BY <1>1, <1>2

\* Who has connected has made one pool, and connects no longer.
LEMMA ConnectedPool ==
  ASSUME PoolInv, StartTypeOK', NEW c \in Callers, Connected(c)
  PROVE  PoolOK'
  <1> USE DEF PoolInv, UpInv, StartTypeOK, Connected, ofProcess
  <1>1. Connecting' = Connecting \ {c} /\ c \in Connecting
    BY DEF Connecting, Callers
  <1>2. IsFiniteSet(Connecting) /\ Cardinality(Connecting) \in Nat
    BY CallersCounted, FS_Subset, FS_CardinalityType DEF Connecting
  <1>3. Cardinality(Connecting') = Cardinality(Connecting) - 1
    BY <1>1, <1>2, FS_RemoveElement
  <1>4. pools' + Cardinality(Connecting') <= Cardinality(Callers \ {Loop})
    BY <1>2, <1>3, CallersCounted DEF PoolOK
  <1> QED
    BY <1>1, <1>4 DEF PoolOK, Callers

\* A call that ends, the end of an upkeep, and every other step.
LEMMA OtherPool ==
  ASSUME PoolInv, StartTypeOK', pools' = pools, Connecting' \subseteq Connecting,
         \A c \in Callers : db'[c] = "using" => db[c] = "using",
         pools > 0 \/ /\ \A t \in Events : at'[t] = "index" => at[t] = "index"
                      /\ schedulers' = schedulers
                      /\ at'[Loop] # "idle" => at[Loop] # "idle"
  PROVE  PoolOK'
  <1>1. Callers' = Callers
    BY DEF Callers
  <1> QED
    BY <1>1, FewerConnect DEF PoolInv, PoolOK, UpInv, StartTypeOK, Callers

\* Every step keeps the count.
LEMMA NextPoolInv == PoolInv /\ [StartNext]_startVars => PoolInv'
  <1> SUFFICES ASSUME PoolInv, [StartNext]_startVars
               PROVE  PoolOK'
    BY NextUpInv DEF PoolInv
  <1>0. StartTypeOK' /\ UpInv
    BY NextUpInv DEF PoolInv, UpInv
  <1> USE SyncAssumption, StartupAssumption
      DEF UpInv, UpOK, StartTypeOK, OneOfEach, Callers, Events, MoveTo, ofProcess
  <1>1. CASE Reboot
    <2>1. pools' = 0 /\ db' = [c \in Callers |-> "none"] /\ at' = Start /\ schedulers' = 0
      BY <1>1 DEF Reboot, BootRest
    <2>2. Connecting' = {}
      BY <2>1 DEF Connecting
    <2>3. Cardinality(Connecting') = 0
      BY <2>2, FS_EmptySet
    <2> QED
      BY <2>1, <2>2, <2>3, CallersCounted DEF PoolOK, Start
  <1>2. CASE LoopWakes
    <2>1. Connecting' = Connecting
      BY <1>2 DEF LoopWakes, Connecting
    <2> QED
      BY <1>0, <1>2, <2>1, OtherPool DEF LoopWakes
  <1>3. ASSUME NEW t \in Events, OnReady(t) \/ OnResumed(t)
        PROVE  PoolOK'
    <2>1. Connecting' = Connecting
      BY <1>3 DEF OnReady, OnResumed, Connecting
    <2> QED
      BY <1>0, <1>3, <2>1, OtherPool DEF OnReady, OnResumed
  <1>4. ASSUME NEW t \in Triggers, SyncBegins(t) \/ SyncGoesOn(t)
        PROVE  PoolOK'
    <2>1. Connecting' = Connecting
      BY <1>4 DEF SyncBegins, SyncGoesOn, Connecting
    <2> QED
      BY <1>0, <1>4, <2>1, OtherPool DEF SyncBegins, SyncGoesOn
  <1>5. ASSUME NEW t \in Triggers, SyncEnds(t)
        PROVE  PoolOK'
    <2>1. Connecting' = Connecting
      BY <1>5 DEF SyncEnds, Connecting
    <2>2. at' = [at EXCEPT ![t] = AfterSync(t)] /\ UNCHANGED <<db, pools, schedulers>>
      BY <1>5 DEF SyncEnds, AfterFailedSync
    <2>3. at[t] # "idle"
      BY <1>0, <1>5 DEF SyncAt, SyncEnds, GlobalSynced, SyncRaises
    <2> QED
      BY <1>0, <2>1, <2>2, <2>3, OtherPool DEF AfterSync
  <1>6. ASSUME NEW t \in Triggers, UpkeepSkipped(t)
        PROVE  PoolOK'
    <2>1. Connecting' = Connecting
      BY <1>6 DEF UpkeepSkipped, Connecting
    <2>2. pools > 0 \/ at[t] = "refresh"
      BY <1>0, <1>6 DEF UpkeepSkipped, AfterUpkeep, PoolInv, PoolOK
    <2> QED
      BY <1>0, <1>6, <2>1, <2>2, OtherPool DEF UpkeepSkipped, AfterUpkeep
  <1>7. ASSUME NEW c \in Callers, Ask(c)
        PROVE  PoolOK'
    BY <1>0, <1>7, AskPool
  <1>8. ASSUME NEW c \in Callers, Connected(c)
        PROVE  PoolOK'
    BY <1>0, <1>8, ConnectedPool
  <1>9. ASSUME NEW c \in Callers, Answered(c)
        PROVE  PoolOK'
    <2>1. Connecting' \subseteq Connecting /\ pools > 0 /\ pools' = pools
      BY <1>9 DEF Answered, Connecting, PoolInv, PoolOK
    <2> QED
      BY <1>0, <1>9, <2>1, OtherPool DEF Answered
  <1>10. ASSUME NEW c \in Callers, CallRaises(c)
        PROVE  PoolOK'
    <2>1. Connecting' \subseteq Connecting /\ UNCHANGED <<pools, schedulers>>
      BY <1>10 DEF CallRaises, Connecting
    <2>2. CASE at[c] = "asking" /\ UNCHANGED <<at, loops>>
      BY <1>0, <1>10, <2>1, <2>2, OtherPool DEF CallRaises
    <2>3. CASE at[c] \in {"table", "index"} /\ MoveTo(c, "idle")
      BY <1>0, <1>10, <2>1, <2>3, OtherPool DEF CallRaises
    <2>4. CASE AfterUpkeep(c)
      <3>1. pools > 0 \/ at[c] = "refresh"
        BY <1>0, <2>4 DEF AfterUpkeep, PoolInv, PoolOK
      <3> QED
        BY <1>0, <1>10, <2>1, <2>4, <3>1, OtherPool DEF CallRaises, AfterUpkeep
    <2> QED
      BY <1>10, <2>2, <2>3, <2>4 DEF CallRaises
  <1>11. CASE UNCHANGED startVars
    <2>1. Connecting' = Connecting
      BY <1>11 DEF startVars, Connecting
    <2> QED
      BY <1>0, <1>11, <2>1, OtherPool DEF startVars
  <1> QED
    BY <1>1, <1>2, <1>3, <1>4, <1>5, <1>6, <1>7, <1>8, <1>9, <1>10, <1>11 DEF StartNext, Runs, Call

\* Overlapping callers leak at most as many pools as there are tasks that may
\* run before the loop does.
THEOREM LeakIsBounded == StartSpec => []LeakBounded
  <1>1. StartInit => PoolInv
    BY InitUpInv, BootPool DEF StartInit, PoolInv
  <1>2. PoolInv => LeakBounded
    <2>1. IsFiniteSet(Connecting)
      BY CallersCounted, FS_Subset DEF Connecting
    <2> QED
      BY <2>1, CallersCounted, FS_CardinalityType
      DEF PoolInv, PoolOK, LeakBounded, UpInv, StartTypeOK
  <1> QED
    BY <1>1, <1>2, NextPoolInv, PTL DEF StartSpec
=============================================================================
