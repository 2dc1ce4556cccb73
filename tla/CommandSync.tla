---------------------------- MODULE CommandSync ----------------------------
(***************************************************************************)
(* sync_app_commands: the slash commands are moved from the bot's global   *)
(* command set to that of the one allowed guild, the disabled ones are     *)
(* taken out, and both sets are published, under sync_lock.  Its callers   *)
(* are in Startup, which says when they call.                              *)
(*                                                                         *)
(* Discord keeps what was published across restarts of the bot; the bot's  *)
(* own command tree starts anew, with every command global, and under a    *)
(* configuration that may have changed.                                    *)
(***************************************************************************)
EXTENDS Naturals, FiniteSets

CONSTANTS Commands,  \* subcommands of /staffninja
          Triggers,  \* callers of sync_app_commands
          Loop,      \* the one that comes back
          None,      \* no holder of sync_lock
          MaxFaults  \* bound: restarts, and calls to Discord that raise

ASSUME SyncAssumption == Loop \in Triggers /\ None \notin Triggers /\ MaxFaults \in Nat

VARIABLES
  disabled,  \* DISABLED_COMMANDS
  global,    \* the commands of the tree for every guild
  local,     \* the commands of the tree for the allowed guild
  offered,   \* what Discord offers, in the allowed guild and everywhere
  lock,      \* who holds sync_lock
  pc,        \* [Triggers -> "idle", "guild" or "global", the call awaited]
  synced,    \* a sync has completed since the bot started
  faults

vars == <<disabled, global, local, offered, lock, pc, synced, faults>>

Fault == faults < MaxFaults /\ faults' = faults + 1

Goto(t, step) == pc' = [pc EXCEPT ![t] = step]
Release == lock' = None

\* _remove_disabled_commands
Enabled == global \ disabled

-----------------------------------------------------------------------------
Boot == /\ disabled' \in SUBSET Commands
        /\ global' = Commands
        /\ local' = {}
        /\ lock' = None
        /\ pc' = [t \in Triggers |-> "idle"]
        /\ synced' = FALSE

\* An earlier version of the bot may have published its commands anywhere.
Init == /\ disabled \in SUBSET Commands
        /\ global = Commands
        /\ local = {}
        /\ offered \in [guild : SUBSET Commands, everywhere : SUBSET Commands]
        /\ lock = None
        /\ pc = [t \in Triggers |-> "idle"]
        /\ synced = FALSE
        /\ faults = 0

\* bot.tree.copy_global_to(guild=guild)
CopyReplaces == local' = Enabled
Copy == local' = local \cup Enabled

\* Up to the first call.  The sets share the group, so that a command removed
\* from it is removed from both.
Begin(t) ==
  /\ pc[t] = "idle"
  /\ lock = None
  /\ lock' = t
  /\ global' = Enabled
  /\ Copy
  /\ Goto(t, "guild")
  /\ UNCHANGED <<disabled, offered, synced, faults>>

\* bot.tree.clear_commands(guild=None)
Clear == global' = {}

GuildSynced(t) ==
  /\ pc[t] = "guild"
  /\ offered' = [offered EXCEPT !.guild = local]
  /\ Clear
  /\ Goto(t, "global")
  /\ UNCHANGED <<disabled, local, lock, synced, faults>>

GlobalSynced(t) ==
  /\ pc[t] = "global"
  /\ offered' = [offered EXCEPT !.everywhere = global]
  /\ Release
  /\ Goto(t, "idle")
  /\ synced' = TRUE
  /\ UNCHANGED <<disabled, global, local, faults>>

\* What Discord offers once the call that t awaits has taken effect.
Published(t) == IF pc[t] = "guild" THEN [offered EXCEPT !.guild = local]
                                   ELSE [offered EXCEPT !.everywhere = global]

\* A call that raises may have taken effect; the sync ends there.
SyncRaises(t) ==
  /\ pc[t] # "idle"
  /\ Fault
  /\ offered' \in {offered, Published(t)}
  /\ Release
  /\ Goto(t, "idle")
  /\ UNCHANGED <<disabled, global, local, synced>>

\* So may the call that was on its way when the process died.
Restart ==
  /\ Boot
  /\ Fault
  /\ \/ UNCHANGED offered
     \/ \E t \in Triggers : pc[t] # "idle" /\ offered' = Published(t)

-----------------------------------------------------------------------------
(* Properties *)

TypeOK == /\ disabled \subseteq Commands /\ global \subseteq Commands
          /\ local \subseteq Commands
          /\ offered \in [guild : SUBSET Commands, everywhere : SUBSET Commands]
          /\ lock \in Triggers \cup {None}
          /\ pc \in [Triggers -> {"idle", "guild", "global"}]
          /\ \A t \in Triggers : pc[t] # "idle" <=> lock = t
          /\ synced \in BOOLEAN /\ faults \in 0..MaxFaults

\* Once a sync has completed, the guild offers every command but the disabled
\* ones, and nothing is offered elsewhere: the syncs that follow find the
\* global set empty, and neither they nor their failures take anything away.
GuildOffersEnabled ==
  synced => offered = [guild |-> Commands \ disabled, everywhere |-> {}]

\* "Keep global command set empty so slash commands are not available outside
\* the allowed guild": no step of the bot, a failed one included, offers a
\* command outside of the guild that was not offered there before.
NothingNewOutside == [][offered'.everywhere \subseteq offered.everywhere]_vars
=============================================================================
