--------------------------- MODULE StatsChannels ---------------------------
(***************************************************************************)
(* The Staff Stats channels: ensure_staff_stats_channels keeps, in one     *)
(* category of the guild, one text channel per counter, whose name is the  *)
(* counter's value.  Nothing keeps two runs of it apart: the periodic      *)
(* loop, on_ready and every on_resumed call it, and it awaits Discord      *)
(* between looking at the guild and changing it.                           *)
(*                                                                         *)
(* A counter's channels in a category are numbered in the order of their   *)
(* creation, which is their order in category.channels.  The two counters  *)
(* are read in one step, since nothing relates them.  The bot's cache of   *)
(* the guild is taken to be up to date; a call that raises has changed the *)
(* guild or has not.                                                       *)
(***************************************************************************)
EXTENDS Naturals, FiniteSets, Sequences

CONSTANTS Runs,       \* runs of ensure_staff_stats_channels at a time
          Counters,   \* the counters, in the order of the code
          Values,     \* what a counter may be
          Gone,       \* the name of a deleted channel
          Loop,       \* the run of the periodic loop
          Legacy,     \* forms of the names of voice channels left from before
          Leftover,   \* text channels of a counter left from before
          Faults,     \* "count" or "discord" may raise
          MaxChanges, \* bound: changes of a counter's value
          MaxFaults   \* bound: exceptions

Kinds == {Counters[i] : i \in DOMAIN Counters}

ASSUME StatsAssumption ==
  /\ IsFiniteSet(Runs) /\ Loop \in Runs
  /\ Legacy \subseteq {"raw", "normalized"}
  /\ Leftover \subseteq Seq(Values) /\ <<>> \in Leftover
  /\ Counters \in Seq(Kinds) /\ Counters # <<>>
  /\ Gone \notin Values
  /\ Faults \subseteq {"count", "discord"}
  /\ MaxChanges \in Nat /\ MaxFaults \in Nat

VARIABLES
  truth,      \* the counters in the database
  categories, \* how many categories are named Staff Stats
  name,       \* name[c][k]: the text channels of counter k in category c
  voice,      \* legacy voice channels of the first category: counter and form of name
  pc,         \* where each run is
  index,      \* which counter it is about
  counts,     \* the values it has read
  category,   \* the category it works in
  doomed,     \* duplicates it has yet to delete
  target,     \* the channel it is about to rename
  changes,    \* for MaxChanges
  faults      \* for MaxFaults

guild == <<categories, name, voice>>
run   == <<pc, index, counts, category, doomed, target>>
vars  == <<truth, guild, run, changes, faults>>

Categories == 1..Cardinality(Runs)
PCs == {"idle", "counting", "finding", "categorizing", "purging", "deleting",
        "updating", "migrating", "creating", "editing"}

Kind(r) == Counters[index[r]]
Live(c, k) == {i \in DOMAIN name[c][k] : name[c][k][i] # Gone}
IsFirst(i, S) == \A j \in S : i <= j

\* matches[1:]
DuplicatesAll(S) == S
DuplicatesNone(S) == {}
Duplicates(S) == {i \in S : ~IsFirst(i, S)}

\* channel.name != desired_normalized
Outdated(v, w) == v # w

\* _find_text_channel_by_prefix finds none.
MissingAlways(S) == TRUE
Missing(S) == S = {}

\* _find_voice_channel_by_prefix compares with the normalized prefix; Discord
\* keeps the names of voice channels as they were given.
VoiceFound(c, k) == c = 1 /\ <<k, "normalized">> \in voice

Goto(r, l) == pc' = [pc EXCEPT ![r] = l]

\* The run goes on with the next counter, or to l.
Advance(r, again, l) ==
  IF index[r] < Len(Counters)
  THEN Goto(r, again) /\ index' = [index EXCEPT ![r] = @ + 1]
  ELSE Goto(r, l) /\ index' = [index EXCEPT ![r] = 1]

Quit(r) == Goto(r, "idle") /\ index' = [index EXCEPT ![r] = 1]

\* What the calls do to the guild.
Delete(c, k, i) == name' = [name EXCEPT ![c][k][i] = Gone]
MakeCategory == categories' = categories + 1
MakeChannel(r) == name' = [name EXCEPT ![category[r]][Kind(r)] = Append(@, counts[r][Kind(r)])]
DeleteVoice(r) == /\ VoiceFound(category[r], Kind(r))
                  /\ voice' = voice \ {<<Kind(r), "normalized">>}
Rename(r) == /\ target[r] \in Live(category[r], Kind(r))
             /\ name' = [name EXCEPT ![category[r]][Kind(r)][target[r]] = counts[r][Kind(r)]]

-----------------------------------------------------------------------------
Init == /\ truth \in [Kinds -> Values]
        /\ categories \in {0, 1}
        /\ \E left \in [Kinds -> IF categories = 1 THEN Leftover ELSE {<<>>}] :
             name = [c \in Categories |-> IF c = 1 THEN left ELSE [k \in Kinds |-> <<>>]]
        /\ voice \in IF categories = 1 THEN SUBSET (Kinds \X Legacy) ELSE {{}}
        /\ pc = [r \in Runs |-> "idle"]
        /\ index = [r \in Runs |-> 1]
        /\ counts = [r \in Runs |-> truth]
        /\ category = [r \in Runs |-> 1]
        /\ doomed = [r \in Runs |-> {}]
        /\ target = [r \in Runs |-> 1]
        /\ changes = 0 /\ faults = 0

\* The periodic loop, on_ready or on_resumed calls it; the bot may manage
\* channels.
Begin(r) == /\ pc[r] = "idle"
            /\ Goto(r, "counting")
            /\ UNCHANGED <<truth, guild, index, counts, category, doomed, target,
                           changes, faults>>

\* _get_staff_stats_counts
Count(r) == /\ pc[r] = "counting"
            /\ counts' = [counts EXCEPT ![r] = truth]
            /\ Goto(r, "finding")
            /\ UNCHANGED <<truth, guild, index, category, doomed, target, changes,
                           faults>>

\* The first category of that name, or a new one.
Find(r) == /\ pc[r] = "finding"
           /\ category' = [category EXCEPT ![r] = 1]
           /\ Goto(r, IF categories = 0 THEN "categorizing" ELSE "purging")
           /\ UNCHANGED <<truth, guild, index, counts, doomed, target, changes, faults>>

CreateCategory(r) == /\ pc[r] = "categorizing"
                     /\ MakeCategory
                     /\ category' = [category EXCEPT ![r] = categories + 1]
                     /\ Goto(r, "purging")
                     /\ UNCHANGED <<truth, name, voice, index, counts, doomed,
                                    target, changes, faults>>

\* _purge_duplicate_stat_channels: what to delete is settled before the first
\* delete.
Select(r) == /\ pc[r] = "purging"
             /\ doomed' = [doomed EXCEPT ![r] = Duplicates(Live(category[r], Kind(r)))]
             /\ Goto(r, "deleting")
             /\ UNCHANGED <<truth, guild, index, counts, category, target, changes,
                            faults>>

\* One delete, in the order of the channels.  It may raise, as it does for a
\* channel that is gone; the loop goes on all the same.
Purge(r) == \E i \in doomed[r] :
              /\ pc[r] = "deleting"
              /\ IsFirst(i, doomed[r])
              /\ doomed' = [doomed EXCEPT ![r] = @ \ {i}]
              /\ \/ Delete(category[r], Kind(r), i) /\ UNCHANGED faults
                 \/ /\ "discord" \in Faults /\ faults < MaxFaults
                    /\ faults' = faults + 1
                    /\ UNCHANGED name
              /\ UNCHANGED <<truth, categories, voice, pc, index, counts, category,
                             target, changes>>

Purged(r) == /\ pc[r] = "deleting"
             /\ doomed[r] = {}
             /\ Advance(r, "purging", "updating")
             /\ UNCHANGED <<truth, guild, counts, category, doomed, target, changes,
                            faults>>

\* _ensure_or_update_stat_text_channel, up to the call it makes.
Look(r) ==
  LET c == category[r]
      S == Live(c, Kind(r))
  IN  /\ pc[r] = "updating"
      /\ \/ /\ VoiceFound(c, Kind(r))
            /\ Goto(r, "migrating")
            /\ UNCHANGED <<index, target>>
         \/ /\ ~VoiceFound(c, Kind(r)) /\ Missing(S)
            /\ Goto(r, "creating")
            /\ UNCHANGED <<index, target>>
         \/ /\ ~VoiceFound(c, Kind(r)) /\ ~Missing(S)
            /\ \E i \in S :
                 /\ IsFirst(i, S)
                 /\ target' = [target EXCEPT ![r] = i]
                 /\ IF Outdated(name[c][Kind(r)][i], counts[r][Kind(r)])
                    THEN Goto(r, "editing") /\ UNCHANGED index
                    ELSE Advance(r, "updating", "idle")
      /\ UNCHANGED <<truth, guild, counts, category, doomed, changes, faults>>

\* To delete a channel that another run has deleted raises.
Migrate(r) == /\ pc[r] = "migrating"
              /\ \/ DeleteVoice(r) /\ Goto(r, "updating") /\ UNCHANGED index
                 \/ ~VoiceFound(category[r], Kind(r)) /\ Quit(r) /\ UNCHANGED voice
              /\ UNCHANGED <<truth, categories, name, counts, category, doomed,
                             target, changes, faults>>

Create(r) == /\ pc[r] = "creating"
             /\ MakeChannel(r)
             /\ Advance(r, "updating", "idle")
             /\ UNCHANGED <<truth, categories, voice, counts, category, doomed,
                            target, changes, faults>>

\* To rename one raises as well.
Edit(r) == /\ pc[r] = "editing"
           /\ \/ Rename(r) /\ Advance(r, "updating", "idle")
              \/ target[r] \notin Live(category[r], Kind(r)) /\ Quit(r) /\ UNCHANGED name
           /\ UNCHANGED <<truth, categories, voice, counts, category, doomed, target,
                          changes, faults>>

\* A call that Discord has carried out, though its answer is lost.
Unanswered(r) ==
  \/ pc[r] = "categorizing" /\ MakeCategory /\ UNCHANGED <<name, voice>>
  \/ pc[r] = "migrating" /\ DeleteVoice(r) /\ UNCHANGED <<categories, name>>
  \/ pc[r] = "creating" /\ MakeChannel(r) /\ UNCHANGED <<categories, voice>>
  \/ pc[r] = "editing" /\ Rename(r) /\ UNCHANGED <<categories, voice>>

\* A query or a call raises: ensure_staff_stats_channels logs it and returns.
Raise(r) == /\ \/ "count" \in Faults /\ pc[r] = "counting" /\ UNCHANGED guild
               \/ /\ "discord" \in Faults
                  /\ pc[r] \in {"categorizing", "migrating", "creating", "editing"}
                  /\ Unanswered(r) \/ UNCHANGED guild
            /\ faults < MaxFaults
            /\ faults' = faults + 1
            /\ Quit(r)
            /\ UNCHANGED <<truth, counts, category, doomed, target, changes>>

\* The staff site changes a counter.
Change == /\ changes < MaxChanges
          /\ changes' = changes + 1
          /\ \E k \in Kinds : \E v \in Values \ {truth[k]} : truth' = [truth EXCEPT ![k] = v]
          /\ UNCHANGED <<guild, run, faults>>

Step(r) == \/ Count(r) \/ Find(r) \/ CreateCategory(r)
           \/ Select(r) \/ Purge(r) \/ Purged(r)
           \/ Look(r) \/ Migrate(r) \/ Create(r) \/ Edit(r) \/ Raise(r)

Next == Change \/ \E r \in Runs : Begin(r) \/ Step(r)

Spec == Init /\ [][Next]_vars

\* A run goes on as long as it can, and the periodic loop starts another one
\* in its time; the gateway resumes or does not.
FairSpec == Spec /\ WF_vars(Begin(Loop)) /\ \A r \in Runs : WF_vars(Step(r))

-----------------------------------------------------------------------------
(* Properties *)

\* Runs that overlap may each create a channel for a counter, but no more than
\* one each, and none where channels were left from before: the duplicates
\* cannot grow from run to run, whether the calls answer or not.
DuplicatesBounded ==
  \A c \in Categories : \A k \in Kinds :
    \/ Len(name[c][k]) <= Cardinality(Runs)
    \/ \E left \in Leftover : Len(name[c][k]) = Len(left)

\* However the purges of several runs interleave, they never delete the last
\* channel of a counter.
LastChannelSurvives ==
  [][\A c \in Categories : \A k \in Kinds : Live(c, k) # {} => Live(c, k)' # {}]_vars

\* Once the counters stop changing, the periodic loop brings the category to
\* one channel for each counter with the counter's value, and no run that read
\* an older value, nor a duplicate, comes back to spoil it.
Settled == \A k \in Kinds :
             \E i \in Live(1, k) : Live(1, k) = {i} /\ name[1][k][i] = truth[k]
EventuallySettled == <>[]Settled
=============================================================================
