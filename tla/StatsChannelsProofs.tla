------------------------ MODULE StatsChannelsProofs ------------------------
(***************************************************************************)
(* What overlapping runs of ensure_staff_stats_channels may do to the      *)
(* guild, for every set of runs, counters and values: they never leave a   *)
(* counter without a channel that had one, and they never create more      *)
(* channels of a counter than there are runs, nor any where channels were  *)
(* left from before.                                                       *)
(*                                                                         *)
(* Both come from one fact: the first channel there is for a counter is    *)
(* never deleted, since what a run deletes comes behind another channel    *)
(* at the time it looks.  A run that finds no channel has thus found that  *)
(* there never was one, and only the runs that found that create one.    *)
(***************************************************************************)
EXTENDS StatsChannels, FiniteSetTheorems, SequenceTheorems, TLAPS

Names == Seq(Values \cup {Gone})

TypeOK == /\ truth \in [Kinds -> Values]
          /\ categories \in Nat
          /\ name \in [Categories -> [Kinds -> Names]]
          /\ pc \in [Runs -> PCs]
          /\ index \in [Runs -> DOMAIN Counters]
          /\ counts \in [Runs -> [Kinds -> Values]]
          /\ category \in [Runs -> Categories]
          /\ doomed \in [Runs -> SUBSET Nat]
          /\ target \in [Runs -> Nat]

\* Runs about to create a category, and a channel of counter k in category c.
Categorizing == {r \in Runs : pc[r] = "categorizing"}
Creating(c, k) == {r \in Runs : pc[r] = "creating" /\ category[r] = c /\ Kind(r) = k}

\* Only a run that found no category creates one.
CategoriesBounded == categories + Cardinality(Categorizing) <= Cardinality(Runs)

\* Only a run that found no channel creates one, and none finds none where
\* channels were left from before.
ChannelsBounded ==
  \A c \in Categories : \A k \in Kinds :
    \/ Len(name[c][k]) + Cardinality(Creating(c, k)) <= Cardinality(Runs)
    \/ /\ Creating(c, k) = {}
       /\ \E left \in Leftover : Len(name[c][k]) = Len(left)

\* The first channel is nobody's duplicate.
FirstSpared == \A r \in Runs : \A i \in doomed[r] : i > 1

\* The first channel of a counter is there for good.
FirstStands ==
  \A c \in Categories : \A k \in Kinds : Len(name[c][k]) > 0 => name[c][k][1] # Gone

IInv == TypeOK /\ CategoriesBounded /\ ChannelsBounded /\ FirstSpared /\ FirstStands

-----------------------------------------------------------------------------
(* Sets and sequences *)

\* There is a run, and with it a first category.
LEMMA Parameters ==
  /\ IsFiniteSet(Runs) /\ Cardinality(Runs) \in Nat /\ Cardinality(Runs) >= 1
  /\ 1 \in Categories /\ 1 \in DOMAIN Counters
  /\ \A i \in DOMAIN Counters : Counters[i] \in Kinds
  <1>1. IsFiniteSet(Runs) /\ Runs # {}
    BY StatsAssumption
  <1>2. Cardinality(Runs) \in Nat /\ Cardinality(Runs) # 0
    BY <1>1, FS_CardinalityType, FS_EmptySet
  <1>3. Counters \in Seq(Kinds) /\ Counters # <<>>
    BY StatsAssumption
  <1> QED
    BY <1>1, <1>2, <1>3 DEF Categories, Kinds

\* A set of runs is finite and no larger than all of them.
LEMMA SetOfRuns ==
  ASSUME NEW S \in SUBSET Runs
  PROVE  IsFiniteSet(S) /\ Cardinality(S) \in Nat /\ Cardinality(S) <= Cardinality(Runs)
  BY Parameters, FS_Subset, FS_CardinalityType

\* A smaller set of runs has no more of them, and fewer if it lacks one.
LEMMA SmallerSet ==
  ASSUME NEW S \in SUBSET Runs, NEW T \in SUBSET S
  PROVE  /\ Cardinality(T) \in Nat /\ Cardinality(S) \in Nat
         /\ Cardinality(T) <= Cardinality(S)
         /\ \A r \in S \ T : Cardinality(T) + 1 <= Cardinality(S)
  <1>1. IsFiniteSet(S) /\ Cardinality(S) \in Nat
    BY SetOfRuns
  <1>2. Cardinality(T) <= Cardinality(S) /\ Cardinality(T) \in Nat
    BY <1>1, FS_Subset, FS_CardinalityType
  <1>3. ASSUME NEW r \in S \ T
        PROVE  Cardinality(T) + 1 <= Cardinality(S)
    <2>1. T # S
      BY <1>3
    <2>2. Cardinality(T) # Cardinality(S)
      BY <1>1, <2>1, FS_Subset
    <2> QED
      BY <1>1, <1>2, <2>2
  <1> QED
    BY <1>1, <1>2, <1>3

\* To give a channel another name leaves the others as they are.
LEMMA Renamed ==
  ASSUME NEW s \in Names, NEW i \in Nat, NEW v \in Values \cup {Gone},
         NEW t, t = [s EXCEPT ![i] = v]
  PROVE  /\ t \in Names /\ Len(t) = Len(s)
         /\ Len(s) > 0 => t[1] = IF i = 1 THEN v ELSE s[1]
  <1>1. CASE i \in 1..Len(s)
    BY <1>1, ExceptSeq DEF Names
  <1>2. CASE i \notin 1..Len(s)
    <2>1. DOMAIN s = 1..Len(s) /\ DOMAIN t = DOMAIN s
      BY LenProperties DEF Names
    <2>2. t = s
      BY <1>2, <2>1 DEF Names
    <2>3. Len(s) \in Nat
      BY LenProperties DEF Names
    <2>4. Len(s) > 0 => i # 1
      BY <1>2, <2>3
    <2> QED
      BY <2>2, <2>4
  <1> QED
    BY <1>1, <1>2

-----------------------------------------------------------------------------
(* One run at a time *)

\* Wherever a run goes, it is at a place it has and about a counter that
\* exists, and the other runs stay where they are.
LEMMA Going ==
  ASSUME TypeOK, NEW r \in Runs, NEW l \in PCs, NEW m \in PCs,
         Advance(r, l, m) \/ Quit(r) \/ (Goto(r, l) /\ UNCHANGED index)
  PROVE  /\ pc' \in [Runs -> PCs] /\ index' \in [Runs -> DOMAIN Counters]
         /\ pc'[r] \in {l, m, "idle"}
         /\ \A q \in Runs \ {r} : pc'[q] = pc[q] /\ index'[q] = index[q]
  <1>1. pc \in [Runs -> PCs] /\ index \in [Runs -> DOMAIN Counters]
    BY DEF TypeOK
  <1>2. "idle" \in PCs
    BY DEF PCs
  <1>3. CASE Advance(r, l, m)
    <2>1. CASE index[r] < Len(Counters)
      <3>1. pc' = [pc EXCEPT ![r] = l] /\ index' = [index EXCEPT ![r] = index[r] + 1]
        BY <1>3, <2>1 DEF Advance, Goto
      <3>2. index[r] + 1 \in DOMAIN Counters
        <4>1. Counters \in Seq(Kinds)
          BY StatsAssumption
        <4>2. DOMAIN Counters = 1..Len(Counters) /\ Len(Counters) \in Nat
          BY <4>1
        <4> QED
          BY <1>1, <2>1, <4>2
      <3> QED
        BY <1>1, <3>1, <3>2
    <2>2. CASE ~(index[r] < Len(Counters))
      <3>1. pc' = [pc EXCEPT ![r] = m] /\ index' = [index EXCEPT ![r] = 1]
        BY <1>3, <2>2 DEF Advance, Goto
      <3> QED
        BY <1>1, <3>1, Parameters
    <2> QED
      BY <2>1, <2>2
  <1>4. CASE Quit(r)
    <2>1. pc' = [pc EXCEPT ![r] = "idle"] /\ index' = [index EXCEPT ![r] = 1]
      BY <1>4 DEF Quit, Goto
    <2> QED
      BY <1>1, <1>2, <2>1, Parameters
  <1>5. CASE Goto(r, l) /\ UNCHANGED index
    BY <1>1, <1>5 DEF Goto
  <1> QED
    BY <1>3, <1>4, <1>5

\* What a step of a run does to where the runs are.
Moves(r) ==
  /\ pc' \in [Runs -> PCs] /\ index' \in [Runs -> DOMAIN Counters]
  /\ category' \in [Runs -> Categories]
  /\ \A q \in Runs \ {r} :
       pc'[q] = pc[q] /\ index'[q] = index[q] /\ category'[q] = category[q]
  /\ pc'[r] = "categorizing" => categories = 0 /\ categories' = 0
  /\ pc'[r] = "creating" =>
       /\ UNCHANGED <<category, index, name>>
       /\ Missing(Live(category[r], Kind(r)))
  /\ \/ UNCHANGED categories
     \/ pc[r] = "categorizing" /\ pc'[r] # "categorizing" /\ categories' = categories + 1

\* The steps that leave the run in its category, and do not lead it to create
\* anything.
LEMMA PlainMove ==
  ASSUME TypeOK, NEW r \in Runs, NEW l \in PCs, NEW m \in PCs,
         {l, m} \cap {"categorizing", "creating"} = {},
         Advance(r, l, m) \/ Quit(r) \/ (Goto(r, l) /\ UNCHANGED index),
         UNCHANGED category,
         UNCHANGED categories \/ (pc[r] = "categorizing" /\ categories' = categories + 1)
  PROVE  Moves(r)
  <1>1. /\ pc' \in [Runs -> PCs] /\ index' \in [Runs -> DOMAIN Counters]
        /\ pc'[r] \in {l, m, "idle"}
        /\ \A q \in Runs \ {r} : pc'[q] = pc[q] /\ index'[q] = index[q]
    BY Going
  <1>2. category' \in [Runs -> Categories] /\ category' = category
    BY DEF TypeOK
  <1>3. pc'[r] # "categorizing" /\ pc'[r] # "creating"
    BY <1>1
  <1> QED
    BY <1>1, <1>2, <1>3 DEF Moves

\* Each step of a run moves it so.
LEMMA StepMoves ==
  ASSUME TypeOK, CategoriesBounded, NEW r \in Runs, Begin(r) \/ Step(r)
  PROVE  Moves(r)
  <1> USE DEF PCs
  <1>1. CASE Begin(r)
    BY <1>1, PlainMove DEF Begin, guild
  <1>2. CASE Count(r)
    BY <1>2, PlainMove DEF Count, guild
  <1>3. CASE Find(r)
    <2>1. /\ category' = [category EXCEPT ![r] = 1] /\ UNCHANGED <<index, categories>>
          /\ pc' = [pc EXCEPT ![r] = IF categories = 0 THEN "categorizing" ELSE "purging"]
      BY <1>3 DEF Find, Goto, guild
    <2>2. pc \in [Runs -> PCs] /\ index \in [Runs -> DOMAIN Counters]
          /\ category \in [Runs -> Categories]
      BY DEF TypeOK
    <2>3. CASE categories = 0
      BY <2>1, <2>2, <2>3, Parameters DEF Moves
    <2>4. CASE categories # 0
      BY <2>1, <2>2, <2>4, Parameters DEF Moves
    <2> QED
      BY <2>3, <2>4
  <1>4. CASE CreateCategory(r)
    <2>1. /\ category' = [category EXCEPT ![r] = categories + 1]
          /\ pc' = [pc EXCEPT ![r] = "purging"] /\ index' = index
          /\ pc[r] = "categorizing" /\ categories' = categories + 1
      BY <1>4 DEF CreateCategory, MakeCategory, Goto
    <2>2. pc \in [Runs -> PCs] /\ index \in [Runs -> DOMAIN Counters]
          /\ category \in [Runs -> Categories] /\ categories \in Nat
      BY DEF TypeOK
    <2>3. categories + 1 \in Categories
      <3>1. Categorizing \in SUBSET Runs /\ r \in Categorizing
        BY <2>1 DEF Categorizing
      <3>2. Cardinality({}) + 1 <= Cardinality(Categorizing) /\ Cardinality({}) = 0
        BY <3>1, SmallerSet, FS_EmptySet
      <3>3. Cardinality(Categorizing) \in Nat
        BY <3>1, SetOfRuns
      <3> QED
        BY <2>2, <3>2, <3>3, Parameters DEF CategoriesBounded, Categories
    <2> QED
      BY <2>1, <2>2, <2>3 DEF Moves
  <1>5. CASE Select(r)
    BY <1>5, PlainMove DEF Select, guild
  <1>6. CASE Purge(r)
    <2>1. UNCHANGED <<pc, index, category, categories>> /\ pc[r] = "deleting"
      BY <1>6 DEF Purge
    <2> QED
      BY <2>1 DEF TypeOK, Moves
  <1>7. CASE Purged(r)
    BY <1>7, PlainMove DEF Purged, guild
  <1>8. CASE Look(r)
    <2>1. UNCHANGED <<category, categories, name>>
      BY <1>8 DEF Look, guild
    <2>2. \/ Goto(r, "migrating") /\ UNCHANGED index
          \/ Goto(r, "creating") /\ UNCHANGED index /\ Missing(Live(category[r], Kind(r)))
          \/ Goto(r, "editing") /\ UNCHANGED index
          \/ Advance(r, "updating", "idle")
      BY <1>8 DEF Look
    <2>3. CASE Goto(r, "creating") /\ UNCHANGED index /\ Missing(Live(category[r], Kind(r)))
      <3>1. pc' = [pc EXCEPT ![r] = "creating"]
        BY <2>3 DEF Goto
      <3> QED
        BY <2>1, <2>3, <3>1 DEF TypeOK, Moves
    <2>4. CASE Goto(r, "migrating") /\ UNCHANGED index
      BY <2>1, <2>4, PlainMove
    <2>5. CASE Goto(r, "editing") /\ UNCHANGED index
      BY <2>1, <2>5, PlainMove
    <2>6. CASE Advance(r, "updating", "idle")
      BY <2>1, <2>6, PlainMove
    <2> QED
      BY <2>2, <2>3, <2>4, <2>5, <2>6
  <1>9. CASE Migrate(r)
    <2>1. /\ Quit(r) \/ (Goto(r, "updating") /\ UNCHANGED index)
          /\ UNCHANGED <<category, categories>>
      BY <1>9 DEF Migrate
    <2> QED
      BY <2>1, PlainMove
  <1>10. CASE Create(r)
    BY <1>10, PlainMove DEF Create
  <1>11. CASE Edit(r)
    <2>1. /\ Quit(r) \/ Advance(r, "updating", "idle")
          /\ UNCHANGED <<category, categories>>
      BY <1>11 DEF Edit
    <2> QED
      BY <2>1, PlainMove
  <1>12. CASE Raise(r)
    <2>1. Quit(r) /\ UNCHANGED category
      BY <1>12 DEF Raise
    <2>2. UNCHANGED categories \/ (pc[r] = "categorizing" /\ categories' = categories + 1)
      BY <1>12 DEF Raise, Unanswered, MakeCategory, guild
    <2> QED
      BY <2>1, <2>2, PlainMove
  <1> QED
    BY <1>1, <1>2, <1>3, <1>4, <1>5, <1>6, <1>7, <1>8, <1>9, <1>10, <1>11, <1>12 DEF Step

\* What a step of a run does to the channels of counter k in category c.
Changes(r, c, k) ==
  /\ name'[c][k] \in Names
  /\ \/ Len(name'[c][k]) = Len(name[c][k])
     \/ /\ Len(name'[c][k]) = Len(name[c][k]) + 1
        /\ r \in Creating(c, k) /\ pc'[r] # "creating"
  /\ Len(name'[c][k]) > 0 => name'[c][k][1] # Gone

\* A channel that gets another name, and is not the first or not deleted.
LEMMA OneRenamed ==
  ASSUME TypeOK, FirstStands, NEW d \in Categories, NEW m \in Kinds,
         NEW i \in Nat, NEW v \in Values \cup {Gone}, i > 1 \/ v # Gone,
         name' = [name EXCEPT ![d][m][i] = v], NEW r \in Runs
  PROVE  /\ name' \in [Categories -> [Kinds -> Names]]
         /\ \A c \in Categories : \A k \in Kinds : Changes(r, c, k)
  <1> DEFINE s == name[d][m]
             t == [s EXCEPT ![i] = v]
  <1>1. name \in [Categories -> [Kinds -> Names]] /\ s \in Names
    BY DEF TypeOK
  <1>2. /\ t \in Names /\ Len(t) = Len(s)
        /\ Len(s) > 0 => t[1] = IF i = 1 THEN v ELSE s[1]
    BY <1>1, Renamed
  <1>3. name' = [name EXCEPT ![d] = [@ EXCEPT ![m] = t]]
    OBVIOUS
  <1>4. Len(s) > 0 => t[1] # Gone
    BY <1>2 DEF FirstStands
  <1> HIDE DEF t
  <1>5. name' \in [Categories -> [Kinds -> Names]]
    BY <1>1, <1>2, <1>3
  <1>6. ASSUME NEW c \in Categories, NEW k \in Kinds
        PROVE  Changes(r, c, k)
    <2>1. CASE c = d /\ k = m
      <3>1. name'[c][k] = t /\ name[c][k] = s
        BY <1>1, <1>3, <2>1
      <3> QED
        BY <1>2, <1>4, <3>1 DEF Changes
    <2>2. CASE ~(c = d /\ k = m)
      <3>1. name'[c][k] = name[c][k]
        BY <1>1, <1>3, <2>2
      <3> QED
        BY <1>1, <3>1 DEF Changes, FirstStands
    <2> QED
      BY <2>1, <2>2
  <1> QED
    BY <1>5, <1>6

\* A run is about a counter and a category that exist.
LEMMA About ==
  ASSUME TypeOK, NEW r \in Runs
  PROVE  /\ Kind(r) \in Kinds /\ category[r] \in Categories
         /\ counts[r][Kind(r)] \in Values
  <1>1. index[r] \in DOMAIN Counters /\ category[r] \in Categories
        /\ counts[r] \in [Kinds -> Values]
    BY DEF TypeOK
  <1>2. Kind(r) \in Kinds
    BY <1>1, Parameters DEF Kind
  <1> QED
    BY <1>1, <1>2

\* Each step of a run changes the channels so.
LEMMA StepChanges ==
  ASSUME IInv, NEW r \in Runs, Begin(r) \/ Step(r)
  PROVE  /\ name' \in [Categories -> [Kinds -> Names]]
         /\ \A c \in Categories : \A k \in Kinds : Changes(r, c, k)
  <1> USE DEF IInv
  <1>0. /\ Kind(r) \in Kinds /\ category[r] \in Categories
        /\ counts[r][Kind(r)] \in Values /\ Gone \notin Values
    BY About, StatsAssumption
  <1>1. CASE UNCHANGED name
    BY <1>1 DEF TypeOK, Changes, FirstStands
  <1>2. CASE Purge(r) /\ name' # name
    <2>1. PICK i \in doomed[r] : name' = [name EXCEPT ![category[r]][Kind(r)][i] = Gone]
      BY <1>2 DEF Purge, Delete
    <2>2. i \in Nat /\ i > 1
      BY <2>1 DEF TypeOK, FirstSpared
    <2> QED
      BY <1>0, <2>1, <2>2, OneRenamed
  <1>3. CASE MakeChannel(r) /\ pc[r] = "creating" /\ (Quit(r) \/ Advance(r, "updating", "idle"))
    <2> DEFINE d == category[r]
               m == Kind(r)
               v == counts[r][m]
               s == name[d][m]
               t == Append(s, v)
    <2>1. name' = [name EXCEPT ![d] = [@ EXCEPT ![m] = t]] /\ pc[r] = "creating"
      BY <1>3 DEF MakeChannel
    <2>2. name \in [Categories -> [Kinds -> Names]] /\ s \in Names
      BY <1>0 DEF TypeOK
    <2>3. /\ t \in Names /\ Len(t) = Len(s) + 1 /\ Len(s) \in Nat
          /\ \A i \in 1..Len(s) : t[i] = s[i]
          /\ t[Len(s) + 1] = v
      BY <1>0, <2>2, AppendProperties, LenProperties DEF Names
    <2>4. t[1] # Gone
      <3>1. CASE Len(s) = 0
        BY <1>0, <2>3, <3>1
      <3>2. CASE Len(s) > 0
        <4>1. s[1] # Gone
          BY <1>0, <3>2 DEF FirstStands
        <4> QED
          BY <2>3, <3>2, <4>1
      <3> QED
        BY <2>3, <3>1, <3>2
    <2>5. r \in Creating(d, m) /\ pc'[r] # "creating"
      <3>1. pc'[r] \in {"updating", "idle"}
        BY <1>3, Going DEF PCs
      <3> QED
        BY <2>1, <3>1 DEF Creating
    <2> HIDE DEF t, d, m
    <2>6. name' \in [Categories -> [Kinds -> Names]]
      BY <1>0, <2>1, <2>2, <2>3 DEF d, m
    <2>7. ASSUME NEW c \in Categories, NEW k \in Kinds
          PROVE  Changes(r, c, k)
      <3>1. CASE c = d /\ k = m
        <4>1. name'[c][k] = t /\ name[c][k] = s
          BY <2>1, <2>2, <3>1
        <4> QED
          BY <2>3, <2>4, <2>5, <3>1, <4>1 DEF Changes
      <3>2. CASE ~(c = d /\ k = m)
        <4>1. name'[c][k] = name[c][k]
          BY <2>1, <2>2, <3>2
        <4> QED
          BY <2>2, <4>1 DEF Changes, FirstStands
      <3> QED
        BY <3>1, <3>2
    <2> QED
      BY <2>6, <2>7
  <1>4. CASE Rename(r)
    <2>1. name' = [name EXCEPT ![category[r]][Kind(r)][target[r]] = counts[r][Kind(r)]]
      BY <1>4 DEF Rename
    <2>2. target[r] \in Nat /\ counts[r][Kind(r)] # Gone
      BY <1>0 DEF TypeOK
    <2> QED
      BY <1>0, <2>1, <2>2, OneRenamed
  <1> QED
    <2>1. CASE Create(r)
      BY <1>3, <2>1 DEF Create
    <2>2. CASE Edit(r)
      BY <1>1, <1>4, <2>2 DEF Edit
    <2>3. CASE Raise(r)
      BY <1>1, <1>3, <1>4, <2>3 DEF Raise, Unanswered, guild
    <2>4. UNCHANGED name \/ (Purge(r) /\ name' # name) \/ Create(r) \/ Edit(r) \/ Raise(r)
      BY DEF Step, Begin, Count, Find, CreateCategory, Select, Purged, Look, Migrate, guild
    <2> QED
      BY <1>1, <1>2, <2>1, <2>2, <2>3, <2>4

-----------------------------------------------------------------------------
(* The invariant *)

LEMMA InitIInv == Init => IInv
  <1> SUFFICES ASSUME Init
               PROVE  IInv
    OBVIOUS
  <1>1. PICK left \in [Kinds -> Leftover] :
          name = [c \in Categories |-> IF c = 1 THEN left ELSE [k \in Kinds |-> <<>>]]
    <2>1. [Kinds -> IF categories = 1 THEN Leftover ELSE {<<>>}] \subseteq [Kinds -> Leftover]
      BY StatsAssumption
    <2> QED
      BY <2>1 DEF Init
  <1>2. ASSUME NEW c \in Categories, NEW k \in Kinds
        PROVE  name[c][k] \in Leftover /\ name[c][k] \in Seq(Values) /\ Creating(c, k) = {}
    <2>1. Creating(c, k) = {}
      BY DEF Init, Creating
    <2>2. name[c][k] \in Leftover
      BY <1>1, StatsAssumption
    <2> QED
      BY <2>1, <2>2, StatsAssumption
  <1>3. TypeOK
    <2>1. name \in [Categories -> [Kinds -> Names]]
      <3>1. \A k \in Kinds : left[k] \in Names /\ <<>> \in Names
        BY StatsAssumption DEF Names
      <3>2. left \in [Kinds -> Names] /\ [k \in Kinds |-> <<>>] \in [Kinds -> Names]
        BY <3>1
      <3> QED
        BY <1>1, <3>2
    <2> QED
      BY <2>1, Parameters DEF Init, TypeOK, PCs
  <1>4. CategoriesBounded
    <2>1. Categorizing = {}
      BY DEF Init, Categorizing
    <2> QED
      BY <2>1, Parameters, FS_EmptySet DEF Init, CategoriesBounded
  <1>5. ChannelsBounded
    BY <1>2 DEF ChannelsBounded
  <1>6. FirstSpared
    BY DEF Init, FirstSpared
  <1>7. FirstStands
    <2> SUFFICES ASSUME NEW c \in Categories, NEW k \in Kinds, Len(name[c][k]) > 0
                 PROVE  name[c][k][1] # Gone
      BY DEF FirstStands
    <2>1. name[c][k] \in Seq(Values)
      BY <1>2
    <2>2. name[c][k][1] \in Values
      BY <2>1
    <2> QED
      BY <2>2, StatsAssumption
  <1> QED
    BY <1>3, <1>4, <1>5, <1>6, <1>7 DEF IInv

\* What a run deletes comes behind another channel.
LEMMA DuplicatesBehind ==
  ASSUME TypeOK, NEW r \in Runs
  PROVE  LET D == Duplicates(Live(category[r], Kind(r)))
         IN  D \subseteq Nat /\ \A i \in D : i > 1
  <1> DEFINE S == Live(category[r], Kind(r))
  <1>1. name[category[r]][Kind(r)] \in Names
    BY About DEF TypeOK
  <1>2. S \subseteq Nat \ {0}
    BY <1>1, LenProperties DEF Live, Names
  <1> HIDE DEF S
  <1>3. Duplicates(S) \subseteq S /\ \A i \in Duplicates(S) : \E j \in S : ~(i <= j)
    BY DEF Duplicates, IsFirst
  <1> QED
    BY <1>2, <1>3 DEF S

\* A run that finds no channel finds that there never was one.
LEMMA MissingMeansNone ==
  ASSUME TypeOK, FirstStands, NEW c \in Categories, NEW k \in Kinds, Missing(Live(c, k))
  PROVE  Len(name[c][k]) = 0
  <1>1. name[c][k] \in Names
    BY DEF TypeOK
  <1>2. Len(name[c][k]) \in Nat /\ DOMAIN name[c][k] = 1..Len(name[c][k])
    BY <1>1, LenProperties DEF Names
  <1>3. Live(c, k) = {}
    BY DEF Missing
  <1>4. SUFFICES ASSUME Len(name[c][k]) > 0
                 PROVE  FALSE
    BY <1>2
  <1>5. 1 \in Live(c, k)
    BY <1>2, <1>4 DEF FirstStands, Live
  <1> QED
    BY <1>3, <1>5

LEMMA StepIInv ==
  ASSUME IInv, NEW r \in Runs, Begin(r) \/ Step(r)
  PROVE  IInv'
  <1>1. TypeOK /\ Moves(r)
    BY StepMoves DEF IInv
  <1>2. /\ name' \in [Categories -> [Kinds -> Names]]
        /\ \A c \in Categories : \A k \in Kinds : Changes(r, c, k)
    BY StepChanges
  <1>3. doomed' \in [Runs -> SUBSET Nat] /\ FirstSpared'
    <2>1. doomed \in [Runs -> SUBSET Nat] /\ FirstSpared
      BY DEF IInv, TypeOK
    <2>2. CASE UNCHANGED doomed
      BY <2>1, <2>2 DEF FirstSpared
    <2>3. CASE Select(r)
      BY <2>1, <2>3, <1>1, DuplicatesBehind DEF Select, FirstSpared
    <2>4. CASE Purge(r)
      <3>1. PICK i : doomed' = [doomed EXCEPT ![r] = @ \ {i}]
        BY <2>4 DEF Purge
      <3> QED
        BY <2>1, <3>1 DEF FirstSpared
    <2> QED
      BY <2>2, <2>3, <2>4 DEF Step, Begin, Count, Find, CreateCategory, Purged, Look,
                              Migrate, Create, Edit, Raise
  <1>4. target' \in [Runs -> Nat]
    <2>1. CASE Look(r)
      <3>1. UNCHANGED target \/ \E i \in Live(category[r], Kind(r)) :
                                  target' = [target EXCEPT ![r] = i]
        BY <2>1 DEF Look
      <3>2. Live(category[r], Kind(r)) \subseteq Nat
        <4>1. name[category[r]][Kind(r)] \in Names
          BY <1>1, About DEF TypeOK
        <4> QED
          BY <4>1, LenProperties DEF Live, Names
      <3> QED
        BY <1>1, <3>1, <3>2 DEF TypeOK
    <2>2. CASE UNCHANGED target
      BY <1>1, <2>2 DEF TypeOK
    <2> QED
      BY <2>1, <2>2 DEF Step, Begin, Count, Find, CreateCategory, Select, Purge, Purged,
                        Migrate, Create, Edit, Raise
  <1>5. counts' \in [Runs -> [Kinds -> Values]] /\ truth' \in [Kinds -> Values]
    <2>1. UNCHANGED truth /\ (UNCHANGED counts \/ counts' = [counts EXCEPT ![r] = truth])
      BY DEF Step, Begin, Count, Find, CreateCategory, Select, Purge, Purged, Look,
             Migrate, Create, Edit, Raise
    <2> QED
      BY <1>1, <2>1 DEF TypeOK
  <1>6. categories' \in Nat
    BY <1>1 DEF TypeOK, Moves
  <1>7. TypeOK'
    BY <1>1, <1>2, <1>3, <1>4, <1>5, <1>6 DEF TypeOK, Moves
  <1>8. CategoriesBounded'
    <2>1. Categorizing \in SUBSET Runs /\ Categorizing' \in SUBSET Runs
      BY DEF Categorizing
    <2>2. CASE pc'[r] = "categorizing"
      BY <1>1, <2>1, <2>2, SetOfRuns DEF Moves, CategoriesBounded
    <2>3. CASE pc'[r] # "categorizing"
      <3>1. Categorizing' \in SUBSET Categorizing /\ r \notin Categorizing'
        BY <1>1, <2>3 DEF Moves, Categorizing
      <3>2. /\ Cardinality(Categorizing') \in Nat /\ Cardinality(Categorizing) \in Nat
            /\ Cardinality(Categorizing') <= Cardinality(Categorizing)
            /\ r \in Categorizing =>
                 Cardinality(Categorizing') + 1 <= Cardinality(Categorizing)
        BY <2>1, <3>1, SmallerSet
      <3>3. CASE UNCHANGED categories
        BY <1>1, <3>2, <3>3, Parameters DEF IInv, CategoriesBounded, TypeOK
      <3>4. CASE pc[r] = "categorizing" /\ categories' = categories + 1
        <4>1. r \in Categorizing
          BY <3>4 DEF Categorizing
        <4> QED
          BY <1>1, <3>2, <3>4, <4>1, Parameters DEF IInv, CategoriesBounded, TypeOK
      <3> QED
        BY <1>1, <3>3, <3>4 DEF Moves
    <2> QED
      BY <2>2, <2>3
  <1>9. ChannelsBounded'
    <2> SUFFICES ASSUME NEW c \in Categories, NEW k \in Kinds
                 PROVE  \/ Len(name'[c][k]) + Cardinality(Creating(c, k)') <= Cardinality(Runs)
                        \/ /\ Creating(c, k)' = {}
                           /\ \E left \in Leftover : Len(name'[c][k]) = Len(left)
      BY DEF ChannelsBounded
    <2>1. Creating(c, k) \in SUBSET Runs /\ Creating(c, k)' \in SUBSET Runs
      BY DEF Creating
    <2>2. /\ Len(name[c][k]) \in Nat
          /\ \/ Len(name[c][k]) + Cardinality(Creating(c, k)) <= Cardinality(Runs)
             \/ /\ Creating(c, k) = {}
                /\ \E left \in Leftover : Len(name[c][k]) = Len(left)
          /\ Changes(r, c, k)
      <3>1. name[c][k] \in Names
        BY <1>1 DEF TypeOK
      <3>2. Len(name[c][k]) \in Nat
        BY <3>1, LenProperties DEF Names
      <3> QED
        BY <1>2, <3>2 DEF IInv, ChannelsBounded
    <2>3. CASE pc'[r] = "creating" /\ category[r] = c /\ Kind(r) = k
      <3>1. name' = name /\ Missing(Live(c, k))
        BY <1>1, <2>3 DEF Moves
      <3>2. Len(name'[c][k]) = 0
        BY <1>1, <3>1, MissingMeansNone DEF IInv
      <3> QED
        BY <2>1, <3>2, SetOfRuns
    <2>4. CASE ~(pc'[r] = "creating" /\ category[r] = c /\ Kind(r) = k)
      <3>1. /\ Creating(c, k)' \in SUBSET Creating(c, k)
            /\ pc'[r] # "creating" => r \notin Creating(c, k)'
        BY <1>1, <2>4 DEF Moves, Creating, Kind
      <3>2. /\ Cardinality(Creating(c, k)') \in Nat /\ Cardinality(Creating(c, k)) \in Nat
            /\ Cardinality(Creating(c, k)') <= Cardinality(Creating(c, k))
            /\ pc'[r] # "creating" /\ r \in Creating(c, k) =>
                 Cardinality(Creating(c, k)') + 1 <= Cardinality(Creating(c, k))
        BY <2>1, <3>1, SmallerSet
      <3>3. CASE Len(name'[c][k]) = Len(name[c][k])
        BY <2>2, <3>1, <3>2, <3>3, Parameters
      <3>4. CASE /\ Len(name'[c][k]) = Len(name[c][k]) + 1
                 /\ r \in Creating(c, k) /\ pc'[r] # "creating"
        BY <2>2, <3>2, <3>4, Parameters
      <3> QED
        BY <2>2, <3>3, <3>4 DEF Changes
    <2> QED
      BY <2>3, <2>4
  <1>10. FirstStands'
    BY <1>2 DEF FirstStands, Changes
  <1> QED
    BY <1>3, <1>7, <1>8, <1>9, <1>10 DEF IInv

LEMMA NextIInv == IInv /\ [Next]_vars => IInv'
  <1> SUFFICES ASSUME IInv, [Next]_vars
               PROVE  IInv'
    OBVIOUS
  <1>1. ASSUME NEW r \in Runs, Begin(r) \/ Step(r)
        PROVE  IInv'
    BY <1>1, StepIInv
  <1>2. CASE Change \/ UNCHANGED vars
    <2>1. UNCHANGED <<categories, name, pc, index, counts, category, doomed, target>>
          /\ (UNCHANGED truth \/ \E k \in Kinds : \E v \in Values :
                                   truth' = [truth EXCEPT ![k] = v])
      BY <1>2 DEF Change, vars, guild, run
    <2>2. TypeOK'
      BY <2>1 DEF IInv, TypeOK
    <2>3. /\ Categorizing' = Categorizing
          /\ \A c \in Categories : \A k \in Kinds : Creating(c, k)' = Creating(c, k)
      BY <2>1 DEF Categorizing, Creating, Kind
    <2> QED
      BY <2>1, <2>2, <2>3
      DEF IInv, CategoriesBounded, ChannelsBounded, FirstSpared, FirstStands
  <1> QED
    BY <1>1, <1>2 DEF Next

LEMMA AlwaysIInv == Spec => []IInv
  BY InitIInv, NextIInv, PTL DEF Spec

\* Every run is always about a counter and in a category that exist, whatever
\* raised before, and the channels have the names of counts or are gone.
THEOREM TypeCorrect == Spec => []TypeOK
  <1>1. IInv => TypeOK
    BY DEF IInv
  <1> QED
    BY <1>1, AlwaysIInv, PTL

\* However many runs overlap, a counter gets at most one channel from each, and
\* none beside those left from before.
THEOREM DuplicatesAreBounded == Spec => []DuplicatesBounded
  <1>1. IInv => DuplicatesBounded
    <2> SUFFICES ASSUME IInv, NEW c \in Categories, NEW k \in Kinds
                 PROVE  \/ Len(name[c][k]) <= Cardinality(Runs)
                        \/ \E left \in Leftover : Len(name[c][k]) = Len(left)
      BY DEF DuplicatesBounded
    <2>1. Creating(c, k) \in SUBSET Runs
      BY DEF Creating
    <2>2. Cardinality(Creating(c, k)) \in Nat /\ Len(name[c][k]) \in Nat
      BY <2>1, SetOfRuns, LenProperties DEF IInv, TypeOK, Names
    <2> QED
      BY <2>2, Parameters DEF IInv, ChannelsBounded
  <1> QED
    BY <1>1, AlwaysIInv, PTL

\* No step of any run takes the last channel of a counter.
THEOREM LastChannelStays == Spec => LastChannelSurvives
  <1>1. ASSUME IInv, IInv', [Next]_vars, NEW c \in Categories, NEW k \in Kinds,
               Live(c, k) # {}
        PROVE  Live(c, k)' # {}
    <2>1. name[c][k] \in Names /\ name'[c][k] \in Names
      BY <1>1 DEF IInv, TypeOK
    <2>2. /\ Len(name[c][k]) \in Nat /\ DOMAIN name[c][k] = 1..Len(name[c][k])
          /\ Len(name'[c][k]) \in Nat /\ DOMAIN name'[c][k] = 1..Len(name'[c][k])
      BY <2>1, LenProperties DEF Names
    <2>3. Len(name[c][k]) > 0
      BY <1>1, <2>2 DEF Live
    <2>4. Len(name'[c][k]) >= Len(name[c][k])
      <3>1. CASE \E r \in Runs : Begin(r) \/ Step(r)
        BY <1>1, <2>2, <3>1, StepChanges DEF Changes
      <3>2. CASE UNCHANGED name
        BY <2>2, <3>2
      <3> QED
        BY <1>1, <3>1, <3>2 DEF Next, Change, vars, guild
    <2>5. name'[c][k][1] # Gone
      BY <1>1, <2>2, <2>3, <2>4 DEF IInv, FirstStands
    <2> QED
      BY <2>2, <2>3, <2>4, <2>5 DEF Live
  <1>2. IInv /\ IInv' /\ [Next]_vars =>
          [\A c \in Categories : \A k \in Kinds : Live(c, k) # {} => Live(c, k)' # {}]_vars
    BY <1>1
  <1> QED
    BY <1>2, AlwaysIInv, PTL DEF Spec, LastChannelSurvives
=============================================================================
