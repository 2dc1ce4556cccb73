------------------------- MODULE ChatMonitorProofs -------------------------
(***************************************************************************)
(* Proofs about the chat monitor, for any messages, cooldowns and number   *)
(* of slots, and however long the model takes to answer.                   *)
(***************************************************************************)
EXTENDS ChatMonitor, FiniteSetTheorems, SequenceTheorems, TLAPS

\* A stamp is never before an acceptance it stands for, nor after now.
StampsCover ==
  /\ \A m \in Messages : accepted[m] # Never =>
       /\ accepted[m] <= cooldowns[Channel[m]]
       /\ accepted[m] <= userCooldowns[Author[m]]
  /\ \A c \in Channels : cooldowns[c] <= now
  /\ \A a \in Authors : userCooldowns[a] <= now
  /\ \A m \in Messages : pc[m] = "unseen" => accepted[m] = Never

\* A request is made once, and after the search.
SentOnce == \A q \in queued \cup requests : pc[q] \in {"inferring", "replying", "done"}

IInv == /\ TypeOK /\ SentOnce /\ StampsCover /\ AcceptedSpaced /\ WaitersAreWaiting
        /\ InferencesWithinLimit /\ OnlyTheAwaitedBegin

\* Where a message is, for every message.
LEMMA Places ==
  \A m \in Messages : Channel[m] \in Channels /\ Author[m] \in Authors /\ m \in Asks
  BY DEF Channels, Authors, Asks

\* Nothing has arrived: no slot is taken.
LEMMA InitInv == Init => IInv
<1> SUFFICES ASSUME Init PROVE IInv
  OBVIOUS
<1>1. Inside = {}
  BY Places DEF Init, Inside
<1>2. Cardinality(Inside) = 0
  BY <1>1, FS_EmptySet
<1>3. InferencesWithinLimit /\ OnlyTheAwaitedBegin /\ SentOnce
  BY <1>1, <1>2, FS_EmptySet, ChatAssumption
  DEF InferencesWithinLimit, OnlyTheAwaitedBegin, SentOnce, Init
<1>4. TypeOK /\ StampsCover /\ AcceptedSpaced /\ WaitersAreWaiting
  BY ChatAssumption, Places
  DEF Init, TypeOK, StampsCover, AcceptedSpaced, WaitersAreWaiting, Never, Moments, PCs
<1> QED
  BY <1>3, <1>4 DEF IInv

-----------------------------------------------------------------------------
(* The semaphore's queue *)

In(s, n) == \E j \in 1..Len(s) : s[j] = n
Once(s)  == \A j, k \in 1..Len(s) : s[j] = s[k] => j = k

\* t is s without its place i.
RestOf(t, s, i) == /\ Len(t) = Len(s) - 1
                   /\ \A k \in 1..Len(t) : t[k] = IF k < i THEN s[k] ELSE s[k + 1]

\* What joins a queue is in it, behind the others.
LEMMA Joined ==
  ASSUME NEW S, NEW s \in Seq(S), Once(s), NEW m \in S, ~In(s, m)
  PROVE  /\ Append(s, m) \in Seq(S)
         /\ Once(Append(s, m))
         /\ \A n \in S : In(Append(s, m), n) <=> n = m \/ In(s, n)
<1> DEFINE t == Append(s, m)
<1>1. /\ t \in Seq(S) /\ Len(t) = Len(s) + 1 /\ Len(s) \in Nat
      /\ \A k \in 1..Len(s) : t[k] = s[k]
      /\ t[Len(s) + 1] = m
  BY AppendProperties, LenProperties
<1> HIDE DEF t
<1>2. Once(t)
  BY <1>1 DEF Once, In
<1>3. \A n \in S : In(t, n) <=> n = m \/ In(s, n)
  BY <1>1 DEF In
<1> QED
  BY <1>1, <1>2, <1>3 DEF t

\* What leaves a queue is not in it any more, and all others are.
LEMMA Removed ==
  ASSUME NEW S, NEW s \in Seq(S), Once(s), NEW t \in Seq(S), NEW i \in 1..Len(s),
         RestOf(t, s, i)
  PROVE  /\ Once(t)
         /\ \A n \in S : In(t, n) <=> n # s[i] /\ In(s, n)
<1>1. /\ Len(s) \in Nat /\ Len(t) \in Nat /\ Len(t) = Len(s) - 1
      /\ \A k \in 1..Len(t) : t[k] = IF k < i THEN s[k] ELSE s[k + 1]
  BY LenProperties DEF RestOf
<1>2. Once(t)
  BY <1>1 DEF Once
<1>3. ASSUME NEW n \in S, In(t, n) PROVE n # s[i] /\ In(s, n)
  <2>1. PICK k \in 1..Len(t) : t[k] = n
    BY <1>3 DEF In
  <2>2. PICK j \in 1..Len(s) : j # i /\ s[j] = n
    <3>1. CASE k < i
      BY <3>1, <2>1, <1>1
    <3>2. CASE ~(k < i)
      BY <3>2, <2>1, <1>1
    <3> QED
      BY <3>1, <3>2
  <2> QED
    BY <2>2 DEF In, Once
<1>4. ASSUME NEW n \in S, n # s[i], In(s, n) PROVE In(t, n)
  <2>1. PICK j \in 1..Len(s) : s[j] = n
    BY <1>4 DEF In
  <2>2. CASE j < i
    <3>1. j \in 1..Len(t) /\ t[j] = n
      BY <2>1, <2>2, <1>1
    <3> QED
      BY <3>1 DEF In
  <2>3. CASE j > i
    <3>1. j - 1 \in 1..Len(t) /\ t[j - 1] = n
      BY <2>1, <2>3, <1>1
    <3> QED
      BY <3>1 DEF In
  <2> QED
    BY <2>1, <2>2, <2>3, <1>4
<1> QED
  BY <1>2, <1>3, <1>4

\* A waiter that is cancelled leaves the rest of the queue as it was.
LEMMA Left ==
  ASSUME TypeOK, Once(waiters), NEW m \in Messages, Leave(m)
  PROVE  /\ waiters' \in Seq(Messages)
         /\ Once(waiters')
         /\ \A n \in Messages : In(waiters', n) <=> n # m /\ In(waiters, n)
<1>1. PICK i \in 1..Len(waiters) :
        /\ waiters[i] = m
        /\ waiters' = SubSeq(waiters, 1, i - 1) \o SubSeq(waiters, i + 1, Len(waiters))
  BY DEF Leave
<1> DEFINE a == SubSeq(waiters, 1, i - 1)
           b == SubSeq(waiters, i + 1, Len(waiters))
<1>2. waiters \in Seq(Messages) /\ Len(waiters) \in Nat
      /\ \A k \in 1..Len(waiters) : waiters[k] \in Messages
  BY LenProperties, ElementOfSeq DEF TypeOK
<1>3. /\ a \in Seq(Messages) /\ Len(a) = i - 1
      /\ \A k \in 1..i - 1 : a[k] = waiters[k]
  <2>1. \A k \in 1..i - 1 : waiters[k] \in Messages
    BY <1>2
  <2> QED
    BY <2>1, <1>2, SubSeqProperties
<1>4. /\ b \in Seq(Messages) /\ Len(b) = Len(waiters) - i
      /\ \A k \in 1..Len(waiters) - i : b[k] = waiters[i + k]
  <2>1. \A k \in i + 1..Len(waiters) : waiters[k] \in Messages
    BY <1>2
  <2>2. /\ b \in Seq(Messages)
        /\ Len(b) = IF i + 1 <= Len(waiters) THEN Len(waiters) - (i + 1) + 1 ELSE 0
        /\ \A k \in 1..Len(waiters) - (i + 1) + 1 : b[k] = waiters[(i + 1) + k - 1]
    BY <2>1, <1>2, SubSeqProperties
  <2> HIDE DEF b
  <2> QED
    BY <2>2, <1>2
<1> HIDE DEF a, b
<1>5. /\ waiters' \in Seq(Messages) /\ Len(waiters') = Len(a) + Len(b)
      /\ \A k \in 1..Len(a) + Len(b) : waiters'[k] = IF k <= Len(a) THEN a[k] ELSE b[k - Len(a)]
  BY <1>1, <1>3, <1>4, ConcatProperties DEF a, b
<1>6. Len(waiters') = Len(waiters) - 1
  BY <1>2, <1>3, <1>4, <1>5
<1>7. ASSUME NEW k \in 1..Len(waiters')
      PROVE  waiters'[k] = IF k < i THEN waiters[k] ELSE waiters[k + 1]
  <2>1. CASE k < i
    <3>1. k \in 1..i - 1 /\ k <= Len(a) /\ k \in 1..Len(a) + Len(b)
      BY <2>1, <1>2, <1>3, <1>4, <1>6
    <3> QED
      BY <2>1, <3>1, <1>3, <1>5
  <2>2. CASE ~(k < i)
    <3>1. /\ k - Len(a) \in 1..Len(waiters) - i /\ ~(k <= Len(a))
          /\ k \in 1..Len(a) + Len(b) /\ i + (k - Len(a)) = k + 1
      BY <2>2, <1>2, <1>3, <1>4, <1>6
    <3> QED
      BY <2>2, <3>1, <1>4, <1>5
  <2> QED
    BY <2>1, <2>2
<1>8. RestOf(waiters', waiters, i)
  BY <1>6, <1>7 DEF RestOf
<1>9. waiters \in Seq(Messages) /\ waiters' \in Seq(Messages) /\ i \in 1..Len(waiters)
  BY <1>2, <1>5
<1>10. /\ Once(waiters')
       /\ \A n \in Messages : In(waiters', n) <=> n # waiters[i] /\ In(waiters, n)
  BY <1>8, <1>9, Removed
<1> QED
  BY <1>1, <1>9, <1>10

\* The first waiter leaves it.
LEMMA LetIn ==
  ASSUME TypeOK, Once(waiters), waiters # <<>>
  PROVE  /\ Tail(waiters) \in Seq(Messages)
         /\ Once(Tail(waiters))
         /\ \A n \in Messages : In(Tail(waiters), n) <=> n # Head(waiters) /\ In(waiters, n)
<1>1. waiters \in Seq(Messages) /\ Len(waiters) \in Nat /\ Len(waiters) # 0
      /\ Head(waiters) = waiters[1]
  BY DEF TypeOK
<1>2. /\ Tail(waiters) \in Seq(Messages) /\ Len(Tail(waiters)) = Len(waiters) - 1
      /\ \A k \in 1..Len(Tail(waiters)) : Tail(waiters)[k] = waiters[k + 1]
  BY HeadTailProperties DEF TypeOK
<1>3. 1 \in 1..Len(waiters)
  BY <1>1
<1>4. RestOf(Tail(waiters), waiters, 1)
  BY <1>2 DEF RestOf
<1>5. /\ Once(Tail(waiters))
      /\ \A n \in Messages : In(Tail(waiters), n) <=> n # waiters[1] /\ In(waiters, n)
  BY <1>1, <1>2, <1>3, <1>4, Removed
<1> QED
  BY <1>1, <1>2, <1>5

\* The queue, as the lemmas name it.
LEMMA QueueIs ==
  WaitersAreWaiting <=> /\ \A m \in Messages : pc[m] = "waiting" <=> In(waiters, m)
                        /\ Once(waiters)
  BY DEF WaitersAreWaiting, In, Once

\* Joining, being let in, timing out: the queue is that of those that wait.
LEMMA QueueStep ==
  ASSUME TypeOK, WaitersAreWaiting, [Next]_vars
  PROVE  waiters' \in Seq(Messages) /\ WaitersAreWaiting'
<1> DEFINE Q == /\ waiters' \in Seq(Messages)
                /\ \A m \in Messages : pc'[m] = "waiting" <=> In(waiters', m)
                /\ Once(waiters')
<1>1. /\ waiters \in Seq(Messages) /\ pc \in [Asks -> PCs]
      /\ \A m \in Messages : pc[m] = "waiting" <=> In(waiters, m)
      /\ Once(waiters)
  BY QueueIs DEF TypeOK
<1>2. ASSUME NEW m \in Messages, SearchFinds(m) PROVE Q
  <2>1. pc[m] = "searching" /\ pc' = [pc EXCEPT ![m] = "waiting"]
        /\ waiters' = Append(waiters, m)
    BY <1>2 DEF SearchFinds, Goto
  <2>2. ~In(waiters, m)
    BY <2>1, <1>1
  <2>3. /\ waiters' \in Seq(Messages) /\ Once(waiters')
        /\ \A n \in Messages : In(waiters', n) <=> n = m \/ In(waiters, n)
    BY <2>1, <2>2, <1>1, Joined
  <2> QED
    BY <2>1, <2>3, <1>1, Places
<1>3. ASSUME NEW m \in Messages, Acquire(m) PROVE Q
  <2>1. /\ waiters # <<>> /\ Head(waiters) = m
        /\ pc' = [pc EXCEPT ![m] = "inferring"] /\ waiters' = Tail(waiters)
    BY <1>3 DEF Acquire, Goto
  <2>2. /\ waiters' \in Seq(Messages) /\ Once(waiters')
        /\ \A n \in Messages : In(waiters', n) <=> n # m /\ In(waiters, n)
    BY <2>1, <1>1, LetIn
  <2> QED
    BY <2>1, <2>2, <1>1, Places
<1>4. ASSUME NEW q \in Asks, Timeout(q) PROVE Q
  <2>1. pc' = [pc EXCEPT ![q] = "replying"]
    BY <1>4 DEF Timeout, Goto
  <2>2. CASE pc[q] = "waiting"
    <3>1. Leave(q) /\ q \in Messages
      <4>1. Leave(q)
        BY <1>4, <2>2 DEF Timeout
      <4>2. \A i \in 1..Len(waiters) : waiters[i] \in Messages
        BY <1>1, ElementOfSeq
      <4> QED
        BY <4>1, <4>2 DEF Leave
    <3>2. /\ waiters' \in Seq(Messages) /\ Once(waiters')
          /\ \A n \in Messages : In(waiters', n) <=> n # q /\ In(waiters, n)
      BY <3>1, <1>1, Left
    <3> QED
      BY <2>1, <3>1, <3>2, <1>1, Places
  <2>3. CASE pc[q] # "waiting"
    BY <2>1, <2>3, <1>1, <1>4, Places DEF Timeout
  <2> QED
    BY <2>2, <2>3
<1>5. ASSUME NEW q \in Asks, \/ Take(q) \/ RequestEnds(q) \/ Reply(q)
                             \/ PolicyFinds(q) \/ PolicySuffices(q) \/ PolicyBegins(q)
      PROVE  Q
  BY <1>1, <1>5, Places
  DEF Take, RequestEnds, Reply, PolicyFinds, PolicySuffices, PolicyBegins, Goto
<1>6. ASSUME NEW m \in Messages, \/ Refuse(m) \/ Ignore(m) \/ Accept(m)
                                 \/ SearchSuffices(m) \/ SearchRaises(m)
      PROVE  Q
  BY <1>1, <1>6, Places DEF Refuse, Ignore, Accept, SearchSuffices, SearchRaises, Goto
<1>7. ASSUME Tick \/ UNCHANGED vars PROVE Q
  BY <1>1, <1>7 DEF Tick, vars
<1>8. Q
  BY <1>2, <1>3, <1>4, <1>5, <1>6, <1>7 DEF Next, Handle, Policy, Asks
<1> QED
  BY <1>8 DEF WaitersAreWaiting, In, Once

-----------------------------------------------------------------------------
(* The slots *)

\* One more is at most one more.
LEMMA OneMore ==
  ASSUME NEW S, NEW x, IsFiniteSet(S)
  PROVE  Cardinality(S \cup {x}) \in Nat /\ Cardinality(S \cup {x}) <= Cardinality(S) + 1
<1>1. /\ IsFiniteSet(S \cup {x})
      /\ Cardinality(S \cup {x}) = IF x \in S THEN Cardinality(S) ELSE Cardinality(S) + 1
  BY FS_AddElement
<1>2. Cardinality(S) \in Nat /\ Cardinality(S \cup {x}) \in Nat
  BY <1>1, FS_CardinalityType
<1> QED
  BY <1>1, <1>2

\* Only a question that is let in adds to those that have a slot, and its
\* request stays, queued or with a thread, until it ends or is given up.
LEMMA SlotStep ==
  ASSUME TypeOK, InferencesWithinLimit, [Next]_vars
  PROVE  InferencesWithinLimit'
<1> USE Places DEF TypeOK, Goto
<1>1. IsFiniteSet(Inside) /\ Cardinality(Inside) \in Nat
  BY ChatAssumption, FS_Subset, FS_CardinalityType DEF Inside
<1>2. MaxConcurrent \in Nat
  BY ChatAssumption
<1>3. ASSUME NEW m \in Messages, Acquire(m) PROVE InferencesWithinLimit'
  <2>1. Inside' = Inside \cup {m} /\ queued' = queued \cup {m} /\ requests' = requests
    BY <1>3 DEF Acquire, Submit, Inside
  <2>2. /\ Cardinality(Inside \cup {m}) <= Cardinality(Inside) + 1
        /\ Cardinality(Inside \cup {m}) \in Nat
    BY <1>1, OneMore
  <2>3. Cardinality(Inside) < MaxConcurrent
    BY <1>3 DEF Acquire, SlotFree
  <2>4. Inside' \subseteq queued' \cup requests'
    BY <2>1 DEF InferencesWithinLimit
  <2> QED
    BY <1>1, <1>2, <2>1, <2>2, <2>3, <2>4 DEF InferencesWithinLimit
<1> DEFINE Kept == Inside' \subseteq Inside /\ Inside' \subseteq queued' \cup requests'
<1>4. ASSUME Kept PROVE InferencesWithinLimit'
  <2>1. Cardinality(Inside') <= Cardinality(Inside) /\ Cardinality(Inside') \in Nat
    BY <1>1, <1>4, FS_Subset, FS_CardinalityType
  <2> QED
    BY <1>1, <1>2, <1>4, <2>1 DEF InferencesWithinLimit
<1>5. ASSUME NEW m \in Messages, \/ Refuse(m) \/ Ignore(m) \/ Accept(m) \/ SearchFinds(m)
                                 \/ SearchSuffices(m) \/ SearchRaises(m)
      PROVE  Kept
  BY <1>5 DEF Refuse, Ignore, Accept, SearchFinds, SearchSuffices, SearchRaises,
              Inside, InferencesWithinLimit
<1>6. ASSUME NEW p \in Policies, PolicyBegins(p) \/ Policy(p) PROVE Kept
  BY <1>6, ChatAssumption DEF PolicyBegins, Policy, PolicyFinds, PolicySuffices, Submit,
                              Asks, Inside, InferencesWithinLimit
<1>7. ASSUME NEW q \in Asks, Take(q) \/ RequestEnds(q) \/ Reply(q) PROVE Kept
  BY <1>7 DEF Take, RequestEnds, Reply, Inside, InferencesWithinLimit
<1>8. ASSUME NEW q \in Asks, Timeout(q) PROVE Kept
  BY <1>8 DEF Timeout, Cancel, Inside, InferencesWithinLimit
<1>9. ASSUME Tick \/ UNCHANGED vars PROVE Kept
  BY <1>9 DEF Tick, vars, Inside, InferencesWithinLimit
<1> QED
  BY <1>3, <1>4, <1>5, <1>6, <1>7, <1>8, <1>9 DEF Next, Handle

\* A thread takes a request only when it is free, and whoever leaves his
\* request takes it back.
LEMMA PoolStep ==
  ASSUME TypeOK, SentOnce, OnlyTheAwaitedBegin, WaitersAreWaiting, [Next]_vars
  PROVE  OnlyTheAwaitedBegin' /\ SentOnce'
<1> USE Places DEF TypeOK, SentOnce, Goto
<1>1. IsFiniteSet(requests) /\ Cardinality(requests) \in Nat /\ Threads \in Nat
  <2>1. IsFiniteSet(Asks)
    BY ChatAssumption, FS_Union DEF Asks
  <2> QED
    BY <2>1, ChatAssumption, FS_Subset, FS_CardinalityType
<1> DEFINE Awaited == \A q \in queued' : pc'[q] = "inferring" /\ q \notin requests'
<1>2. ASSUME requests' \subseteq requests, Awaited PROVE OnlyTheAwaitedBegin'
  <2>1. Cardinality(requests') <= Cardinality(requests) /\ Cardinality(requests') \in Nat
    BY <1>1, <1>2, FS_Subset, FS_CardinalityType
  <2> QED
    BY <1>1, <1>2, <2>1 DEF OnlyTheAwaitedBegin
<1>3. ASSUME NEW q \in Asks, Take(q) PROVE OnlyTheAwaitedBegin' /\ SentOnce'
  <2>1. Cardinality(requests \cup {q}) <= Cardinality(requests) + 1
        /\ Cardinality(requests \cup {q}) \in Nat
    BY <1>1, OneMore
  <2>2. Cardinality(requests') <= Threads
    BY <1>1, <1>3, <2>1 DEF Take
  <2>3. Awaited /\ SentOnce'
    BY <1>3 DEF Take, OnlyTheAwaitedBegin
  <2> QED
    BY <2>2, <2>3 DEF OnlyTheAwaitedBegin
<1> DEFINE Fine == requests' \subseteq requests /\ Awaited /\ SentOnce'
<1>4. ASSUME NEW m \in Messages, \/ Refuse(m) \/ Ignore(m) \/ Accept(m) \/ SearchFinds(m)
                                 \/ SearchSuffices(m) \/ SearchRaises(m)
      PROVE  Fine
  BY <1>4 DEF Refuse, Ignore, Accept, SearchFinds, SearchSuffices, SearchRaises,
              OnlyTheAwaitedBegin
<1>5. ASSUME NEW m \in Messages, Acquire(m) PROVE Fine
  <2>1. waiters \in Seq(Messages) /\ waiters # <<>> /\ Head(waiters) = m
    BY <1>5 DEF Acquire
  <2>2. 1 \in 1..Len(waiters) /\ waiters[1] = m
    BY <2>1
  <2>3. pc[m] = "waiting"
    BY <2>2 DEF WaitersAreWaiting
  <2> QED
    BY <1>5, <2>3 DEF Acquire, Submit, OnlyTheAwaitedBegin
<1>6. ASSUME NEW p \in Policies, PolicyBegins(p) \/ Policy(p) PROVE Fine
  BY <1>6 DEF PolicyBegins, Policy, PolicyFinds, PolicySuffices, Submit, Asks,
              OnlyTheAwaitedBegin
<1>7. ASSUME NEW q \in Asks, RequestEnds(q) \/ Reply(q) \/ Timeout(q) PROVE Fine
  BY <1>7 DEF RequestEnds, Reply, Timeout, Cancel, OnlyTheAwaitedBegin
<1>8. ASSUME Tick \/ UNCHANGED vars PROVE Fine
  BY <1>8 DEF Tick, vars, OnlyTheAwaitedBegin
<1> QED
  BY <1>2, <1>3, <1>4, <1>5, <1>6, <1>7, <1>8 DEF Next, Handle

-----------------------------------------------------------------------------
(* The cooldowns *)

\* A stamp is set when a question is accepted and is never set back, so that
\* the next acceptance is a cooldown behind all those it stands for.
LEMMA StampStep ==
  ASSUME TypeOK, StampsCover, AcceptedSpaced, [Next]_vars, waiters' \in Seq(Messages)
  PROVE  TypeOK' /\ StampsCover' /\ AcceptedSpaced'
<1> USE Places, ChatAssumption
    DEF TypeOK, StampsCover, AcceptedSpaced, Apart, Never, Moments, PCs, Goto
<1>1. ASSUME NEW m \in Messages, Accept(m)
      PROVE  TypeOK' /\ StampsCover' /\ AcceptedSpaced'
  <2>1. /\ cooldowns' = [cooldowns EXCEPT ![Channel[m]] = now]
        /\ userCooldowns' = [userCooldowns EXCEPT ![Author[m]] = now]
        /\ accepted' = [accepted EXCEPT ![m] = now]
        /\ pc' = [pc EXCEPT ![m] = "searching"]
        /\ UNCHANGED <<now, waiters, queued, requests>>
        /\ now >= cooldowns[Channel[m]] + Cooldown
        /\ now >= userCooldowns[Author[m]] + UserCooldown
    BY <1>1 DEF Accept, Stamp, CoolingOff
  <2>2. TypeOK'
    BY <2>1
  <2>3. StampsCover'
    BY <2>1
  <2>4. ASSUME NEW n \in Messages, n # m, accepted[n] # Never
        PROVE  /\ Channel[n] = Channel[m] => accepted[n] + Cooldown <= now
               /\ Author[n] = Author[m] => accepted[n] + UserCooldown <= now
    BY <2>1, <2>4
  <2>5. AcceptedSpaced'
    BY <2>1, <2>4
  <2> QED
    BY <2>2, <2>3, <2>5
<1>2. ASSUME NEW m \in Messages, Refuse(m) \/ Ignore(m)
      PROVE  TypeOK' /\ StampsCover' /\ AcceptedSpaced'
  BY <1>2 DEF Refuse, Ignore
<1>3. ASSUME NEW m \in Messages, SearchFinds(m) \/ SearchSuffices(m) \/ SearchRaises(m)
      PROVE  TypeOK' /\ StampsCover' /\ AcceptedSpaced'
  BY <1>3 DEF SearchFinds, SearchSuffices, SearchRaises
<1>4. ASSUME NEW m \in Messages, Acquire(m)
      PROVE  TypeOK' /\ StampsCover' /\ AcceptedSpaced'
  BY <1>4 DEF Acquire, Submit
<1>5. ASSUME NEW q \in Asks, RequestEnds(q) \/ Timeout(q)
      PROVE  TypeOK' /\ StampsCover' /\ AcceptedSpaced'
  BY <1>5 DEF RequestEnds, Timeout, Cancel
<1>6. ASSUME Tick \/ UNCHANGED vars
      PROVE  TypeOK' /\ StampsCover' /\ AcceptedSpaced'
  BY <1>6 DEF Tick, vars
<1>7. ASSUME NEW q \in Asks, Take(q) \/ Reply(q)
      PROVE  TypeOK' /\ StampsCover' /\ AcceptedSpaced'
  BY <1>7 DEF Take, Reply
<1>8. ASSUME NEW p \in Policies, PolicyBegins(p) \/ Policy(p)
      PROVE  TypeOK' /\ StampsCover' /\ AcceptedSpaced'
  <2>1. PICK l \in {"searching", "replying", "done", "inferring"} : pc' = [pc EXCEPT ![p] = l]
    BY <1>8 DEF PolicyBegins, Policy, PolicyFinds, PolicySuffices
  <2>2. p \in Asks /\ pc' \in [Asks -> PCs] /\ \A m \in Messages : pc'[m] = pc[m]
    BY <2>1 DEF Asks
  <2>3. queued' \subseteq Asks
        /\ UNCHANGED <<now, cooldowns, userCooldowns, requests, accepted>>
    BY <1>8, <2>2 DEF PolicyBegins, Policy, PolicyFinds, PolicySuffices, Submit
  <2> QED
    BY <2>2, <2>3
<1> QED
  BY <1>1, <1>2, <1>3, <1>4, <1>5, <1>6, <1>7, <1>8 DEF Next, Handle

-----------------------------------------------------------------------------
\* The inductive invariant holds from the start.
THEOREM Invariance == Spec => []IInv
<1>1. IInv /\ [Next]_vars => IInv'
  BY QueueStep, SlotStep, PoolStep, StampStep DEF IInv
<1> QED
  BY <1>1, InitInv, PTL DEF Spec

\* Every reachable state of the monitor is well typed.
THEOREM TypeCorrect == Spec => []TypeOK
<1>1. IInv => TypeOK
  BY DEF IInv
<1> QED
  BY <1>1, Invariance, PTL

\* on_message checks and sets both stamps before its first await: questions
\* that were accepted are a cooldown apart, in a channel and from a user.
THEOREM CooldownsHold == Spec => []AcceptedSpaced
<1>1. IInv => AcceptedSpaced
  BY DEF IInv
<1> QED
  BY <1>1, Invariance, PTL

\* The semaphore has each question that waits once and nobody else, although
\* wait_for takes questions out of its middle.
THEOREM NoWaiterLost == Spec => []WaitersAreWaiting
<1>1. IInv => WaitersAreWaiting
  BY DEF IInv
<1> QED
  BY <1>1, Invariance, PTL

\* AI_MAX_CONCURRENT_REQUESTS bounds the questions inside the semaphore, each
\* of which has a request, queued in the pool or sent.
THEOREM LimitHolds == Spec => []InferencesWithinLimit
<1>1. IInv => InferencesWithinLimit
  BY DEF IInv
<1> QED
  BY <1>1, Invariance, PTL

\* wait_for takes back what no thread of the pool has begun: a request that
\* waits there has someone waiting for it, and no more run than threads.
THEOREM PoolServesTheAwaited == Spec => []OnlyTheAwaitedBegin
<1>1. IInv => OnlyTheAwaitedBegin
  BY DEF IInv
<1> QED
  BY <1>1, Invariance, PTL
=============================================================================
