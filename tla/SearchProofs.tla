---------------------------- MODULE SearchProofs ----------------------------
(***************************************************************************)
(* The passages of extract_relevant_sections are right for every window    *)
(* size, number of sections, text and question, and search_documents is    *)
(* for every number of documents and every two limits.                     *)
(*                                                                         *)
(* EveryPlaceShown speaks of a call that has returned, so it takes what    *)
(* the loop knows before: each place it has visited is near one that it    *)
(* chose at or before it, and the others lie behind all it has chosen.     *)
(* MatchIsAnswered takes what becomes of a match on its way: the best of   *)
(* the candidates hold it, or are as many as are read and match all, more  *)
(* than have gone.                                                         *)
(***************************************************************************)
EXTENDS MCDocumentSearch, Snippets, FiniteSetTheorems, TLAPS

-----------------------------------------------------------------------------
(* Relevant sections *)

\* Places the loop has visited are near a chosen one.
VisitedNear ==
  \A p \in positions \ unvisited :
    \E i \in DOMAIN chosen : chosen[i] <= p /\ p - chosen[i] <= Size \div 2

\* The places are visited from left to right.
OthersBehind == \A p \in unvisited : \A i \in DOMAIN chosen : chosen[i] <= p

\* Chosen places are far apart.
ChosenFar == \A i, j \in DOMAIN chosen : i < j => chosen[j] - chosen[i] > Size \div 2

Stopped == returned => Enough \/ unvisited = {}

Showing == SnippetTypeOK /\ VisitedNear /\ OthersBehind /\ ChosenFar /\ Stopped

\* What integer division makes of the window: a third before the place, and
\* at least half after it.
LEMMA Thirds ==
  /\ Size \div 2 \in Nat /\ Size \div 3 \in Nat
  /\ Size \div 3 <= Size \div 2
  /\ Size \div 2 + Size \div 3 < Size
  BY SnippetsAssumption

\* What is chosen are places of the text.
LEMMA ChosenPlaces ==
  ASSUME SnippetTypeOK, NEW i \in DOMAIN chosen
  PROVE  length \in Nat /\ chosen[i] \in positions /\ chosen[i] \in 0..length - 1
  <1>1. length \in Nat /\ chosen \in Seq(positions) /\ positions \subseteq 0..length - 1
    BY DEF SnippetTypeOK
  <1>2. i \in 1..Len(chosen)
    BY <1>1
  <1>3. chosen[i] \in positions
    BY <1>1, <1>2
  <1> QED
    BY <1>1, <1>3

\* The loop starts with nothing visited.
LEMMA InitShowing == SnippetInit => Showing
  <1> SUFFICES ASSUME SnippetInit
               PROVE  Showing
    OBVIOUS
  <1>1. length \in Nat /\ positions \subseteq 0..length - 1
    BY SnippetsAssumption DEF SnippetInit
  <1>2. SnippetTypeOK
    <2>1. chosen \in Seq(positions) /\ Len(chosen) <= Sections
      BY SnippetsAssumption DEF SnippetInit
    <2>2. returned \in BOOLEAN
      BY Zenon DEF SnippetInit
    <2> QED
      BY <1>1, <2>1, <2>2 DEF SnippetInit, SnippetTypeOK
  <1>3. VisitedNear /\ OthersBehind /\ ChosenFar /\ Stopped
    BY DEF SnippetInit, VisitedNear, OthersBehind, ChosenFar, Stopped
  <1> QED
    BY <1>2, <1>3 DEF Showing

\* A visit chooses its place, or finds the place chosen last near.
LEMMA VisitShowing ==
  ASSUME Showing, Visit
  PROVE  Showing'
  <1>1. PICK p \in unvisited : /\ \A q \in unvisited : p <= q
                               /\ unvisited' = unvisited \ {p}
                               /\ chosen' = IF Far(p) THEN Append(chosen, p) ELSE chosen
    BY DEF Visit
  <1>2. UNCHANGED <<length, positions, returned>> /\ ~returned /\ ~Enough
    BY DEF Visit
  <1>3. /\ length \in Nat /\ unvisited \subseteq positions /\ positions \subseteq Nat
        /\ chosen \in Seq(positions) /\ p \in positions
    BY DEF Showing, SnippetTypeOK
  <1>4. \A i \in DOMAIN chosen : chosen[i] \in Nat /\ chosen[i] <= p
    <2> TAKE i \in DOMAIN chosen
    <2>1. chosen[i] \in positions
      BY ChosenPlaces DEF Showing
    <2>2. chosen[i] <= p
      BY DEF Showing, OthersBehind
    <2> QED
      BY <1>3, <2>1, <2>2
  <1>5. CASE Far(p)
    <2>1. chosen' = Append(chosen, p)
      BY <1>1, <1>5
    <2>2. /\ Len(chosen') = Len(chosen) + 1 /\ DOMAIN chosen' = 1..Len(chosen) + 1
          /\ chosen'[Len(chosen) + 1] = p
          /\ \A i \in DOMAIN chosen : i \in DOMAIN chosen' /\ chosen'[i] = chosen[i]
          /\ DOMAIN chosen = 1..Len(chosen) /\ Len(chosen) \in Nat
      BY <2>1, <1>3
    <2>3. SnippetTypeOK'
      <3>1. chosen' \in Seq(positions)
        BY <2>1, <1>3
      <3>2. Len(chosen') <= Sections
        BY <2>2, <1>2, SnippetsAssumption DEF Enough
      <3> QED
        BY <1>1, <1>2, <3>1, <3>2 DEF Showing, SnippetTypeOK
    <2>4. VisitedNear'
      <3> SUFFICES ASSUME NEW r \in positions' \ unvisited'
                   PROVE  \E i \in DOMAIN chosen' :
                            chosen'[i] <= r /\ r - chosen'[i] <= Size \div 2
        BY DEF VisitedNear
      <3>1. CASE r = p
        BY <3>1, <2>2, <1>3, Thirds
      <3>2. CASE r # p
        <4>1. PICK i \in DOMAIN chosen : chosen[i] <= r /\ r - chosen[i] <= Size \div 2
          BY <3>2, <1>1, <1>2 DEF Showing, VisitedNear
        <4> QED
          BY <4>1, <2>2
      <3> QED
        BY <3>1, <3>2
    <2>5. OthersBehind'
      <3> SUFFICES ASSUME NEW r \in unvisited', NEW i \in DOMAIN chosen'
                   PROVE  chosen'[i] <= r
        BY DEF OthersBehind
      <3>1. r \in unvisited /\ p <= r
        BY <1>1
      <3>2. CASE i = Len(chosen) + 1
        BY <3>1, <3>2, <2>2
      <3>3. CASE i \in DOMAIN chosen
        BY <3>1, <3>3, <2>2 DEF Showing, OthersBehind
      <3> QED
        BY <3>2, <3>3, <2>2
    <2>6. ChosenFar'
      <3> SUFFICES ASSUME NEW i \in DOMAIN chosen', NEW j \in DOMAIN chosen', i < j
                   PROVE  chosen'[j] - chosen'[i] > Size \div 2
        BY DEF ChosenFar
      <3>1. i \in DOMAIN chosen
        BY <2>2
      <3>2. CASE j \in DOMAIN chosen
        BY <3>1, <3>2, <2>2 DEF Showing, ChosenFar
      <3>3. CASE j = Len(chosen) + 1
        <4>1. chosen # <<>> /\ Len(chosen) \in DOMAIN chosen
          BY <3>1, <2>2
        <4>2. p - chosen[Len(chosen)] > Size \div 2
          BY <4>1, <1>5 DEF Far
        <4>3. chosen[i] <= chosen[Len(chosen)]
          <5>1. CASE i = Len(chosen)
            BY <5>1, <4>1, <1>4
          <5>2. CASE i < Len(chosen)
            BY <5>2, <4>1, <3>1, <1>4, Thirds DEF Showing, ChosenFar
          <5> QED
            BY <5>1, <5>2, <3>1, <2>2
        <4>4. chosen'[i] = chosen[i] /\ chosen'[j] = p
          BY <3>1, <3>3, <2>2
        <4>5. chosen[i] \in Nat /\ chosen[Len(chosen)] \in Nat /\ p \in Nat
          BY <3>1, <4>1, <1>3, <1>4
        <4> QED
          BY <4>2, <4>3, <4>4, <4>5, Thirds
      <3> QED
        BY <3>2, <3>3, <2>2
    <2> QED
      BY <2>3, <2>4, <2>5, <2>6, <1>2 DEF Showing, Stopped
  <1>6. CASE ~Far(p)
    <2>1. chosen' = chosen
      BY <1>1, <1>6
    <2>2. chosen # <<>> /\ Len(chosen) \in DOMAIN chosen
      BY <1>3, <1>6 DEF Far
    <2>3. p - chosen[Len(chosen)] <= Size \div 2
      BY <2>2, <1>3, <1>4, <1>6, Thirds DEF Far
    <2>4. SnippetTypeOK'
      BY <1>1, <1>2, <2>1 DEF Showing, SnippetTypeOK
    <2>5. VisitedNear'
      BY <1>1, <1>2, <2>1, <2>2, <2>3, <1>4 DEF Showing, VisitedNear
    <2>6. OthersBehind' /\ ChosenFar'
      BY <1>1, <2>1 DEF Showing, OthersBehind, ChosenFar
    <2> QED
      BY <2>4, <2>5, <2>6, <1>2 DEF Showing, Stopped
  <1> QED
    BY <1>5, <1>6

\* Every step of a call keeps the invariant.
LEMMA NextShowing == Showing /\ [SnippetNext]_snippetVars => Showing'
  <1> SUFFICES ASSUME Showing, [SnippetNext]_snippetVars
               PROVE  Showing'
    OBVIOUS
  <1> USE DEF Showing, SnippetTypeOK, VisitedNear, OthersBehind, ChosenFar, Stopped, Enough
  <1>1. CASE Visit
    BY <1>1, VisitShowing
  <1>2. CASE ReturnPassages
    BY <1>2 DEF ReturnPassages
  <1>3. CASE UNCHANGED snippetVars
    BY <1>3 DEF snippetVars
  <1> QED
    BY <1>1, <1>2, <1>3 DEF SnippetNext

\* The window of a place of the text is in the text and holds the place.
LEMMA Window ==
  ASSUME length \in Nat, NEW p \in 0..length - 1
  PROVE  /\ From(p) \in Nat /\ To(p) \in Nat
         /\ From(p) <= p /\ p - From(p) <= Size \div 3
         /\ p < To(p) /\ To(p) <= length /\ To(p) - From(p) <= Size
         /\ To(p) = length \/ To(p) = From(p) + Size
  BY Thirds, SnippetsAssumption DEF From, To

\* Every reachable state of the loop is well typed: no more passages are
\* chosen than max_sections, and only where a term occurs.
THEOREM SnippetTypeCorrect == SnippetSpec => []SnippetTypeOK
  <1>1. Showing => SnippetTypeOK
    BY DEF Showing
  <1> QED
    BY <1>1, InitShowing, NextShowing, PTL DEF SnippetSpec

\* Every passage of extract_relevant_sections is cut from inside the text,
\* around its place.
THEOREM WindowsHold == SnippetSpec => []WindowsHoldTheirPlace
  <1>1. Showing => WindowsHoldTheirPlace
    <2> SUFFICES ASSUME Showing, NEW i \in DOMAIN chosen
                 PROVE  LET p == chosen[i]
                        IN  /\ 0 <= From(p) /\ From(p) <= p /\ p < To(p)
                            /\ To(p) <= length /\ To(p) - From(p) <= Size
      BY DEF WindowsHoldTheirPlace
    <2>1. length \in Nat /\ chosen[i] \in 0..length - 1
      BY ChosenPlaces DEF Showing
    <2> QED
      BY <2>1, Window
  <1> QED
    BY <1>1, InitShowing, NextShowing, PTL DEF SnippetSpec

\* What extract_relevant_sections passes over as too near is in a passage all
\* the same.
THEOREM PlacesShown == SnippetSpec => []EveryPlaceShown
  <1>1. Showing => EveryPlaceShown
    <2> SUFFICES ASSUME Showing, returned, Len(chosen) < Sections, NEW p \in positions
                 PROVE  Shown(p)
      BY DEF EveryPlaceShown
    <2>1. unvisited = {}
      BY SnippetsAssumption DEF Showing, Stopped, Enough, SnippetTypeOK
    <2>2. PICK i \in DOMAIN chosen : chosen[i] <= p /\ p - chosen[i] <= Size \div 2
      BY <2>1 DEF Showing, VisitedNear
    <2>3. length \in Nat /\ chosen[i] \in 0..length - 1
      BY ChosenPlaces DEF Showing
    <2>4. p \in 0..length - 1
      BY DEF Showing, SnippetTypeOK
    <2>5. From(chosen[i]) <= p /\ p < To(chosen[i])
      <3> DEFINE c == chosen[i]
      <3>1. c \in 0..length - 1 /\ c <= p /\ p - c <= Size \div 2
        BY <2>2, <2>3
      <3>2. /\ From(c) \in Nat /\ From(c) <= c /\ c - From(c) <= Size \div 3
            /\ To(c) = length \/ To(c) = From(c) + Size
        BY <2>3, <3>1, Window
      <3> HIDE DEF c
      <3>3. From(c) <= p /\ p < To(c)
        BY <2>3, <2>4, <3>1, <3>2, Thirds, SnippetsAssumption
      <3> QED
        BY <3>3 DEF c
    <2> QED
      BY <2>5 DEF Shown
  <1> QED
    BY <1>1, InitShowing, NextShowing, PTL DEF SnippetSpec

\* Each passage of extract_relevant_sections starts behind the one before,
\* however near the text's start.
THEOREM PassagesGoOn == SnippetSpec => []PassagesAdvance
  <1>1. Showing => PassagesAdvance
    <2> SUFFICES ASSUME Showing, NEW i \in DOMAIN chosen, NEW j \in DOMAIN chosen, i < j
                 PROVE  From(chosen[i]) < From(chosen[j])
      BY DEF PassagesAdvance
    <2>1. chosen[i] \in Nat /\ chosen[j] \in Nat
      BY ChosenPlaces DEF Showing
    <2>2. chosen[j] - chosen[i] > Size \div 2
      BY DEF Showing, ChosenFar
    <2> QED
      BY <2>1, <2>2, Thirds DEF From
  <1> QED
    BY <1>1, InitShowing, NextShowing, PTL DEF SnippetSpec

-----------------------------------------------------------------------------
(* Document search *)

SearchTypeOK == /\ marks \in [Docs -> Marks]
                /\ table \subseteq Docs /\ DOMAIN found \subseteq Docs
                /\ \A d \in DOMAIN found : found[d] \in Nat
                /\ seen \subseteq DOMAIN found
                /\ deletions \in Nat

\* Each document that has gone was deleted.
GoneCounted == Cardinality(DOMAIN found \ table) <= deletions

\* A rank is that of some query.
RankedMatch == \A d \in DOMAIN found : found[d] > 0 => Matches(d)

\* A match never scores nothing.
SeenScores == \A d \in seen : FullRank(d) > 0 /\ (stage = "stage1" => MetaRank(d) > 0)

\* The fallback finds matches only.
LikeMatch == stage = "rank" => \A d \in DOMAIN found : Matches(d)

\* A match is read, or was left for as many other matches as are read.
SeenRead ==
  stage = "stage2" =>
    /\ Range(deep) \subseteq DOMAIN found
    /\ \A e \in seen : \/ e \in Range(deep)
                       \/ /\ Cardinality(Range(deep)) = DeepLimit
                          /\ \A d \in Range(deep) : Matches(d)

Searching == /\ SearchTypeOK /\ GoneCounted /\ RankedMatch /\ SeenScores
             /\ LikeMatch /\ SeenRead /\ MatchIsAnswered

\* A document's marks are counts.
LEMMA MarksCount ==
  ASSUME SearchTypeOK, NEW d \in Docs
  PROVE  /\ marks[d].title \in Nat /\ marks[d].text \in Nat
         /\ \A q \in Queries : marks[d].rank[q] \in Nat
  <1>1. marks[d] \in Marks
    BY DEF SearchTypeOK
  <1>2. marks[d].title \in 0..MaxHits /\ marks[d].text \in 0..MaxHits
    BY <1>1 DEF Marks
  <1>3. marks[d].rank \in [Queries -> 0..MaxRank]
    BY <1>1 DEF Marks
  <1> QED
    BY <1>2, <1>3, SearchAssumption

\* Every score is a count, and what scores matches.
LEMMA ScoresCount ==
  ASSUME SearchTypeOK, RankedMatch, NEW d \in DOMAIN found
  PROVE  /\ MetaRank(d) \in Nat /\ FullRank(d) \in Nat
         /\ MetaRank(d) > 0 => Matches(d)
         /\ FullRank(d) > 0 => Matches(d)
  <1>1. marks[d].title \in Nat /\ marks[d].text \in Nat /\ found[d] \in Nat
    BY MarksCount DEF SearchTypeOK
  <1>2. marks[d].title > 0 \/ marks[d].text > 0 => Matches(d)
    BY DEF Matches, HoldsTerm
  <1> QED
    BY <1>1, <1>2 DEF MetaRank, FullRank, RankedMatch

\* The documents that a stage takes are some, when there are any.
LEMMA SomeTaken ==
  ASSUME NEW docs \in SUBSET Docs, docs # {}, NEW limit \in Nat \ {0}
  PROVE  Least(limit, Cardinality(docs)) \in Nat \ {0}
  <1>1. IsFiniteSet(docs)
    BY FS_Subset, SearchAssumption
  <1>2. Cardinality(docs) \in Nat /\ Cardinality(docs) # 0
    BY <1>1, FS_CardinalityType, FS_EmptySet
  <1> QED
    BY <1>2 DEF Least

\* A list without repetition names as many as it is long.
LEMMA TakenCounted ==
  ASSUME NEW docs, NEW k \in Nat, NEW s \in [1..k -> docs], IsInjective(s)
  PROVE  IsFiniteSet(Range(s)) /\ Cardinality(Range(s)) = k /\ Range(s) \subseteq docs
  <1>1. s \in Surjection(1..k, Range(s)) /\ Range(s) \subseteq docs
    BY DEF Surjection, Range
  <1>2. s \in Injection(1..k, Range(s))
    BY DEF Injection, Range
  <1>3. IsFiniteSet(1..k) /\ Cardinality(1..k) = k
    BY FS_Interval
  <1> QED
    BY <1>1, <1>2, <1>3, FS_Surjection

\* The search starts with nothing found.
LEMMA InitSearching == SeenInit => Searching
  <1> SUFFICES ASSUME SeenInit
               PROVE  Searching
    OBVIOUS
  <1>1. /\ marks \in [Docs -> Marks] /\ table \subseteq Docs
        /\ found = <<>> /\ seen = {} /\ deletions = 0 /\ stage = "stage1"
    BY DEF SeenInit, SearchInit
  <1>2. DOMAIN found = {}
    BY <1>1
  <1>3. Cardinality(DOMAIN found \ table) = 0
    BY <1>2, FS_EmptySet
  <1> QED
    BY <1>1, <1>2, <1>3 DEF Searching, SearchTypeOK, GoneCounted, RankedMatch, SeenScores,
                            LikeMatch, SeenRead, MatchIsAnswered

\* A lookup that answers keeps the higher rank of each document.
LEMMA Stage1Searching ==
  ASSUME Searching, NEW q \in Queries, Stage1(q), seen' = seen \cup Ranked(q), UNCHANGED raised
  PROVE  Searching'
  <1> DEFINE rank(d) == marks[d].rank[q]
  <1>1. /\ DOMAIN found' = DOMAIN found \cup table
        /\ \A d \in DOMAIN found' :
             found'[d] = IF d \in table THEN Best(RankOf(found, d), rank(d)) ELSE found[d]
        /\ UNCHANGED <<marks, table, deletions, stage>> /\ stage = "stage1"
    BY DEF Stage1, input
  <1>2. /\ table \subseteq Docs /\ DOMAIN found \subseteq Docs /\ seen \subseteq DOMAIN found
        /\ \A d \in DOMAIN found : found[d] \in Nat
    BY DEF Searching, SearchTypeOK
  <1>3. \A d \in DOMAIN found' : rank(d) \in Nat /\ marks[d].title \in Nat /\ marks[d].text \in Nat
    BY <1>1, <1>2, MarksCount DEF Searching
  <1> HIDE DEF rank
  <1>4. \A d \in DOMAIN found' : /\ found'[d] \in Nat
                                 /\ d \in table => found'[d] >= rank(d)
                                 /\ d \in DOMAIN found => found'[d] >= found[d]
                                 /\ \/ d \in table /\ found'[d] = rank(d)
                                    \/ d \in DOMAIN found /\ found'[d] = found[d]
    <2> TAKE d \in DOMAIN found'
    <2>1. CASE d \in table /\ d \in DOMAIN found
      BY <2>1, <1>1, <1>2, <1>3 DEF Best, RankOf
    <2>2. CASE d \in table /\ d \notin DOMAIN found
      BY <2>2, <1>1, <1>3 DEF Best, RankOf, Missing
    <2>3. CASE d \notin table
      BY <2>3, <1>1, <1>2
    <2> QED
      BY <2>1, <2>2, <2>3
  <1>5. SearchTypeOK'
    <2>1. seen' \subseteq DOMAIN found'
      BY <1>1, <1>2 DEF Ranked
    <2> QED
      BY <1>1, <1>2, <1>4, <2>1 DEF Searching, SearchTypeOK
  <1>6. GoneCounted'
    <2>1. DOMAIN found' \ table' = DOMAIN found \ table
      BY <1>1
    <2> QED
      BY <1>1, <2>1 DEF Searching, GoneCounted
  <1>7. RankedMatch'
    <2> SUFFICES ASSUME NEW d \in DOMAIN found', found'[d] > 0
                 PROVE  Matches(d)'
      BY DEF RankedMatch
    <2>1. Matches(d)
      <3>1. CASE found'[d] = rank(d)
        BY <3>1 DEF Matches, rank
      <3>2. CASE d \in DOMAIN found /\ found'[d] = found[d]
        BY <3>2 DEF Searching, RankedMatch
      <3> QED
        BY <1>4, <3>1, <3>2
    <2> QED
      BY <2>1, <1>1 DEF Matches, HoldsTerm
  <1>8. SeenScores'
    <2> SUFFICES ASSUME NEW d \in seen'
                 PROVE  FullRank(d)' > 0 /\ MetaRank(d)' > 0
      BY DEF SeenScores
    <2>1. /\ FullRank(d)' = found'[d] + marks[d].text * 2 + marks[d].title * 3
          /\ MetaRank(d)' = found'[d] * 2 + marks[d].title * 5
      BY <1>1 DEF FullRank, MetaRank
    <2>2. d \in DOMAIN found' /\ found'[d] \in Nat
      BY <1>4, <1>5 DEF SearchTypeOK
    <2>3. marks[d].title \in Nat /\ marks[d].text \in Nat /\ rank(d) \in Nat
      BY <1>3, <2>2
    <2>4. CASE d \in seen
      <3>1. d \in DOMAIN found /\ found[d] \in Nat /\ found'[d] >= found[d]
        BY <2>4, <2>2, <1>2, <1>4
      <3>2. /\ found[d] + marks[d].text * 2 + marks[d].title * 3 > 0
            /\ found[d] * 2 + marks[d].title * 5 > 0
        BY <2>4, <1>1 DEF Searching, SeenScores, FullRank, MetaRank
      <3> QED
        BY <2>1, <2>2, <2>3, <3>1, <3>2
    <2>5. CASE d \in Ranked(q)
      <3>1. d \in table /\ (rank(d) > 0 \/ marks[d].title > 0)
        BY <2>5 DEF Ranked, rank
      <3>2. found'[d] >= rank(d)
        BY <3>1, <2>2, <1>4
      <3> QED
        BY <2>1, <2>2, <2>3, <3>1, <3>2
    <2> QED
      BY <2>4, <2>5
  <1> QED
    BY <1>1, <1>5, <1>6, <1>7, <1>8 DEF Searching, LikeMatch, SeenRead, MatchIsAnswered

\* The fallback finds what holds a term, or there is nothing to return.
LEMMA FallbackSearching ==
  ASSUME Searching, Fallback, seen' = seen \cup Like, UNCHANGED raised
  PROVE  Searching'
  <1>1. /\ UNCHANGED <<marks, table, deletions>>
        /\ DOMAIN found = {} /\ table \subseteq Docs /\ seen = {}
    BY DEF Fallback, NothingFound, input, Searching, SearchTypeOK
  <1>2. CASE Like = {}
    <2>1. found' = found /\ stage' = "done" /\ seen' = {}
      BY <1>1, <1>2 DEF Fallback, Return
    <2> QED
      BY <1>1, <2>1 DEF Searching, SearchTypeOK, GoneCounted, RankedMatch, SeenScores,
                        LikeMatch, SeenRead, MatchIsAnswered
  <1>3. CASE Like # {}
    <2>1. /\ found' = [d \in Like |-> 0] /\ stage' = "rank" /\ seen' = Like
          /\ Like \subseteq table
      BY <1>1, <1>3 DEF Fallback, Like
    <2>2. SearchTypeOK'
      BY <1>1, <2>1 DEF Searching, SearchTypeOK
    <2>3. GoneCounted'
      <3>1. Cardinality(DOMAIN found' \ table') = 0
        <4>1. DOMAIN found' \ table' = {}
          BY <1>1, <2>1
        <4> QED
          BY <4>1, FS_EmptySet
      <3> QED
        BY <3>1, <2>2 DEF GoneCounted, SearchTypeOK
    <2>4. \A d \in Like : Matches(d)' /\ FullRank(d)' > 0
      <3> TAKE d \in Like
      <3>1. marks[d].title \in Nat /\ marks[d].text \in Nat /\ HoldsTerm(d)
        BY <1>1, <2>1, MarksCount DEF Like, Searching
      <3>2. FullRank(d)' = 0 + marks[d].text * 2 + marks[d].title * 3
        BY <1>1, <2>1 DEF FullRank
      <3>3. Matches(d)'
        BY <1>1, <3>1 DEF Matches, HoldsTerm
      <3> QED
        BY <3>1, <3>2, <3>3 DEF HoldsTerm
    <2>5. RankedMatch' /\ SeenScores' /\ LikeMatch'
      BY <2>1, <2>4 DEF RankedMatch, SeenScores, LikeMatch
    <2> QED
      BY <2>1, <2>2, <2>3, <2>5 DEF Searching, SeenRead, MatchIsAnswered
  <1> QED
    BY <1>2, <1>3

\* What is left unread scores less than what is read.
LEMMA RankSearching ==
  ASSUME Searching, Rank, UNCHANGED history
  PROVE  Searching'
  <1> DEFINE k == Least(DeepLimit, Cardinality(DOMAIN found))
  <1>1. /\ UNCHANGED <<marks, table, found, deletions, seen, raised>>
        /\ stage \in {"stage1", "rank"} /\ stage' = "stage2"
    BY DEF Rank, input, history
  <1>2. /\ deep' \in [1..k -> DOMAIN found]
        /\ IsInjective(deep')
        /\ \A d \in DOMAIN found \ Range(deep') :
             \A i \in 1..k : MetaRank(deep'[i]) >= MetaRank(d)
    BY DEF Rank, TopOf, TupleOf
  <1>3. SearchTypeOK /\ RankedMatch /\ SeenScores /\ LikeMatch
    BY DEF Searching
  <1>4. IsFiniteSet(DOMAIN found) /\ Cardinality(DOMAIN found) \in Nat
    BY <1>3, FS_Subset, FS_CardinalityType, SearchAssumption DEF SearchTypeOK
  <1>5. k \in Nat /\ (k = DeepLimit \/ k = Cardinality(DOMAIN found))
    BY <1>4, SearchAssumption DEF Least
  <1> HIDE DEF k
  <1>6. Cardinality(Range(deep')) = k /\ Range(deep') \subseteq DOMAIN found
    BY <1>2, <1>5, TakenCounted
  <1>7. SeenRead'
    <2> SUFFICES ASSUME NEW e \in seen, e \notin Range(deep')
                 PROVE  k = DeepLimit /\ \A d \in Range(deep') : Matches(d)
      BY <1>1, <1>6 DEF SeenRead, Matches, HoldsTerm
    <2>1. e \in DOMAIN found
      BY <1>3 DEF SearchTypeOK
    <2>2. k = DeepLimit
      BY <2>1, <1>4, <1>5, <1>6, FS_Subset
    <2>3. ASSUME NEW d \in Range(deep')
          PROVE  Matches(d)
      <3>1. PICK i \in 1..k : d = deep'[i]
        BY <1>2 DEF Range
      <3>2. d \in DOMAIN found
        BY <1>6
      <3>3. CASE stage = "rank"
        BY <3>2, <3>3, <1>3 DEF LikeMatch
      <3>4. CASE stage = "stage1"
        <4>1. MetaRank(d) >= MetaRank(e)
          BY <3>1, <2>1, <1>2
        <4>2. MetaRank(e) > 0
          BY <3>4, <1>3 DEF SeenScores
        <4>3. MetaRank(d) \in Nat /\ MetaRank(e) \in Nat
          BY <3>2, <2>1, <1>3, ScoresCount
        <4>4. MetaRank(d) > 0
          BY <4>1, <4>2, <4>3
        <4> QED
          BY <4>4, <3>2, <1>3, ScoresCount
      <3> QED
        BY <3>3, <3>4, <1>1
    <2> QED
      BY <2>2, <2>3
  <1>8. SearchTypeOK' /\ GoneCounted' /\ RankedMatch'
    BY <1>1 DEF Searching, SearchTypeOK, GoneCounted, RankedMatch, Matches, HoldsTerm
  <1>9. SeenScores'
    BY <1>1, <1>3 DEF SeenScores, FullRank
  <1> QED
    BY <1>1, <1>7, <1>8, <1>9 DEF Searching, LikeMatch, MatchIsAnswered

\* The first of what is returned scores no less than the match, or is one of
\* as many matches.
LEMMA Stage2Answers ==
  ASSUME Searching, Stage2, deletions < DeepLimit, seen \cap table # {}
  PROVE  result' # <<>> /\ Matches(result'[1])
  <1> DEFINE k == Least(ContextLimit, Cardinality(Loaded))
  <1>1. stage = "stage2"
    BY DEF Stage2
  <1>2. PICK s \in TopOf(Loaded, FullRank, k) : result' = s
    BY Zenon DEF Stage2, Return
  <1>3. /\ s \in [1..k -> Loaded]
        /\ \A i, j \in 1..k : i < j => FullRank(s[i]) >= FullRank(s[j])
        /\ \A d \in Loaded \ Range(s) : \A i \in 1..k : FullRank(s[i]) >= FullRank(d)
    BY <1>2 DEF TopOf, TupleOf
  <1>4. /\ SearchTypeOK /\ RankedMatch /\ SeenScores /\ GoneCounted
        /\ Range(deep) \subseteq DOMAIN found
        /\ \A e \in seen : \/ e \in Range(deep)
                           \/ /\ Cardinality(Range(deep)) = DeepLimit
                              /\ \A d \in Range(deep) : Matches(d)
    BY <1>1 DEF Searching, SeenRead
  <1>5. Loaded \subseteq DOMAIN found /\ Loaded \in SUBSET Docs
    BY <1>4 DEF Loaded, SearchTypeOK
  <1>6. PICK e \in seen : e \in table
    OBVIOUS
  <1>7. Loaded # {} => result' # <<>> /\ 1 \in 1..k /\ s[1] \in Loaded
    <2> SUFFICES ASSUME Loaded # {}
                 PROVE  s # <<>> /\ 1 \in 1..k /\ s[1] \in Loaded
      BY <1>2
    <2>1. k \in Nat \ {0}
      BY <1>5, SomeTaken, SearchAssumption
    <2> HIDE DEF k
    <2>2. 1 \in 1..k /\ DOMAIN s = 1..k
      BY <2>1, <1>3
    <2>3. s # <<>>
      <3>1. 1 \in DOMAIN s
        BY <2>2
      <3> QED
        BY <3>1
    <2>4. s[1] \in Loaded
      BY <2>2, <1>3
    <2> QED
      BY <2>2, <2>3, <2>4
  <1> HIDE DEF k
  <1>8. CASE e \in Range(deep)
    <2>1. e \in Loaded
      BY <1>6, <1>8 DEF Loaded
    <2>2. FullRank(s[1]) \in Nat /\ FullRank(e) \in Nat
      BY <2>1, <1>4, <1>5, <1>7, ScoresCount
    <2>3. FullRank(s[1]) >= FullRank(e)
      <3>1. CASE e \in Range(s)
        <4>1. PICK j \in 1..k : e = s[j]
          BY <3>1, <1>3 DEF Range
        <4> QED
          BY <4>1, <2>1, <2>2, <1>3, <1>7
      <3>2. CASE e \notin Range(s)
        BY <3>2, <2>1, <1>3, <1>7
      <3> QED
        BY <3>1, <3>2
    <2>4. FullRank(e) > 0
      BY <1>4 DEF SeenScores
    <2>5. FullRank(s[1]) > 0
      BY <2>2, <2>3, <2>4
    <2> QED
      BY <2>1, <2>5, <1>2, <1>4, <1>5, <1>7, ScoresCount
  <1>9. CASE e \notin Range(deep)
    <2>1. Cardinality(Range(deep)) = DeepLimit /\ \A d \in Range(deep) : Matches(d)
      BY <1>4, <1>9
    <2>2. Loaded # {}
      <3> SUFFICES ASSUME Loaded = {}
                   PROVE  FALSE
        OBVIOUS
      <3> DEFINE Gone == DOMAIN found \ table
      <3>1. Range(deep) \in SUBSET Gone
        BY <1>4 DEF Loaded
      <3>2. IsFiniteSet(Gone)
        BY <1>4, FS_Subset, SearchAssumption DEF SearchTypeOK
      <3> HIDE DEF Gone
      <3>3. Cardinality(Range(deep)) <= Cardinality(Gone) /\ Cardinality(Gone) \in Nat
        BY <3>1, <3>2, FS_Subset, FS_CardinalityType
      <3>4. Cardinality(Gone) <= deletions /\ deletions \in Nat
        BY <1>4 DEF GoneCounted, SearchTypeOK, Gone
      <3> QED
        BY <2>1, <3>3, <3>4, SearchAssumption
    <2>3. s[1] \in Range(deep)
      BY <2>2, <1>7 DEF Loaded
    <2> QED
      BY <2>1, <2>2, <2>3, <1>2, <1>7
  <1> QED
    BY <1>8, <1>9

\* A deletion is counted.
LEMMA DeleteSearching ==
  ASSUME Searching, Delete, UNCHANGED history
  PROVE  Searching'
  <1>1. PICK d \in table : table' = table \ {d}
    BY DEF Delete
  <1>2. /\ UNCHANGED <<marks, found, deep, seen, stage>> /\ stage # "done"
        /\ deletions' = deletions + 1
    BY DEF Delete, input, history
  <1>3. SearchTypeOK'
    BY <1>1, <1>2 DEF Searching, SearchTypeOK
  <1>4. GoneCounted'
    <2> DEFINE Gone == DOMAIN found \ table
    <2>1. IsFiniteSet(Gone) /\ Cardinality(Gone) \in Nat
      BY FS_Subset, FS_CardinalityType, SearchAssumption DEF Searching, SearchTypeOK
    <2>2. DOMAIN found' \ table' = IF d \in DOMAIN found THEN Gone \cup {d} ELSE Gone
      BY <1>1, <1>2
    <2>3. Cardinality(Gone) <= deletions /\ deletions \in Nat
      BY DEF Searching, GoneCounted, SearchTypeOK
    <2>4. Cardinality(Gone \cup {d}) \in {Cardinality(Gone), Cardinality(Gone) + 1}
      BY <2>1, FS_AddElement
    <2> HIDE DEF Gone
    <2>5. Cardinality(DOMAIN found' \ table') \in {Cardinality(Gone), Cardinality(Gone) + 1}
      BY <2>2, <2>4
    <2>6. Cardinality(DOMAIN found' \ table') <= deletions'
      BY <1>2, <2>1, <2>3, <2>5
    <2> QED
      BY <2>6 DEF GoneCounted
  <1> QED
    BY <1>2, <1>3, <1>4 DEF Searching, RankedMatch, SeenScores, LikeMatch, SeenRead,
                            MatchIsAnswered, Matches, HoldsTerm, FullRank, MetaRank

\* Every step keeps the invariant.
LEMMA NextSearching == Searching /\ [SeenNext]_seenVars => Searching'
  <1> SUFFICES ASSUME Searching, [SeenNext]_seenVars
               PROVE  Searching'
    OBVIOUS
  <1> USE DEF Searching, SearchTypeOK, GoneCounted, RankedMatch, SeenScores, LikeMatch, SeenRead,
              MatchIsAnswered, Matches, HoldsTerm, FullRank, MetaRank
  <1>1. CASE \E q \in Queries : Stage1(q) /\ seen' = seen \cup Ranked(q) /\ UNCHANGED raised
    BY <1>1, Stage1Searching
  <1>2. CASE \E q \in Queries : Stage1Raises(q) /\ UNCHANGED history
    BY <1>2 DEF Stage1Raises, input, history
  <1>3. CASE Fallback /\ seen' = seen \cup Like /\ UNCHANGED raised
    BY <1>3, FallbackSearching
  <1>4. CASE Stage2Raises /\ raised' = TRUE /\ UNCHANGED seen
    BY <1>4 DEF Stage2Raises, Return, input
  <1>5. CASE GiveUp /\ UNCHANGED history
    BY <1>5 DEF GiveUp, NothingFound, Return, input, history
  <1>6. CASE Rank /\ UNCHANGED history
    BY <1>6, RankSearching
  <1>7. CASE Stage2 /\ UNCHANGED history
    <2>1. /\ UNCHANGED <<marks, table, found, deletions, seen>> /\ stage' = "done"
      BY <1>7 DEF Stage2, Return, input, history
    <2>2. MatchIsAnswered'
      BY <1>7, <2>1, Stage2Answers
    <2> QED
      BY <2>1, <2>2
  <1>8. CASE Delete /\ UNCHANGED history
    BY <1>8, DeleteSearching
  <1>9. CASE UNCHANGED seenVars
    BY <1>9 DEF seenVars, searchVars, history
  <1> QED
    BY <1>1, <1>2, <1>3, <1>4, <1>5, <1>6, <1>7, <1>8, <1>9 DEF SeenNext

\* search_documents returns a match that some answer had, whatever other
\* lookup raises and however many documents go, up to those it reads: one
\* answer is enough.
THEOREM OneAnswerIsEnough == SeenSpec => []MatchIsAnswered
  <1>1. Searching => MatchIsAnswered
    BY DEF Searching
  <1> QED
    BY <1>1, InitSearching, NextSearching, PTL DEF SeenSpec
=============================================================================
