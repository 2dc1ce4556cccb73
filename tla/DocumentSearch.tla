--------------------------- MODULE DocumentSearch ---------------------------
(***************************************************************************)
(* search_documents: the documents are ranked by a full-text query of the  *)
(* question and one of its expansion, the best of them by rank and title   *)
(* are read in full, and the best of those by their text are returned.     *)
(* Every query is an await, between which the staff site may change the    *)
(* table, and may raise.                                                   *)
(*                                                                         *)
(* A document is its marks: the rank PostgreSQL gives it for each query,   *)
(* in tenths, and the number of terms its title and its text contain.      *)
(* Documents of equal marks come in any order, as rows do.                 *)
(***************************************************************************)
EXTENDS Integers, Sequences, SequencesExt, FiniteSets, FiniteSetsExt, Functions

CONSTANTS Docs,
          Question, Expansion,  \* the two queries
          DeepLimit,            \* DEEP_ANALYZE_LIMIT
          ContextLimit,         \* CONTEXT_LIMIT
          MaxRank, MaxHits,     \* bounds of the marks
          MaxDeletions          \* bound: documents deleted during the search

ASSUME SearchAssumption ==
  /\ IsFiniteSet(Docs)
  /\ DeepLimit \in Nat \ {0} /\ ContextLimit \in 1..DeepLimit
  /\ MaxRank \in Nat /\ MaxHits \in Nat /\ MaxDeletions \in Nat

VARIABLES
  marks,   \* [Docs -> the marks of a document]
  table,   \* the documents there are, of the categories asked for
  terms,   \* there are terms to score with
  left,    \* query_candidates not tried yet
  found,   \* docs_by_id: the rank kept of each document found
  deep,    \* deep_candidates
  result,  \* what is returned
  stage, deletions

searchVars == <<marks, table, terms, left, found, deep, result, stage, deletions>>
input == <<marks, terms>>

Queries == {Question, Expansion}
Marks == [rank : [Queries -> 0..MaxRank], title : 0..MaxHits, text : 0..MaxHits]

-----------------------------------------------------------------------------
\* An expansion that adds nothing is the question itself; an empty question
\* leaves no query and no term.
SearchInit ==
  /\ marks \in [Docs -> Marks]
  /\ table \in SUBSET Docs
  /\ terms \in BOOLEAN
  /\ ~terms => \A d \in Docs : marks[d].title = 0 /\ marks[d].text = 0
  /\ left \in {{}, {Question}, Queries}
  /\ left # {Question} => terms = (left # {})
  /\ found = <<>> /\ deep = <<>> /\ result = <<>>
  /\ stage = "stage1"
  /\ deletions = 0

Return(docs) == result' = docs /\ stage' = "done"

\* The rank of a document that the lookups before this one have not found.
Missing == -1
RankOf(f, d) == IF d \in DOMAIN f THEN f[d] ELSE Missing

\* if not current or rank > float(current.get("rank") or 0.0)
BestLatest(old, new) == new
Best(old, new) == IF new > old THEN new ELSE old

\* The first stage has no condition on the rank: it returns every document.
Stage1(q) ==
  /\ stage = "stage1" /\ q \in left
  /\ left' = left \ {q}
  /\ found' = [d \in DOMAIN found \cup table |->
                 IF d \in table THEN Best(RankOf(found, d), marks[d].rank[q]) ELSE found[d]]
  /\ UNCHANGED <<input, table, deep, result, stage, deletions>>

\* A lookup that raises is skipped.
Stage1Raises(q) ==
  /\ stage = "stage1" /\ q \in left
  /\ left' = left \ {q}
  /\ UNCHANGED <<input, table, found, deep, result, stage, deletions>>

NothingFound == left = {} /\ DOMAIN found = {}

\* ILIKE, for documents that hold a term anywhere.
HoldsTerm(d) == marks[d].title > 0 \/ marks[d].text > 0
Like == {d \in table : HoldsTerm(d)}

Fallback ==
  /\ stage = "stage1" /\ NothingFound /\ terms
  /\ IF Like = {} THEN Return(<<>>) /\ UNCHANGED found
     ELSE /\ found' = [d \in Like |-> 0]
          /\ stage' = "rank" /\ UNCHANGED result
  /\ UNCHANGED <<input, table, left, deep, deletions>>

\* There is nothing to fall back to, or the fallback raises.
GiveUp ==
  /\ stage = "stage1" /\ NothingFound
  /\ Return(<<>>)
  /\ UNCHANGED <<input, table, left, found, deep, deletions>>

\* The sequences of k documents of a set, the best by their score first.
TopOf(docs, score(_), k) ==
  {s \in TupleOf(docs, k) :
     /\ IsInjective(s)
     /\ \A i, j \in 1..k : i < j => score(s[i]) >= score(s[j])
     /\ \A d \in docs \ Range(s) : \A i \in 1..k : score(s[i]) >= score(d)}

Least(a, b) == IF a < b THEN a ELSE b

\* _meta_rank and _full_rank
MetaRank(d) == found[d] * 2 + marks[d].title * 5
FullRank(d) == found[d] + marks[d].text * 2 + marks[d].title * 3

Rank ==
  /\ \/ stage = "stage1" /\ left = {} /\ DOMAIN found # {}
     \/ stage = "rank"
  /\ deep' \in TopOf(DOMAIN found, MetaRank, Least(DeepLimit, Cardinality(DOMAIN found)))
  /\ stage' = "stage2"
  /\ UNCHANGED <<input, table, left, found, result, deletions>>

\* A document that is gone by now is left out.
Loaded == Range(deep) \cap table
Stage2 ==
  /\ stage = "stage2"
  /\ \E docs \in TopOf(Loaded, FullRank, Least(ContextLimit, Cardinality(Loaded))) : Return(docs)
  /\ UNCHANGED <<input, table, left, found, deep, deletions>>

Stage2Raises ==
  /\ stage = "stage2"
  /\ Return(<<>>)
  /\ UNCHANGED <<input, table, left, found, deep, deletions>>

\* The staff site deletes a document.
Delete ==
  /\ stage # "done" /\ deletions < MaxDeletions
  /\ deletions' = deletions + 1
  /\ \E d \in table : table' = table \ {d}
  /\ UNCHANGED <<input, left, found, deep, result, stage>>

SearchNext == \/ \E q \in Queries : Stage1(q) \/ Stage1Raises(q)
              \/ Fallback \/ GiveUp \/ Rank \/ Stage2 \/ Stage2Raises
              \/ Delete

SearchSpec == SearchInit /\ [][SearchNext]_searchVars

-----------------------------------------------------------------------------
(* Properties *)

\* A document matches that a query ranks or that holds a term.
Matches(d) == HoldsTerm(d) \/ \E q \in Queries : marks[d].rank[q] > 0

\* What the docstring promises: an empty list when no documents match.
EmptyWhenNoneMatch == stage = "done" /\ (\A d \in Docs : ~Matches(d)) => result = <<>>
=============================================================================
