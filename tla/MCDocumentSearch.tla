-------------------------- MODULE MCDocumentSearch --------------------------
(***************************************************************************)
(* DocumentSearch for TLC: what is returned is compared with the matches   *)
(* that the search has had before it.                                      *)
(***************************************************************************)
EXTENDS DocumentSearch

VARIABLES seen,   \* history: documents that an answer marked as matching
          raised  \* history: the second stage raised

history == <<seen, raised>>
seenVars == <<searchVars, history>>

\* The documents of an answer to q that q ranks or whose title holds a term.
Ranked(q) == {d \in table : marks[d].rank[q] > 0 \/ marks[d].title > 0}

SeenInit == SearchInit /\ seen = {} /\ raised = FALSE
SeenNext == \/ \E q \in Queries : Stage1(q) /\ seen' = seen \cup Ranked(q) /\ UNCHANGED raised
            \/ \E q \in Queries : Stage1Raises(q) /\ UNCHANGED history
            \/ Fallback /\ seen' = seen \cup Like /\ UNCHANGED raised
            \/ Stage2Raises /\ raised' = TRUE /\ UNCHANGED seen
            \/ (GiveUp \/ Rank \/ Stage2 \/ Delete) /\ UNCHANGED history

SeenSpec == SeenInit /\ [][SeenNext]_seenVars

-----------------------------------------------------------------------------
(* Properties *)

\* A search returns a match, and returns it first, when some answer had one
\* that is still there: neither a lookup that raises, nor one that ranks the
\* document lower, nor a document that is deleted before it is read costs it.
\* Only a second stage that raises does, or as many deletions as are read.  (A
\* document with a term in its text that no query ranks is seen by the fallback
\* only.)
MatchIsAnswered ==
  stage = "done" /\ ~raised /\ deletions < DeepLimit /\ seen \cap table # {}
    => result # <<>> /\ Matches(result[1])
=============================================================================
