------------------------------ MODULE Snippets ------------------------------
(***************************************************************************)
(* extract_relevant_sections: the passages of a text that are shown for a  *)
(* question.  The places where a term first occurs are visited from left   *)
(* to right; one that is far from the place chosen last is chosen too,     *)
(* until there are enough, and a window of the text is cut around each.    *)
(*                                                                         *)
(* Equal places are one: the second is never far from the first.           *)
(***************************************************************************)
EXTENDS Integers, Sequences

CONSTANTS Size,      \* section_size
          Sections,  \* max_sections
          MaxLength, \* bound: length of the text
          MaxTerms   \* bound: terms of the question, one step of the loop each

ASSUME SnippetsAssumption ==
  Size \in Nat \ {0} /\ Sections \in Nat \ {0} /\ MaxLength \in Nat /\ MaxTerms \in Nat

VARIABLES length,     \* of the text
          positions,  \* where a term of the question first occurs
          unvisited,  \* those the loop has not visited
          chosen,     \* sequence of those it has chosen
          returned

snippetVars == <<length, positions, unvisited, chosen, returned>>

-----------------------------------------------------------------------------
\* lowered.find(t) is a place of the text: the places are at most one a term.
SnippetInit ==
  /\ length \in 0..MaxLength
  /\ \E at \in [1..MaxTerms -> -1..length - 1] :
       positions = {at[i] : i \in 1..MaxTerms} \ {-1}
  /\ unvisited = positions
  /\ chosen = <<>>
  /\ returned = FALSE

\* not chosen or abs(pos - chosen[-1]) > section_size // 2
FarByTwo(p) == chosen = <<>> \/ p - chosen[Len(chosen)] > Size
Far(p) == chosen = <<>> \/ p - chosen[Len(chosen)] > Size \div 2

Enough == Len(chosen) >= Sections

Visit ==
  /\ ~returned /\ ~Enough
  /\ \E p \in unvisited :
       /\ \A q \in unvisited : p <= q
       /\ unvisited' = unvisited \ {p}
       /\ chosen' = IF Far(p) THEN Append(chosen, p) ELSE chosen
  /\ UNCHANGED <<length, positions, returned>>

ReturnPassages ==
  /\ ~returned
  /\ Enough \/ unvisited = {}
  /\ returned' = TRUE
  /\ UNCHANGED <<length, positions, unvisited, chosen>>

SnippetNext == Visit \/ ReturnPassages

SnippetSpec == SnippetInit /\ [][SnippetNext]_snippetVars

\* start and end of the window of a place; without a place, the text's head.
From(p) == IF p >= Size \div 3 THEN p - Size \div 3 ELSE 0
To(p) == IF From(p) + Size < length THEN From(p) + Size ELSE length

-----------------------------------------------------------------------------
(* Properties *)

SnippetTypeOK ==
  /\ length \in Nat
  /\ positions \subseteq 0..length - 1
  /\ unvisited \subseteq positions
  /\ chosen \in Seq(positions)
  /\ Len(chosen) <= Sections
  /\ returned \in BOOLEAN

\* Every passage is cut from inside the text, starts before the term it was
\* chosen for and reaches beyond it, at the first character of the text and
\* at the last.
WindowsHoldTheirPlace ==
  \A i \in DOMAIN chosen :
    LET p == chosen[i]
    IN  0 <= From(p) /\ From(p) <= p /\ p < To(p) /\ To(p) <= length /\ To(p) - From(p) <= Size

\* Unless there were too many, every place a term occurs at is in a passage
\* that was chosen for it or for a place before it: what is too near to be
\* chosen is near enough to be shown.
Shown(p) == \E i \in DOMAIN chosen : From(chosen[i]) <= p /\ p < To(chosen[i])
EveryPlaceShown == returned /\ Len(chosen) < Sections => \A p \in positions : Shown(p)

\* No passage starts where an earlier one does: each shows new text, unless
\* the text ends before.
PassagesAdvance ==
  \A i, j \in DOMAIN chosen : i < j => From(chosen[i]) < From(chosen[j])
=============================================================================
