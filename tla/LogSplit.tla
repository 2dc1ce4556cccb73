------------------------------ MODULE LogSplit ------------------------------
(***************************************************************************)
(* _split_log_message: a log message is cut into parts that a Discord      *)
(* message can hold, at the last newline that a part may end before, if    *)
(* there is one.  One step is one iteration of the loop.                   *)
(*                                                                         *)
(* A character is its position in the message, or a newline.               *)
(***************************************************************************)
EXTENDS Naturals, Sequences

CONSTANTS Limit,      \* DEBUG_LOG_MESSAGE_LIMIT
          MaxLength,  \* bound: length of a message
          NL          \* a newline

ASSUME SplitAssumption == Limit \in Nat \ {0} /\ MaxLength \in Nat /\ NL \notin Nat

VARIABLES message, remaining, parts, returned

splitVars == <<message, remaining, parts, returned>>

\* Where a newline lets the loop cut: remaining.rfind("\n", 0, limit) > 0.
Breaks(s) == {i \in 2..Limit : s[i] = NL}

\* cut = limit
LongestPlusOne == Limit + 1
Longest == Limit

\* The length of the part that is cut off.
IsCut(s, n) == \/ n + 1 \in Breaks(s) /\ \A i \in Breaks(s) : i <= n + 1
               \/ Breaks(s) = {} /\ n = Longest

\* remaining[cut:].lstrip("\n")
RestWithoutNext(s, n) == SubSeq(s, n + 2, Len(s))
Rest(s, n) ==
  LET firsts == {i \in n + 1..Len(s) : s[i] # NL /\ \A j \in n + 1..i - 1 : s[j] = NL}
  IN  IF firsts = {} THEN <<>> ELSE SubSeq(s, CHOOSE i \in firsts : TRUE, Len(s))

-----------------------------------------------------------------------------
SplitInit ==
  /\ \E n \in 0..MaxLength : \E newlines \in SUBSET (1..n) :
       message = [i \in 1..n |-> IF i \in newlines THEN NL ELSE i]
  /\ remaining = message
  /\ parts = <<>>
  /\ returned = FALSE

CutOff == /\ ~returned
          /\ Len(remaining) > Limit
          /\ \E n \in 0..Limit + 1 :
               /\ IsCut(remaining, n)
               /\ parts' = Append(parts, SubSeq(remaining, 1, n))
               /\ remaining' = Rest(remaining, n)
          /\ UNCHANGED <<message, returned>>

\* What fits is a part, unless nothing is left of a message that was cut.
Return == /\ ~returned
          /\ Len(remaining) <= Limit
          /\ parts' = IF remaining = <<>> /\ parts # <<>> THEN parts
                                                          ELSE Append(parts, remaining)
          /\ remaining' = <<>>
          /\ returned' = TRUE
          /\ UNCHANGED message

SplitNext == CutOff \/ Return

SplitSpec == SplitInit /\ [][SplitNext]_splitVars

-----------------------------------------------------------------------------
(* Properties *)

\* Every part is one that Discord takes, and none is empty (but for an empty
\* message's).
PartsFit == \A i \in DOMAIN parts : /\ Len(parts[i]) <= Limit
                                    /\ parts[i] = <<>> => message = <<>>

\* The parts hold the text of the message, in its order: every character that
\* is not a newline is in a part or in what remains, the characters of a part
\* before those of the next, and a part is a stretch of the message, with the
\* newlines it has there.  What the cuts lose is newlines only.
Pieces == Append(parts, remaining)
Characters(s) == {s[k] : k \in DOMAIN s} \ {NL}
IsStretch(s) ==
  \A k, l \in DOMAIN s : s[k] # NL =>
    /\ s[k] + l - k \in DOMAIN message
    /\ s[l] = message[s[k] + l - k]
NothingLost ==
  /\ Characters(message) = UNION {Characters(Pieces[i]) : i \in DOMAIN Pieces}
  /\ \A i, j \in DOMAIN Pieces : i < j =>
       \A a \in Characters(Pieces[i]), b \in Characters(Pieces[j]) : a < b
  /\ \A i \in DOMAIN Pieces : IsStretch(Pieces[i])
=============================================================================
