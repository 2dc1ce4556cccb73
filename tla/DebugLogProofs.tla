--------------------------- MODULE DebugLogProofs ---------------------------
(***************************************************************************)
(* Proofs about the forwarding of log records, for any triggers, channels, *)
(* records, chunks and failures, and about the cutting of a record into    *)
(* messages, for every limit and message.                                  *)
(*                                                                         *)
(* That the cuts lose nothing needs to know where the loop is: what        *)
(* remains is the message from some place on, and all the characters       *)
(* before that place, newlines aside, are in the parts.                    *)
(***************************************************************************)
EXTENDS MCDebugLog, SequenceTheorems, WellFoundedInduction, TLAPS

-----------------------------------------------------------------------------
(* The cutting of a message *)

Strings == Seq(Nat \cup {NL})

SplitTypeOK == /\ message \in Strings /\ remaining \in Strings
               /\ parts \in Seq(Strings)
               /\ returned \in BOOLEAN

\* A character is its position, or a newline.
IsMessage == \A k \in DOMAIN message : message[k] \in {k, NL}

\* What remains is the message from m on,
RemainsFrom(m) ==
  /\ Len(remaining) = Len(message) + 1 - m
  /\ \A k \in DOMAIN remaining : remaining[k] = message[m + k - 1]

\* and the parts hold the characters before m and no others.
CutBefore(m) ==
  /\ \A k \in DOMAIN message : k < m /\ message[k] # NL =>
       \E i \in DOMAIN parts : k \in Characters(parts[i])
  /\ \A i \in DOMAIN parts : \A a \in Characters(parts[i]) :
       a \in Nat /\ a < m /\ a \in DOMAIN message /\ message[a] = a

CutSomewhere == \E m \in 1..Len(message) + 1 : RemainsFrom(m) /\ CutBefore(m)

PartsInOrder ==
  /\ \A i, j \in DOMAIN parts : i < j =>
       \A a \in Characters(parts[i]), b \in Characters(parts[j]) : a < b
  /\ \A i \in DOMAIN parts : IsStretch(parts[i])

NothingCutYet == parts = <<>> /\ ~returned => remaining = message

SplitIInv == /\ SplitTypeOK /\ IsMessage
             /\ CutSomewhere /\ PartsInOrder
             /\ NothingCutYet /\ PartsFit

\* A set of numbers has a least one.
LEMMA LeastOf ==
  ASSUME NEW S \in SUBSET Nat, S # {}
  PROVE  \E m \in S : \A n \in S : m <= n
  <1>1. PICK m \in S : \A n \in S : ~(<<n, m>> \in OpToRel(<, Nat))
    BY NatLessThanWellFounded, WFMin
  <1>2. \A n \in S : ~(n < m)
    BY <1>1 DEF OpToRel
  <1> QED
    BY <1>2

\* remaining[cut:].lstrip("\n") starts behind newlines only.
LEMMA RestIsSuffix ==
  ASSUME NEW s \in Strings, NEW n \in 0..Len(s)
  PROVE  \E c \in n + 1..Len(s) + 1 :
           /\ Rest(s, n) \in Strings
           /\ Len(Rest(s, n)) = Len(s) + 1 - c
           /\ \A k \in DOMAIN Rest(s, n) : Rest(s, n)[k] = s[c + k - 1]
           /\ \A j \in n + 1..c - 1 : s[j] = NL
  <1> DEFINE firsts == {i \in n + 1..Len(s) :
                          s[i] # NL /\ \A j \in n + 1..i - 1 : s[j] = NL}
  <1>1. Len(s) \in Nat /\ DOMAIN s = 1..Len(s) /\ n \in Nat
        /\ \A i \in 1..Len(s) : s[i] \in Nat \cup {NL}
    BY LenProperties DEF Strings
  <1>2. CASE firsts = {}
    <2>1. \A j \in n + 1..Len(s) : s[j] = NL
      <3>1. SUFFICES ASSUME {j \in n + 1..Len(s) : s[j] # NL} # {}
                     PROVE  FALSE
        OBVIOUS
      <3>2. PICK m \in {j \in n + 1..Len(s) : s[j] # NL} :
              \A j \in {j \in n + 1..Len(s) : s[j] # NL} : m <= j
        <4>1. {j \in n + 1..Len(s) : s[j] # NL} \in SUBSET Nat
          BY <1>1
        <4> HIDE DEF firsts
        <4> QED
          BY <3>1, <4>1, LeastOf
      <3>3. \A j \in n + 1..m - 1 : s[j] = NL
        BY <1>1, <3>2
      <3> QED
        BY <1>2, <3>2, <3>3
    <2>2. Rest(s, n) = <<>>
      BY <1>2 DEF Rest
    <2>3. Rest(s, n) \in Strings /\ Len(Rest(s, n)) = 0 /\ DOMAIN Rest(s, n) = {}
      BY <2>2 DEF Strings
    <2> QED
      BY <1>1, <2>1, <2>3
  <1>3. CASE firsts # {}
    <2>1. PICK c : c \in firsts /\ Rest(s, n) = SubSeq(s, c, Len(s))
      BY <1>3, Zenon DEF Rest
    <2>2. /\ c \in n + 1..Len(s) /\ c \in Nat
          /\ \A j \in n + 1..c - 1 : s[j] = NL
      BY <1>1, <2>1
    <2>3. \A i \in c..Len(s) : s[i] \in Nat \cup {NL}
      BY <1>1, <2>2
    <2>4. /\ SubSeq(s, c, Len(s)) \in Strings
          /\ Len(SubSeq(s, c, Len(s))) = Len(s) - c + 1
          /\ \A k \in 1..Len(s) - c + 1 : SubSeq(s, c, Len(s))[k] = s[c + k - 1]
      BY <1>1, <2>2, <2>3, SubSeqProperties DEF Strings
    <2>5. DOMAIN SubSeq(s, c, Len(s)) = 1..Len(s) - c + 1
      BY <2>4, LenProperties DEF Strings
    <2> QED
      BY <1>1, <2>1, <2>2, <2>4, <2>5
  <1> QED
    BY <1>2, <1>3

\* A prefix of what remains becomes the next part.
LEMMA AddPart ==
  ASSUME SplitTypeOK, IsMessage, PartsInOrder,
         NEW m \in 1..Len(message) + 1, RemainsFrom(m), CutBefore(m),
         NEW p \in Strings, Len(p) <= Len(remaining),
         \A k \in 1..Len(p) : p[k] = remaining[k],
         parts' = Append(parts, p), message' = message
  PROVE  CutBefore(m + Len(p))' /\ PartsInOrder'
  <1> DEFINE n == Len(p)
             L == Len(parts)
  <1>1. /\ n \in Nat /\ DOMAIN p = 1..n
        /\ L \in Nat /\ DOMAIN parts = 1..L
        /\ Len(message) \in Nat /\ DOMAIN message = 1..Len(message)
        /\ Len(remaining) \in Nat /\ DOMAIN remaining = 1..Len(remaining)
    BY LenProperties DEF SplitTypeOK, Strings
  <1>2. /\ parts' \in Seq(Strings) /\ Len(parts') = L + 1
        /\ \A i \in 1..L : parts'[i] = parts[i]
        /\ parts'[L + 1] = p
    BY AppendProperties DEF SplitTypeOK
  <1>3. DOMAIN parts' = 1..L + 1
    BY <1>2, LenProperties
  <1>4. \A k \in 1..n : m + k - 1 \in DOMAIN message /\ p[k] = message[m + k - 1]
    <2> TAKE k \in 1..n
    <2>1. /\ n <= Len(remaining) /\ Len(remaining) = Len(message) + 1 - m
          /\ p[k] = remaining[k]
      BY DEF RemainsFrom
    <2>2. k \in DOMAIN remaining /\ m + k - 1 \in DOMAIN message
      BY <1>1, <2>1
    <2> QED
      BY <2>1, <2>2 DEF RemainsFrom
  <1>5. \A k \in 1..n : p[k] # NL => p[k] = m + k - 1
    BY <1>1, <1>4 DEF IsMessage
  <1>6. \A a \in Characters(p) : /\ a \in Nat /\ m <= a /\ a < m + n
                                 /\ a \in DOMAIN message /\ message[a] = a
    <2> TAKE a \in Characters(p)
    <2>1. PICK k \in 1..n : a = p[k] /\ a # NL
      BY <1>1 DEF Characters
    <2> QED
      BY <1>1, <1>4, <1>5, <2>1
  <1> HIDE DEF n, L
  <1>7. CutBefore(m + n)'
    <2>1. ASSUME NEW k \in DOMAIN message, k < m + n, message[k] # NL
          PROVE  \E i \in DOMAIN parts' : k \in Characters(parts'[i])
      <3>1. CASE k < m
        <4>1. PICK i \in DOMAIN parts : k \in Characters(parts[i])
          BY <2>1, <3>1 DEF CutBefore
        <4> QED
          BY <1>1, <1>2, <1>3, <4>1
      <3>2. CASE m <= k
        <4>1. PICK j \in 1..n : k = m + j - 1
          <5>1. k - m + 1 \in 1..n /\ k = m + (k - m + 1) - 1
            BY <1>1, <2>1, <3>2
          <5> QED
            BY <5>1
        <4>2. p[j] = k
          BY <1>1, <1>4, <1>5, <2>1, <4>1
        <4>3. k \in Characters(p)
          <5>1. k # NL
            BY <1>1, <2>1, SplitAssumption
          <5> QED
            BY <1>1, <4>1, <4>2, <5>1 DEF Characters
        <4>4. L + 1 \in DOMAIN parts'
          BY <1>1, <1>3
        <4> QED
          BY <1>2, <4>3, <4>4
      <3> QED
        BY <1>1, <3>1, <3>2
    <2>2. ASSUME NEW i \in DOMAIN parts', NEW a \in Characters(parts'[i])
          PROVE  a \in Nat /\ a < m + n /\ a \in DOMAIN message /\ message[a] = a
      <3>1. CASE i \in 1..L
        BY <1>1, <1>2, <2>2, <3>1 DEF CutBefore
      <3>2. CASE i = L + 1
        BY <1>2, <1>6, <2>2, <3>2
      <3> QED
        BY <1>1, <1>3, <3>1, <3>2
    <2>3. /\ \A k \in DOMAIN message' : k < m + n /\ message'[k] # NL =>
               \E i \in DOMAIN parts' : k \in Characters(parts'[i])
          /\ \A i \in DOMAIN parts' : \A a \in Characters(parts'[i]) :
               a \in Nat /\ a < m + n /\ a \in DOMAIN message' /\ message'[a] = a
      BY <2>1, <2>2
    <2>4. n' = n
      BY DEF n
    <2> QED
      BY <2>3, <2>4, Zenon DEF CutBefore, Characters
  <1>8. PartsInOrder'
    <2>1. ASSUME NEW i \in DOMAIN parts', NEW j \in DOMAIN parts', i < j,
                 NEW a \in Characters(parts'[i]), NEW b \in Characters(parts'[j])
          PROVE  a < b
      <3>1. i \in 1..L
        BY <1>1, <1>3, <2>1
      <3>2. a \in Characters(parts[i]) /\ a \in Nat /\ a < m
        BY <1>1, <1>2, <2>1, <3>1 DEF CutBefore
      <3>3. CASE j \in 1..L
        BY <1>1, <1>2, <2>1, <3>1, <3>3 DEF PartsInOrder
      <3>4. CASE j = L + 1
        <4>1. b \in Nat /\ m <= b
          BY <1>2, <1>6, <2>1, <3>4
        <4> QED
          BY <3>2, <4>1
      <3> QED
        BY <1>1, <1>3, <3>3, <3>4
    <2>2. ASSUME NEW i \in DOMAIN parts'
          PROVE  IsStretch(parts'[i])
      <3>1. CASE i \in 1..L
        BY <1>1, <1>2, <3>1 DEF PartsInOrder
      <3>2. CASE i = L + 1
        <4> SUFFICES ASSUME NEW k \in 1..n, NEW l \in 1..n, p[k] # NL
                     PROVE  /\ p[k] + l - k \in DOMAIN message
                            /\ p[l] = message[p[k] + l - k]
          BY <1>1, <1>2, <3>2 DEF IsStretch
        <4>1. p[k] = m + k - 1
          BY <1>5
        <4>2. p[k] + l - k = m + l - 1
          BY <1>1, <4>1
        <4> QED
          BY <1>4, <4>2
      <3> QED
        BY <1>1, <1>3, <3>1, <3>2
    <2>3. \A i \in DOMAIN parts' : \A k, l \in DOMAIN parts'[i] : parts'[i][k] # NL =>
            /\ parts'[i][k] + l - k \in DOMAIN message'
            /\ parts'[i][l] = message'[parts'[i][k] + l - k]
      BY <2>2 DEF IsStretch
    <2>4. \A i, j \in DOMAIN parts' : i < j =>
            \A a \in Characters(parts'[i]), b \in Characters(parts'[j]) : a < b
      BY <2>1
    <2> QED
      BY <2>3, <2>4, Zenon DEF PartsInOrder, Characters, IsStretch
  <1>9. (m + Len(p))' = m + n
    BY DEF n
  <1> QED
    BY <1>7, <1>8 DEF n

LEMMA SplitInitIInv == SplitInit => SplitIInv
  <1> SUFFICES ASSUME SplitInit
               PROVE  SplitIInv
    OBVIOUS
  <1>1. PICK n \in 0..MaxLength : \E newlines \in SUBSET (1..n) :
          message = [i \in 1..n |-> IF i \in newlines THEN NL ELSE i]
    BY DEF SplitInit
  <1>2. PICK newlines \in SUBSET (1..n) :
          message = [i \in 1..n |-> IF i \in newlines THEN NL ELSE i]
    BY <1>1
  <1>3. n \in Nat /\ remaining = message /\ parts = <<>> /\ returned = FALSE
    BY SplitAssumption DEF SplitInit
  <1>4. message \in Strings /\ Len(message) = n /\ DOMAIN message = 1..n
    BY <1>2, <1>3 DEF Strings
  <1>5. SplitTypeOK /\ IsMessage
    <2>1. IsMessage
      BY <1>2, <1>4 DEF IsMessage
    <2>2. parts \in Seq(Strings)
      BY <1>3, EmptySeq
    <2> QED
      BY <1>3, <1>4, <2>1, <2>2 DEF SplitTypeOK
  <1>6. RemainsFrom(1) /\ CutBefore(1)
    BY <1>3, <1>4 DEF RemainsFrom, CutBefore
  <1>7. CutSomewhere
    BY <1>3, <1>4, <1>6 DEF CutSomewhere
  <1>8. PartsInOrder /\ NothingCutYet /\ PartsFit
    BY <1>3 DEF PartsInOrder, NothingCutYet, PartsFit
  <1> QED
    BY <1>5, <1>7, <1>8 DEF SplitIInv

\* A cut is neither empty nor longer than the limit.
LEMMA CutLength ==
  ASSUME NEW s, NEW n \in 0..Limit + 1, IsCut(s, n)
  PROVE  n \in 1..Limit
  <1>1. CASE n + 1 \in Breaks(s)
    BY <1>1, SplitAssumption DEF Breaks
  <1>2. CASE n = Longest
    BY <1>2, SplitAssumption DEF Longest
  <1> QED
    BY <1>1, <1>2 DEF IsCut

\* One turn of the loop moves on in the message.
LEMMA CutOffStep == SplitIInv /\ CutOff => SplitIInv'
  <1> SUFFICES ASSUME SplitIInv, CutOff
               PROVE  SplitIInv'
    OBVIOUS
  <1>1. /\ SplitTypeOK /\ IsMessage /\ PartsInOrder /\ PartsFit
        /\ message \in Strings /\ remaining \in Strings
        /\ Len(remaining) \in Nat /\ DOMAIN remaining = 1..Len(remaining)
        /\ Len(message) \in Nat /\ DOMAIN message = 1..Len(message)
        /\ Len(parts) \in Nat /\ DOMAIN parts = 1..Len(parts)
    BY LenProperties DEF SplitIInv, SplitTypeOK, Strings
  <1>2. PICK n \in 1..Limit : /\ parts' = Append(parts, SubSeq(remaining, 1, n))
                              /\ remaining' = Rest(remaining, n)
    BY CutLength DEF CutOff
  <1>3. UNCHANGED <<message, returned>> /\ Len(remaining) > Limit /\ ~returned
    BY DEF CutOff
  <1>4. n \in Nat /\ n <= Len(remaining)
    BY <1>1, <1>3, SplitAssumption
  <1>5. PICK m \in 1..Len(message) + 1 : RemainsFrom(m) /\ CutBefore(m)
    BY DEF SplitIInv, CutSomewhere
  <1> DEFINE p == SubSeq(remaining, 1, n)
  <1>6. /\ p \in Strings /\ Len(p) = n
        /\ \A k \in 1..n : p[k] = remaining[k]
    <2>1. \A i \in 1..n : remaining[i] \in Nat \cup {NL}
      BY <1>1, <1>4, LenProperties DEF Strings
    <2>2. /\ p \in Strings /\ Len(p) = n - 1 + 1
          /\ \A k \in 1..n - 1 + 1 : p[k] = remaining[1 + k - 1]
      BY <1>2, <1>4, <2>1, SubSeqProperties DEF Strings
    <2> QED
      BY <1>4, <2>2
  <1> HIDE DEF p
  <1>7. PICK c \in n + 1..Len(remaining) + 1 :
          /\ remaining' \in Strings
          /\ Len(remaining') = Len(remaining) + 1 - c
          /\ \A k \in DOMAIN remaining' : remaining'[k] = remaining[c + k - 1]
          /\ \A j \in n + 1..c - 1 : remaining[j] = NL
    <2>1. n \in 0..Len(remaining)
      BY <1>1, <1>4
    <2> QED
      BY <1>1, <1>2, <2>1, RestIsSuffix
  <1>8. CutBefore(m + n)' /\ PartsInOrder'
    BY <1>1, <1>2, <1>3, <1>4, <1>5, <1>6, AddPart DEF p
  <1>9. c \in Nat /\ n < c /\ c <= Len(remaining) + 1
        /\ Len(remaining) = Len(message) + 1 - m
    BY <1>1, <1>4, <1>5, <1>7 DEF RemainsFrom
  <1>10. Len(remaining') \in Nat /\ DOMAIN remaining' = 1..Len(remaining')
    BY <1>7, LenProperties DEF Strings
  <1> DEFINE q == m + c - 1
  <1>11. q \in 1..Len(message) + 1
    BY <1>1, <1>5, <1>9
  <1>12. RemainsFrom(q)'
    <2>1. Len(remaining') = Len(message) + 1 - q
      BY <1>1, <1>7, <1>9
    <2>2. ASSUME NEW k \in DOMAIN remaining'
          PROVE  remaining'[k] = message[q + k - 1]
      <3>1. remaining'[k] = remaining[c + k - 1] /\ c + k - 1 \in DOMAIN remaining
        BY <1>1, <1>7, <1>9, <1>10, <2>2
      <3>2. remaining[c + k - 1] = message[m + (c + k - 1) - 1]
        BY <1>5, <3>1 DEF RemainsFrom
      <3>3. m + (c + k - 1) - 1 = q + k - 1
        BY <1>5, <1>9, <1>10
      <3> QED
        BY <3>1, <3>2, <3>3
    <2> HIDE DEF q
    <2>3. q' = q
      BY DEF q
    <2> QED
      BY <1>3, <2>1, <2>2, <2>3 DEF RemainsFrom
  <1>13. CutBefore(q)'
    <2>1. ASSUME NEW k \in DOMAIN message, k < q, message[k] # NL
          PROVE  k < m + n
      <3>1. SUFFICES ASSUME m + n <= k
                     PROVE  FALSE
        BY <1>1, <1>4, <1>5
      <3>2. k - m + 1 \in n + 1..c - 1
        BY <1>1, <1>4, <1>5, <1>9, <2>1, <3>1
      <3>3. k - m + 1 \in DOMAIN remaining
        BY <1>1, <1>4, <1>9, <3>2
      <3>4. remaining[k - m + 1] = NL
        BY <1>7, <3>2
      <3>5. remaining[k - m + 1] = message[m + (k - m + 1) - 1]
        BY <1>5, <3>3 DEF RemainsFrom
      <3>6. m + (k - m + 1) - 1 = k
        BY <1>1, <1>5
      <3> QED
        BY <2>1, <3>4, <3>5, <3>6
    <2>2. /\ \A k \in DOMAIN message' : k < m + n /\ message'[k] # NL =>
               \E i \in DOMAIN parts' : k \in Characters(parts'[i])
          /\ \A i \in DOMAIN parts' : \A a \in Characters(parts'[i]) :
               a \in Nat /\ a < m + n /\ a \in DOMAIN message' /\ message'[a] = a
      BY <1>8, Zenon DEF CutBefore, Characters
    <2>3. m + n <= q /\ m + n \in Nat /\ q \in Nat
      BY <1>4, <1>5, <1>9
    <2> HIDE DEF q
    <2>4. /\ \A k \in DOMAIN message' : k < q /\ message'[k] # NL =>
               \E i \in DOMAIN parts' : k \in Characters(parts'[i])
          /\ \A i \in DOMAIN parts' : \A a \in Characters(parts'[i]) :
               a \in Nat /\ a < q /\ a \in DOMAIN message' /\ message'[a] = a
      BY <1>3, <2>1, <2>2, <2>3
    <2>5. q' = q
      BY DEF q
    <2> QED
      BY <2>4, <2>5, Zenon DEF CutBefore, Characters
  <1>14. CutSomewhere'
    <2> HIDE DEF q
    <2> QED
      BY <1>3, <1>11, <1>12, <1>13 DEF CutSomewhere, RemainsFrom, CutBefore, q
  <1>15. /\ parts' \in Seq(Strings) /\ Len(parts') = Len(parts) + 1
         /\ \A i \in 1..Len(parts) : parts'[i] = parts[i]
         /\ parts'[Len(parts) + 1] = p
         /\ DOMAIN parts' = 1..Len(parts) + 1
    BY <1>1, <1>2, <1>6, AppendProperties, LenProperties DEF SplitTypeOK, p
  <1>16. SplitTypeOK' /\ IsMessage'
    BY <1>1, <1>3, <1>7, <1>15 DEF SplitTypeOK, IsMessage
  <1>17. PartsFit'
    <2> SUFFICES ASSUME NEW i \in DOMAIN parts'
                 PROVE  Len(parts'[i]) <= Limit /\ (parts'[i] = <<>> => message = <<>>)
      BY <1>3 DEF PartsFit
    <2>1. CASE i \in 1..Len(parts)
      BY <1>1, <1>15, <2>1 DEF PartsFit
    <2>2. CASE i = Len(parts) + 1
      <3>1. Len(p) = n /\ p # <<>>
        BY <1>2, <1>6, EmptySeq
      <3> QED
        BY <1>2, <1>4, <1>15, <2>2, <3>1, SplitAssumption
    <2> QED
      BY <1>1, <1>15, <2>1, <2>2
  <1>18. NothingCutYet'
    <2>1. parts' # <<>>
      BY <1>1, <1>15, EmptySeq
    <2> QED
      BY <2>1 DEF NothingCutYet
  <1> QED
    BY <1>8, <1>14, <1>16, <1>17, <1>18 DEF SplitIInv

\* The last part ends the message.
LEMMA ReturnStep == SplitIInv /\ Return => SplitIInv'
  <1> SUFFICES ASSUME SplitIInv, Return
               PROVE  SplitIInv'
    OBVIOUS
  <1>1. /\ SplitTypeOK /\ IsMessage /\ PartsInOrder /\ PartsFit
        /\ message \in Strings /\ remaining \in Strings
        /\ Len(remaining) \in Nat /\ DOMAIN remaining = 1..Len(remaining)
        /\ Len(message) \in Nat /\ DOMAIN message = 1..Len(message)
        /\ Len(parts) \in Nat /\ DOMAIN parts = 1..Len(parts)
    BY LenProperties DEF SplitIInv, SplitTypeOK, Strings
  <1>2. /\ message' = message /\ returned' = TRUE /\ remaining' = <<>>
        /\ Len(remaining) <= Limit /\ ~returned
    BY DEF Return
  <1>3. PICK m \in 1..Len(message) + 1 : RemainsFrom(m) /\ CutBefore(m)
    BY DEF SplitIInv, CutSomewhere
  <1>4. Len(remaining) = Len(message) + 1 - m
    BY <1>3 DEF RemainsFrom
  <1>5. IsMessage' /\ NothingCutYet' /\ remaining' \in Strings /\ returned' \in BOOLEAN
    BY <1>1, <1>2, EmptySeq DEF IsMessage, NothingCutYet, Strings
  <1> DEFINE q == Len(message) + 1
  <1>6. RemainsFrom(q)'
    BY <1>1, <1>2 DEF RemainsFrom
  <1>7. /\ parts' \in Seq(Strings)
        /\ CutBefore(q)' /\ PartsInOrder' /\ PartsFit'
    <2>1. CASE remaining = <<>> /\ parts # <<>>
      <3>1. parts' = parts
        BY <2>1 DEF Return
      <3>2. m = q
        BY <1>1, <1>3, <1>4, <2>1
      <3>3. CutBefore(q)
        BY <1>3, <3>2
      <3> QED
        BY <1>1, <1>2, <3>1, <3>3
        DEF SplitTypeOK, CutBefore, PartsInOrder, PartsFit, Characters, IsStretch
    <2>2. CASE ~(remaining = <<>> /\ parts # <<>>)
      <3>1. parts' = Append(parts, remaining)
        BY <2>2 DEF Return
      <3>2. PICK p : p = remaining
        OBVIOUS
      <3>3. CutBefore(m + Len(p))' /\ PartsInOrder'
        <4>1. /\ p \in Strings /\ Len(p) <= Len(remaining)
              /\ \A k \in 1..Len(p) : p[k] = remaining[k]
              /\ parts' = Append(parts, p) /\ message' = message
          BY <1>1, <1>2, <3>1, <3>2
        <4> QED
          BY <1>1, <1>3, <4>1, AddPart
      <3>4. CutBefore(q)'
        <4>1. m + Len(p) = q /\ q' = q
          BY <1>1, <1>2, <1>3, <1>4, <3>2
        <4> HIDE DEF q
        <4> QED
          BY <3>3, <4>1 DEF CutBefore
      <3>5. /\ parts' \in Seq(Strings) /\ Len(parts') = Len(parts) + 1
            /\ \A i \in 1..Len(parts) : parts'[i] = parts[i]
            /\ parts'[Len(parts) + 1] = remaining
            /\ DOMAIN parts' = 1..Len(parts) + 1
        BY <1>1, <3>1, AppendProperties, LenProperties DEF SplitTypeOK
      <3>6. PartsFit'
        <4> SUFFICES ASSUME NEW i \in DOMAIN parts'
                     PROVE  Len(parts'[i]) <= Limit /\ (parts'[i] = <<>> => message = <<>>)
          BY <1>2 DEF PartsFit
        <4>1. CASE i \in 1..Len(parts)
          BY <1>1, <3>5, <4>1 DEF PartsFit
        <4>2. CASE i = Len(parts) + 1
          <5>1. remaining = <<>> => message = <<>>
            BY <1>2, <2>2 DEF SplitIInv, NothingCutYet
          <5> QED
            BY <1>2, <3>5, <4>2, <5>1
        <4> QED
          BY <1>1, <3>5, <4>1, <4>2
      <3> QED
        BY <3>3, <3>4, <3>5, <3>6
    <2> QED
      BY <2>1, <2>2
  <1>8. CutSomewhere'
    <2>1. q \in 1..Len(message) + 1
      BY <1>1
    <2> QED
      BY <1>2, <1>6, <1>7, <2>1 DEF CutSomewhere, RemainsFrom, CutBefore
  <1> QED
    BY <1>1, <1>2, <1>5, <1>7, <1>8 DEF SplitIInv, SplitTypeOK

LEMMA SplitInvariance == SplitSpec => []SplitIInv
  <1>1. SplitIInv /\ UNCHANGED splitVars => SplitIInv'
    BY DEF splitVars, SplitIInv, SplitTypeOK, IsMessage, CutSomewhere, RemainsFrom,
           CutBefore, PartsInOrder, NothingCutYet, PartsFit, Characters, IsStretch
  <1>2. SplitIInv /\ [SplitNext]_splitVars => SplitIInv'
    BY <1>1, CutOffStep, ReturnStep DEF SplitNext
  <1> QED
    BY <1>2, SplitInitIInv, PTL DEF SplitSpec

\* _split_log_message: Discord takes every part, whatever the limit is and
\* wherever the newlines are, and no part of a message that has text is empty.
THEOREM EveryPartFits == SplitSpec => []PartsFit
  <1>1. SplitIInv => PartsFit
    BY DEF SplitIInv
  <1> QED
    BY <1>1, SplitInvariance, PTL

\* _split_log_message: all that the cuts take out of a message is newlines.
THEOREM CutsLoseNothing == SplitSpec => []NothingLost
  <1>1. ASSUME SplitIInv
        PROVE  NothingLost
    <2>1. /\ SplitTypeOK /\ IsMessage /\ PartsInOrder
          /\ message \in Strings /\ remaining \in Strings
          /\ Len(remaining) \in Nat /\ DOMAIN remaining = 1..Len(remaining)
          /\ Len(message) \in Nat /\ DOMAIN message = 1..Len(message)
          /\ Len(parts) \in Nat /\ DOMAIN parts = 1..Len(parts)
      BY <1>1, LenProperties DEF SplitIInv, SplitTypeOK, Strings
    <2>2. PICK m \in 1..Len(message) + 1 : RemainsFrom(m) /\ CutBefore(m)
      BY <1>1 DEF SplitIInv, CutSomewhere
    <2> DEFINE L == Len(parts)
               r == remaining
    <2>3. /\ Pieces \in Seq(Strings) /\ DOMAIN Pieces = 1..L + 1
          /\ \A i \in 1..L : Pieces[i] = parts[i]
          /\ Pieces[L + 1] = r
      BY <2>1, AppendProperties, LenProperties DEF SplitTypeOK, Pieces
    <2> HIDE DEF L
    <2>4. \A k \in DOMAIN r : /\ m + k - 1 \in DOMAIN message
                              /\ r[k] = message[m + k - 1]
                              /\ r[k] # NL => r[k] = m + k - 1
      <3> TAKE k \in DOMAIN r
      <3>1. m + k - 1 \in DOMAIN message /\ r[k] = message[m + k - 1]
        BY <2>1, <2>2 DEF RemainsFrom
      <3> QED
        BY <2>1, <3>1 DEF IsMessage
    <2>5. \A a \in Characters(r) : a \in DOMAIN message /\ m <= a /\ message[a] = a
      <3> TAKE a \in Characters(r)
      <3>1. PICK k \in DOMAIN r : a = r[k] /\ a # NL
        BY DEF Characters
      <3> QED
        BY <2>1, <2>4, <3>1
    <2>6. \A i \in DOMAIN Pieces : \A a \in Characters(Pieces[i]) :
            a \in DOMAIN message /\ message[a] = a
      BY <2>1, <2>2, <2>3, <2>5 DEF CutBefore, L
    <2>7. ASSUME NEW k \in DOMAIN message, message[k] # NL
          PROVE  \E i \in DOMAIN Pieces : k \in Characters(Pieces[i])
      <3>1. CASE k < m
        <4>1. PICK i \in DOMAIN parts : k \in Characters(parts[i])
          BY <2>2, <2>7, <3>1 DEF CutBefore
        <4> QED
          BY <2>1, <2>3, <4>1 DEF L
      <3>2. CASE m <= k
        <4>1. Len(r) = Len(message) + 1 - m
          BY <2>2 DEF RemainsFrom
        <4>2. k - m + 1 \in DOMAIN r /\ m + (k - m + 1) - 1 = k
          BY <2>1, <3>2, <4>1
        <4>3. r[k - m + 1] = message[k] /\ message[k] = k
          BY <2>1, <2>4, <2>7, <4>2 DEF IsMessage
        <4>4. k \in Characters(r)
          BY <2>7, <4>2, <4>3 DEF Characters
        <4> QED
          BY <2>1, <2>3, <4>4 DEF L
      <3> QED
        BY <2>1, <3>1, <3>2
    <2>8. Characters(message) = UNION {Characters(Pieces[i]) : i \in DOMAIN Pieces}
      <3>1. ASSUME NEW a \in Characters(message)
            PROVE  \E i \in DOMAIN Pieces : a \in Characters(Pieces[i])
        <4>1. PICK k \in DOMAIN message : a = message[k] /\ a # NL
          BY DEF Characters
        <4>2. a = k
          BY <2>1, <4>1 DEF IsMessage
        <4> QED
          BY <2>7, <4>1, <4>2
      <3>2. ASSUME NEW i \in DOMAIN Pieces, NEW a \in Characters(Pieces[i])
            PROVE  a \in Characters(message)
        <4>1. a \in DOMAIN message /\ message[a] = a /\ a # NL
          BY <2>6 DEF Characters
        <4> QED
          BY <4>1 DEF Characters
      <3> QED
        BY <3>1, <3>2
    <2>9. ASSUME NEW i \in DOMAIN Pieces, NEW j \in DOMAIN Pieces, i < j,
                 NEW a \in Characters(Pieces[i]), NEW b \in Characters(Pieces[j])
          PROVE  a < b
      <3>1. i \in 1..L /\ a \in Characters(parts[i]) /\ a < m /\ a \in Nat
        BY <2>1, <2>2, <2>3, <2>9 DEF CutBefore, L
      <3>2. CASE j \in 1..L
        BY <2>1, <2>3, <2>9, <3>1, <3>2 DEF PartsInOrder, L
      <3>3. CASE j = L + 1
        BY <2>1, <2>3, <2>5, <2>9, <3>1, <3>3
      <3> QED
        BY <2>1, <2>3, <3>2, <3>3 DEF L
    <2>10. ASSUME NEW i \in DOMAIN Pieces
           PROVE  IsStretch(Pieces[i])
      <3>1. CASE i \in 1..L
        BY <2>1, <2>3, <3>1 DEF PartsInOrder, L
      <3>2. CASE i = L + 1
        <4> SUFFICES ASSUME NEW k \in DOMAIN r, NEW l \in DOMAIN r, r[k] # NL
                     PROVE  /\ r[k] + l - k \in DOMAIN message
                            /\ r[l] = message[r[k] + l - k]
          BY <2>3, <3>2 DEF IsStretch
        <4>1. r[k] + l - k = m + l - 1
          BY <2>1, <2>4
        <4> QED
          BY <2>4, <4>1
      <3> QED
        BY <2>1, <2>3, <3>1, <3>2 DEF L
    <2> QED
      BY <2>8, <2>9, <2>10 DEF NothingLost
  <1> QED
    BY <1>1, SplitInvariance, PTL

-----------------------------------------------------------------------------
(* The forwarding of records *)

Workers == [to: Channels, record: Nat, sent: Nat]

LogTypeOK == /\ queue \in Seq(Nat) /\ logged \in Nat
             /\ forwarders \in Seq(Workers)
             /\ posted \in [Channels -> Seq(Nat \X Nat)]

\* Records queue in the order of the log.
QueueAscends ==
  /\ \A i \in DOMAIN queue : queue[i] >= 1 /\ queue[i] <= logged
  /\ \A i, j \in DOMAIN queue : i < j => queue[i] < queue[j]

\* A record is in the queue or in the hands of one forwarder.
HeldOnce ==
  /\ \A f \in DOMAIN forwarders : /\ forwarders[f].record <= logged
                                  /\ \A i \in DOMAIN queue : queue[i] # forwarders[f].record
  /\ \A f, g \in DOMAIN forwarders :
       f # g /\ forwarders[f].record # 0 => forwarders[f].record # forwarders[g].record

\* What is posted was queued, and of what a forwarder holds, the chunks sent.
PostsBehind ==
  \A c \in Channels : \A i \in DOMAIN posted[c] :
    /\ posted[c][i][1] >= 1 /\ posted[c][i][1] <= logged
    /\ \A j \in DOMAIN queue : queue[j] # posted[c][i][1]
    /\ \A f \in DOMAIN forwarders : posted[c][i][1] = forwarders[f].record =>
         posted[c][i][2] <= forwarders[f].sent

PostsDiffer ==
  \A c, d \in Channels : \A i \in DOMAIN posted[c], j \in DOMAIN posted[d] :
    posted[c][i] = posted[d][j] => c = d /\ i = j

\* The last chunk posted to a channel.
LastPost(c) == IF posted[c] = <<>> THEN <<0, 0>> ELSE posted[c][Len(posted[c])]

NoneYet == forwarders = <<>> => \A c \in Channels : posted[c] = <<>>

\* A forwarder that is the only one is between what its channel shows and
\* what the queue has.
OneBehind ==
  Len(forwarders) = 1 =>
    /\ \A c \in Channels : c # forwarders[1].to => posted[c] = <<>>
    /\ \A i \in DOMAIN queue : /\ forwarders[1].record < queue[i]
                               /\ LastPost(forwarders[1].to)[1] < queue[i]
    /\ forwarders[1].record # 0 =>
         \/ /\ forwarders[1].sent = 0
            /\ LastPost(forwarders[1].to)[1] < forwarders[1].record
         \/ /\ forwarders[1].sent > 0
            /\ LastPost(forwarders[1].to) = <<forwarders[1].record, forwarders[1].sent>>

LogIInv == /\ LogTypeOK
           /\ QueueAscends /\ HeldOnce /\ PostsBehind /\ PostsDiffer
           /\ NoneYet /\ OneBehind /\ PostedInOrder

\* The sequences of the type invariant, by their indices.
LEMMA LogShapes ==
  ASSUME LogTypeOK
  PROVE  /\ Len(queue) \in Nat /\ DOMAIN queue = 1..Len(queue)
         /\ \A i \in DOMAIN queue : queue[i] \in Nat
         /\ Len(forwarders) \in Nat /\ DOMAIN forwarders = 1..Len(forwarders)
         /\ \A f \in DOMAIN forwarders : forwarders[f] \in Workers
         /\ \A c \in Channels : /\ posted[c] \in Seq(Nat \X Nat)
                                /\ Len(posted[c]) \in Nat
                                /\ DOMAIN posted[c] = 1..Len(posted[c])
                                /\ \A i \in DOMAIN posted[c] : posted[c][i] \in Nat \X Nat
  BY LenProperties, ElementOfSeq DEF LogTypeOK

LEMMA LogInitIInv == Init => LogIInv
  <1> SUFFICES ASSUME Init
               PROVE  LogIInv
    OBVIOUS
  <1>1. /\ forwarders = <<>> /\ queue = <<>> /\ logged = 0
        /\ posted = [c \in Channels |-> <<>>]
    BY DEF Init
  <1>2. LogTypeOK
    BY <1>1 DEF LogTypeOK
  <1>3. \A c \in Channels : posted[c] = <<>>
    BY <1>1
  <1>4. QueueAscends /\ HeldOnce
    BY <1>1 DEF QueueAscends, HeldOnce
  <1>5. PostsBehind /\ PostsDiffer /\ NoneYet /\ PostedInOrder
    BY <1>3 DEF PostsBehind, PostsDiffer, NoneYet, PostedInOrder
  <1>6. OneBehind
    BY <1>1 DEF OneBehind
  <1> QED
    BY <1>2, <1>4, <1>5, <1>6 DEF LogIInv

\* The handler queues a record that is later than all others.
LEMMA EmitStep == LogIInv /\ Emit => LogIInv'
  <1> SUFFICES ASSUME LogIInv, Emit
               PROVE  LogIInv'
    OBVIOUS
  <1> USE DEF LogIInv
  <1>1. /\ logged' = logged + 1 /\ UNCHANGED <<forwarders, posted>>
        /\ queue' = queue \/ queue' = Append(queue, logged + 1)
        /\ logged \in Nat
    BY DEF Emit, ofDiscord, LogTypeOK
  <1>2. /\ queue' \in Seq(Nat) /\ Len(queue) \in Nat /\ DOMAIN queue = 1..Len(queue)
        /\ \A i \in DOMAIN queue : i \in DOMAIN queue' /\ queue'[i] = queue[i]
        /\ \A i \in DOMAIN queue' :
             \/ i \in DOMAIN queue /\ queue'[i] = queue[i]
             \/ i = Len(queue) + 1 /\ queue'[i] = logged + 1
    <2>1. queue \in Seq(Nat) /\ logged + 1 \in Nat
      BY DEF LogTypeOK
    <2> QED
      BY <1>1, <2>1, AppendProperties, LenProperties
  <1>3. LogTypeOK'
    BY <1>1, <1>2 DEF LogTypeOK
  <1>4. QueueAscends'
    <2>1. \A i \in DOMAIN queue : queue[i] \in Nat /\ 1 <= queue[i] /\ queue[i] <= logged
      BY LogShapes DEF QueueAscends
    <2>2. \A i \in DOMAIN queue' : queue'[i] >= 1 /\ queue'[i] <= logged + 1
      BY <1>1, <1>2, <2>1
    <2>3. ASSUME NEW i \in DOMAIN queue', NEW j \in DOMAIN queue', i < j
          PROVE  queue'[i] < queue'[j]
      <3>1. i \in DOMAIN queue /\ queue'[i] = queue[i] /\ queue[i] < logged + 1
        <4>1. j <= Len(queue) + 1 /\ i \in Nat /\ j \in Nat
          BY <1>2
        <4>2. i # Len(queue) + 1
          BY <1>2, <2>3, <4>1
        <4> QED
          BY <1>1, <1>2, <2>1, <4>2
      <3>2. CASE j \in DOMAIN queue /\ queue'[j] = queue[j]
        BY <2>3, <3>1, <3>2 DEF QueueAscends
      <3>3. CASE queue'[j] = logged + 1
        BY <3>1, <3>3
      <3> QED
        BY <1>2, <3>2, <3>3
    <2> QED
      BY <1>1, <2>2, <2>3 DEF QueueAscends
  <1>5. HeldOnce'
    <2>1. \A f \in DOMAIN forwarders : forwarders[f].record \in Nat
      BY LogShapes DEF Workers
    <2>2. \A f \in DOMAIN forwarders : forwarders[f].record <= logged'
      BY <1>1, <2>1 DEF HeldOnce
    <2>3. \A f \in DOMAIN forwarders : \A i \in DOMAIN queue' :
            queue'[i] # forwarders[f].record
      BY <1>1, <1>2, <2>1 DEF HeldOnce
    <2> QED
      BY <1>1, <2>2, <2>3 DEF HeldOnce
  <1>6. PostsBehind' /\ PostsDiffer'
    <2>1. \A c \in Channels : \A i \in DOMAIN posted[c] : posted[c][i][1] \in Nat
      BY LogShapes
    <2>2. \A c \in Channels : \A i \in DOMAIN posted[c] : \A j \in DOMAIN queue' :
            queue'[j] # posted[c][i][1]
      BY <1>1, <1>2, <2>1 DEF PostsBehind
    <2>3. \A c \in Channels : \A i \in DOMAIN posted[c] : posted[c][i][1] <= logged'
      BY <1>1, <2>1 DEF PostsBehind
    <2> QED
      BY <1>1, <2>2, <2>3 DEF PostsBehind, PostsDiffer
  <1>7. OneBehind'
    <2> SUFFICES ASSUME Len(forwarders) = 1, NEW i \in DOMAIN queue'
                 PROVE  /\ forwarders[1].record < queue'[i]
                        /\ LastPost(forwarders[1].to)[1] < queue'[i]
      BY <1>1 DEF OneBehind, LastPost
    <2>1. 1 \in DOMAIN forwarders /\ forwarders[1] \in Workers
      BY LogShapes
    <2>2. forwarders[1].record \in Nat /\ forwarders[1].record <= logged
          /\ forwarders[1].to \in Channels
      BY <2>1 DEF HeldOnce, Workers
    <2>3. LastPost(forwarders[1].to)[1] \in Nat /\ LastPost(forwarders[1].to)[1] <= logged
      <3> DEFINE s == posted[forwarders[1].to]
      <3>1. CASE s = <<>>
        BY <1>1, <3>1 DEF LastPost
      <3>2. CASE s # <<>>
        <4>1. s \in Seq(Nat \X Nat) /\ Len(s) \in DOMAIN s /\ s[Len(s)] \in Nat \X Nat
          BY <2>2, <3>2, LogShapes, EmptySeq
        <4>2. s[Len(s)][1] <= logged
          BY <2>2, <4>1 DEF PostsBehind
        <4> QED
          BY <3>2, <4>1, <4>2 DEF LastPost
      <3> QED
        BY <3>1, <3>2
    <2>4. CASE i \in DOMAIN queue /\ queue'[i] = queue[i]
      BY <2>4 DEF OneBehind
    <2>5. CASE queue'[i] = logged + 1
      BY <1>1, <2>2, <2>3, <2>5
    <2> QED
      BY <1>2, <2>4, <2>5
  <1>8. NoneYet' /\ PostedInOrder'
    BY <1>1 DEF NoneYet, PostedInOrder
  <1> QED
    BY <1>3, <1>4, <1>5, <1>6, <1>7, <1>8

\* A forwarder starts with empty hands.
LEMMA ForwardStep ==
  ASSUME LogIInv, NEW c \in Channels, Forward(c), UNCHANGED <<queue, logged, posted>>
  PROVE  LogIInv'
  <1> USE DEF LogIInv
  <1> DEFINE w == [to |-> c, record |-> 0, sent |-> 0]
             N == Len(forwarders)
  <1>1. forwarders' = Append(forwarders, w) /\ w \in Workers
    BY DEF Forward, Workers
  <1> HIDE DEF w
  <1>2. /\ forwarders' \in Seq(Workers) /\ Len(forwarders') = N + 1 /\ N \in Nat
        /\ DOMAIN forwarders = 1..N /\ DOMAIN forwarders' = 1..N + 1
        /\ \A f \in 1..N : forwarders'[f] = forwarders[f]
        /\ forwarders'[N + 1] = w
    BY <1>1, AppendProperties, LenProperties DEF LogTypeOK
  <1>3. w.to = c /\ w.record = 0 /\ w.sent = 0
    BY DEF w
  <1>4. LogTypeOK' /\ QueueAscends'
    BY <1>2 DEF LogTypeOK, QueueAscends
  <1>5. HeldOnce'
    <2>1. \A i \in DOMAIN queue : queue[i] # 0 /\ logged >= 0
      BY LogShapes DEF QueueAscends, LogTypeOK
    <2>2. \A f \in DOMAIN forwarders' : forwarders'[f].record <= logged
      <3>1. logged \in Nat
        BY DEF LogTypeOK
      <3>2. \A f \in 1..N : forwarders'[f].record <= logged
        BY <1>2 DEF HeldOnce
      <3>3. forwarders'[N + 1].record <= logged
        BY <1>2, <1>3, <3>1
      <3> QED
        BY <1>2, <3>2, <3>3
    <2>3. \A f \in DOMAIN forwarders' : \A i \in DOMAIN queue :
            queue[i] # forwarders'[f].record
      BY <1>2, <1>3, <2>1 DEF HeldOnce
    <2>4. \A f, g \in DOMAIN forwarders' : f # g /\ forwarders'[f].record # 0 =>
            forwarders'[f].record # forwarders'[g].record
      BY <1>2, <1>3 DEF HeldOnce
    <2> QED
      BY <2>2, <2>3, <2>4 DEF HeldOnce
  <1>6. PostsBehind'
    <2> SUFFICES ASSUME NEW d \in Channels, NEW i \in DOMAIN posted[d],
                        NEW f \in DOMAIN forwarders',
                        posted[d][i][1] = forwarders'[f].record
                 PROVE  posted[d][i][2] <= forwarders'[f].sent
      BY DEF PostsBehind
    <2>1. posted[d][i][1] # 0
      BY LogShapes DEF PostsBehind
    <2>2. f \in 1..N
      BY <1>2, <1>3, <2>1
    <2> QED
      BY <1>2, <2>2 DEF PostsBehind
  <1>7. PostsDiffer' /\ NoneYet'
    BY <1>2, EmptySeq DEF PostsDiffer, NoneYet
  <1>8. CASE N = 0
    <2>1. forwarders = <<>> /\ \A d \in Channels : posted[d] = <<>>
      BY <1>8, EmptySeq DEF LogTypeOK, NoneYet
    <2>2. /\ forwarders'[1] = w /\ \A d \in Channels : LastPost(d)' = <<0, 0>>
      BY <1>2, <1>8, <2>1 DEF LastPost
    <2>3. \A i \in DOMAIN queue : 0 < queue[i]
      BY LogShapes DEF QueueAscends
    <2>4. OneBehind'
      BY <1>3, <2>1, <2>2, <2>3 DEF OneBehind
    <2>5. PostedInOrder'
      BY <2>1 DEF PostedInOrder
    <2> QED
      BY <1>4, <1>5, <1>6, <1>7, <2>4, <2>5
  <1>9. CASE N # 0
    <2>1. ~(Len(forwarders') <= 1)
      BY <1>2, <1>9
    <2>2. OneBehind' /\ PostedInOrder'
      BY <1>2, <2>1 DEF OneBehind, PostedInOrder
    <2> QED
      BY <1>4, <1>5, <1>6, <1>7, <2>2
  <1> QED
    BY <1>8, <1>9

\* What a step of forwarder f leaves of the other forwarders.
LEMMA WorkerStep ==
  ASSUME LogTypeOK, NEW f \in DOMAIN forwarders, NEW w \in Workers,
         forwarders' = [forwarders EXCEPT ![f] = w]
  PROVE  /\ forwarders' \in Seq(Workers) /\ Len(forwarders') = Len(forwarders)
         /\ DOMAIN forwarders' = DOMAIN forwarders
         /\ forwarders'[f] = w
         /\ \A g \in DOMAIN forwarders : g # f => forwarders'[g] = forwarders[g]
  <1>1. f \in 1..Len(forwarders) /\ forwarders \in Seq(Workers)
    BY LogShapes DEF LogTypeOK
  <1>2. /\ forwarders' \in Seq(Workers) /\ Len(forwarders') = Len(forwarders)
        /\ \A g \in 1..Len(forwarders) :
             forwarders'[g] = IF g = f THEN w ELSE forwarders[g]
    BY <1>1, ExceptSeq
  <1> QED
    BY <1>1, <1>2, LenProperties

\* A forwarder takes the first record of the queue, which nobody else has and
\* of which nothing is posted.
LEMMA GetStep ==
  ASSUME LogIInv, NEW f \in DOMAIN forwarders, Get(f)
  PROVE  LogIInv'
  <1> USE DEF LogIInv
  <1> DEFINE N == Len(queue)
  <1>1. PICK r : r = queue[1]
    OBVIOUS
  <1>2. /\ queue # <<>> /\ queue' = Tail(queue) /\ UNCHANGED <<posted, logged>>
        /\ forwarders' = [forwarders EXCEPT ![f] = [forwarders[f] EXCEPT !.record = r,
                                                                       !.sent = 0]]
    BY <1>1 DEF Get, ofDiscord
  <1>3. /\ N \in Nat \ {0} /\ DOMAIN queue = 1..N
        /\ queue' \in Seq(Nat) /\ DOMAIN queue' = 1..N - 1
        /\ \A i \in 1..N - 1 : queue'[i] = queue[i + 1]
    BY <1>2, LogShapes, HeadTailProperties, EmptySeq, LenProperties DEF LogTypeOK
  <1>4. r \in Nat /\ r >= 1 /\ r <= logged
    <2>1. 1 \in DOMAIN queue
      BY <1>3
    <2> QED
      BY <1>1, <2>1, LogShapes DEF QueueAscends
  <1>5. PICK w : w = [forwarders[f] EXCEPT !.record = r, !.sent = 0]
    OBVIOUS
  <1>6. w \in Workers /\ w.to = forwarders[f].to /\ w.record = r /\ w.sent = 0
    BY <1>4, <1>5, LogShapes DEF Workers
  <1>7. /\ forwarders' \in Seq(Workers) /\ Len(forwarders') = Len(forwarders)
        /\ DOMAIN forwarders' = DOMAIN forwarders
        /\ forwarders'[f] = w
        /\ \A g \in DOMAIN forwarders : g # f => forwarders'[g] = forwarders[g]
    BY <1>2, <1>5, <1>6, WorkerStep
  <1>8. \A i \in DOMAIN queue' : i + 1 \in DOMAIN queue /\ queue'[i] = queue[i + 1]
                                /\ r < queue'[i]
    <2> TAKE i \in DOMAIN queue'
    <2>1. i \in 1..N - 1 /\ 1 \in 1..N /\ i + 1 \in 1..N /\ 1 < i + 1
      BY <1>3
    <2>2. 1 \in DOMAIN queue /\ i + 1 \in DOMAIN queue /\ queue'[i] = queue[i + 1]
      BY <1>3, <2>1
    <2>3. queue[1] < queue[i + 1]
      BY <2>1, <2>2 DEF QueueAscends
    <2> QED
      BY <1>1, <2>2, <2>3
  <1>9. LogTypeOK'
    BY <1>2, <1>3, <1>7 DEF LogTypeOK
  <1>10. QueueAscends'
    <2>1. \A i \in DOMAIN queue' : queue'[i] >= 1 /\ queue'[i] <= logged
      BY <1>8 DEF QueueAscends
    <2>2. \A i, j \in DOMAIN queue' : i < j => queue'[i] < queue'[j]
      BY <1>3, <1>8 DEF QueueAscends
    <2> QED
      BY <1>2, <2>1, <2>2 DEF QueueAscends
  <1>11. HeldOnce'
    <2>1. 1 \in DOMAIN queue
      BY <1>3
    <2>2. \A g \in DOMAIN forwarders : forwarders[g].record # r
      BY <1>1, <2>1 DEF HeldOnce
    <2>3. \A g \in DOMAIN forwarders : forwarders'[g].record <= logged
      BY <1>4, <1>6, <1>7 DEF HeldOnce
    <2>4. \A g \in DOMAIN forwarders : \A i \in DOMAIN queue' :
            queue'[i] # forwarders'[g].record
      <3>1. \A i \in DOMAIN queue' : queue'[i] # r
        BY <1>4, <1>8, <1>9, LogShapes
      <3> QED
        BY <1>6, <1>7, <1>8, <3>1 DEF HeldOnce
    <2>5. \A g, h \in DOMAIN forwarders : g # h /\ forwarders'[g].record # 0 =>
            forwarders'[g].record # forwarders'[h].record
      BY <1>6, <1>7, <2>2 DEF HeldOnce
    <2> QED
      BY <1>2, <1>7, <2>3, <2>4, <2>5 DEF HeldOnce
  <1>12. PostsBehind' /\ PostsDiffer'
    <2>1. \A c \in Channels : \A i \in DOMAIN posted[c] :
            /\ posted[c][i][1] # r
            /\ \A j \in DOMAIN queue' : queue'[j] # posted[c][i][1]
      BY <1>1, <1>3, <1>8 DEF PostsBehind
    <2>2. \A c \in Channels : \A i \in DOMAIN posted[c] : \A g \in DOMAIN forwarders :
            posted[c][i][1] = forwarders'[g].record =>
              posted[c][i][2] <= forwarders'[g].sent
      BY <1>6, <1>7, <2>1 DEF PostsBehind
    <2> QED
      BY <1>2, <1>7, <2>1, <2>2 DEF PostsBehind, PostsDiffer
  <1>13. NoneYet' /\ PostedInOrder'
    BY <1>2, <1>7, LogShapes, EmptySeq DEF NoneYet, PostedInOrder, LogTypeOK
  <1>14. OneBehind'
    <2> SUFFICES ASSUME Len(forwarders) = 1
                 PROVE  OneBehind'
      BY <1>7 DEF OneBehind
    <2>1. f = 1 /\ forwarders'[1] = w
      BY <1>7, LogShapes
    <2>2. w.to = forwarders[1].to /\ LastPost(w.to)' = LastPost(forwarders[1].to)
      BY <1>2, <1>6, <2>1 DEF LastPost
    <2>3. LastPost(forwarders[1].to)[1] < r
      BY <1>1, <1>3 DEF OneBehind
    <2>4. \A i \in DOMAIN queue' : LastPost(forwarders[1].to)[1] < queue'[i]
      BY <1>8 DEF OneBehind
    <2> QED
      BY <1>2, <1>6, <1>8, <2>1, <2>2, <2>3, <2>4 DEF OneBehind, LastPost
  <1> QED
    BY <1>9, <1>10, <1>11, <1>12, <1>13, <1>14

\* What a channel has of a sequence it had.
LEMMA PostStep ==
  ASSUME LogTypeOK, NEW c \in Channels, NEW x \in Nat \X Nat,
         posted' = [posted EXCEPT ![c] = Append(@, x)]
  PROVE  /\ posted' \in [Channels -> Seq(Nat \X Nat)]
         /\ \A d \in Channels : d # c => posted'[d] = posted[d]
         /\ LastPost(c)' = x
         /\ posted'[c] # <<>> /\ DOMAIN posted'[c] = 1..Len(posted[c]) + 1
         /\ \A i \in 1..Len(posted[c]) : posted'[c][i] = posted[c][i]
         /\ posted'[c][Len(posted[c]) + 1] = x
  <1> DEFINE s == posted[c]
             t == Append(s, x)
  <1>1. posted \in [Channels -> Seq(Nat \X Nat)] /\ s \in Seq(Nat \X Nat)
    BY DEF LogTypeOK
  <1>2. /\ t \in Seq(Nat \X Nat) /\ t # <<>> /\ Len(t) = Len(s) + 1
        /\ \A i \in 1..Len(s) : t[i] = s[i]
        /\ t[Len(s) + 1] = x
        /\ DOMAIN t = 1..Len(s) + 1
    BY <1>1, AppendProperties, LenProperties
  <1>3. posted' = [posted EXCEPT ![c] = t]
    OBVIOUS
  <1> HIDE DEF t
  <1>4. posted'[c] = t /\ posted' \in [Channels -> Seq(Nat \X Nat)]
        /\ \A d \in Channels : d # c => posted'[d] = posted[d]
    BY <1>1, <1>2, <1>3
  <1> QED
    BY <1>2, <1>4 DEF LastPost

\* A forwarder posts the next chunk of its record.
LEMMA SendStep ==
  ASSUME LogIInv, NEW f \in DOMAIN forwarders, Send(f)
  PROVE  LogIInv'
  <1> USE DEF LogIInv
  <1>1. PICK w \in Workers : w = forwarders[f]
    BY LogShapes
  <1>2. /\ w.to \in Channels /\ w.record \in Nat /\ w.sent \in Nat
        /\ w.record >= 1 /\ w.record <= logged
    BY <1>1 DEF Send, HeldOnce, Workers
  <1>3. PICK x : x = <<w.record, w.sent + 1>>
    OBVIOUS
  <1>4. /\ posted' = [posted EXCEPT ![w.to] = Append(@, x)]
        /\ UNCHANGED <<queue, logged>>
    BY <1>1, <1>3 DEF Send, ofQueue
  <1>5. PICK v \in Workers :
          /\ forwarders' = [forwarders EXCEPT ![f] = v]
          /\ v.to = w.to
          /\ \/ v.record = 0
             \/ v.record = w.record /\ v.sent = w.sent + 1
    <2>1. \/ forwarders' = [forwarders EXCEPT ![f] = Waiting(w)]
          \/ forwarders' = [forwarders EXCEPT ![f] = [w EXCEPT !.sent = w.sent + 1]]
      BY <1>1 DEF Send
    <2>2. Waiting(w) \in Workers /\ Waiting(w).to = w.to /\ Waiting(w).record = 0
      BY DEF Waiting, Workers
    <2>3. PICK u : u = [w EXCEPT !.sent = w.sent + 1]
      OBVIOUS
    <2>4. u \in Workers /\ u.to = w.to /\ u.record = w.record /\ u.sent = w.sent + 1
      BY <1>2, <2>3 DEF Workers
    <2> QED
      BY <2>1, <2>2, <2>3, <2>4
  <1>6. /\ forwarders' \in Seq(Workers) /\ Len(forwarders') = Len(forwarders)
        /\ DOMAIN forwarders' = DOMAIN forwarders
        /\ forwarders'[f] = v
        /\ \A g \in DOMAIN forwarders : g # f => forwarders'[g] = forwarders[g]
    BY <1>5, WorkerStep
  <1> DEFINE c == w.to
             N == Len(posted[c])
  <1>7. /\ posted' \in [Channels -> Seq(Nat \X Nat)]
        /\ \A d \in Channels : d # c => posted'[d] = posted[d]
        /\ LastPost(c)' = x
        /\ posted'[c] # <<>> /\ DOMAIN posted'[c] = 1..N + 1
        /\ \A i \in 1..N : posted'[c][i] = posted[c][i]
        /\ posted'[c][N + 1] = x
    <2>1. x \in Nat \X Nat
      BY <1>2, <1>3
    <2> HIDE DEF c
    <2> QED
      BY <1>2, <1>4, <2>1, PostStep DEF c
  <1>8. N \in Nat /\ DOMAIN posted[c] = 1..N
    BY <1>2, LogShapes
  <1> HIDE DEF c, N
  <1>9. \A d \in Channels : \A i \in DOMAIN posted'[d] :
          \/ i \in DOMAIN posted[d] /\ posted'[d][i] = posted[d][i]
          \/ d = c /\ i = N + 1 /\ posted'[d][i] = x
    <2> TAKE d \in Channels
    <2> TAKE i \in DOMAIN posted'[d]
    <2>1. CASE d # c
      BY <1>7, <2>1
    <2>2. CASE d = c
      <3>1. i \in 1..N \/ i = N + 1
        BY <1>7, <1>8, <2>2
      <3> QED
        BY <1>7, <1>8, <2>2, <3>1
    <2> QED
      BY <2>1, <2>2
  <1>10. x[1] = w.record /\ x[2] = w.sent + 1
    BY <1>3
  <1>11. LogTypeOK' /\ QueueAscends'
    BY <1>4, <1>6, <1>7 DEF LogTypeOK, QueueAscends
  <1>12. HeldOnce'
    <2>1. \A g \in DOMAIN forwarders :
            \/ forwarders'[g].record = forwarders[g].record
            \/ g = f /\ forwarders'[g].record = 0
      BY <1>1, <1>5, <1>6
    <2>2. logged >= 0 /\ \A i \in DOMAIN queue : queue[i] # 0
      BY LogShapes DEF QueueAscends, LogTypeOK
    <2>3. \A g \in DOMAIN forwarders :
            /\ forwarders'[g].record <= logged
            /\ \A i \in DOMAIN queue : queue[i] # forwarders'[g].record
      BY <2>1, <2>2 DEF HeldOnce
    <2>4. \A g, h \in DOMAIN forwarders : g # h /\ forwarders'[g].record # 0 =>
            forwarders'[g].record # forwarders'[h].record
      BY <2>1 DEF HeldOnce
    <2> QED
      BY <1>4, <1>6, <2>3, <2>4 DEF HeldOnce
  <1>13. PostsBehind'
    <2>1. \A i \in DOMAIN queue : queue[i] # w.record
      BY <1>1 DEF HeldOnce
    <2>2. \A d \in Channels : \A i \in DOMAIN posted'[d] :
            /\ posted'[d][i][1] >= 1 /\ posted'[d][i][1] <= logged
            /\ \A j \in DOMAIN queue : queue[j] # posted'[d][i][1]
      BY <1>2, <1>9, <1>10, <2>1 DEF PostsBehind
    <2>3. ASSUME NEW d \in Channels, NEW i \in DOMAIN posted'[d],
                 NEW g \in DOMAIN forwarders,
                 posted'[d][i][1] = forwarders'[g].record
          PROVE  posted'[d][i][2] <= forwarders'[g].sent
      <3>1. forwarders'[g].record >= 1
        BY <2>2, <2>3
      <3>2. CASE i \in DOMAIN posted[d] /\ posted'[d][i] = posted[d][i]
        <4>1. CASE g = f
          <5>1. v.record = w.record /\ v.sent = w.sent + 1
            BY <1>5, <1>6, <3>1, <4>1
          <5>2. posted[d][i][2] <= w.sent /\ posted[d][i][2] \in Nat
            BY <1>1, <1>6, <2>3, <3>2, <4>1, <5>1, LogShapes DEF PostsBehind
          <5> QED
            BY <1>2, <1>6, <3>2, <4>1, <5>1, <5>2
        <4>2. CASE g # f
          BY <1>6, <2>3, <3>2, <4>2 DEF PostsBehind
        <4> QED
          BY <4>1, <4>2
      <3>3. CASE posted'[d][i] = x
        <4>1. g = f
          <5>1. SUFFICES ASSUME g # f
                         PROVE  FALSE
            OBVIOUS
          <5>2. forwarders[g].record = w.record
            BY <1>6, <1>10, <2>3, <3>3, <5>1
          <5> QED
            BY <1>1, <1>2, <5>1, <5>2 DEF HeldOnce
        <4>2. v.record = w.record /\ v.sent = w.sent + 1
          BY <1>5, <1>6, <3>1, <4>1
        <4> QED
          BY <1>2, <1>6, <1>10, <3>3, <4>1, <4>2
      <3> QED
        BY <1>9, <3>2, <3>3
    <2> QED
      BY <1>4, <1>6, <2>2, <2>3 DEF PostsBehind
  <1>14. PostsDiffer'
    <2>1. \A d \in Channels : \A i \in DOMAIN posted[d] : posted[d][i] # x
      <3>1. SUFFICES ASSUME NEW d \in Channels, NEW i \in DOMAIN posted[d],
                            posted[d][i] = x
                     PROVE  FALSE
        OBVIOUS
      <3>2. x[2] <= w.sent
        BY <1>1, <1>10, <3>1 DEF PostsBehind
      <3> QED
        BY <1>2, <1>10, <3>2
    <2> QED
      BY <1>9, <2>1 DEF PostsDiffer
  <1>15. NoneYet'
    <2>1. forwarders' # <<>>
      BY <1>6
    <2> QED
      BY <2>1 DEF NoneYet
  <1>16. ASSUME Len(forwarders) = 1
         PROVE  OneBehind' /\ PostedInOrder'
    <2>1. f = 1 /\ w = forwarders[1] /\ forwarders'[1] = v
      BY <1>1, <1>6, <1>16, LogShapes
    <2>2. /\ \A d \in Channels : d # c => posted[d] = <<>>
          /\ \A i \in DOMAIN queue : w.record < queue[i] /\ LastPost(c)[1] < queue[i]
          /\ \/ w.sent = 0 /\ LastPost(c)[1] < w.record
             \/ w.sent > 0 /\ LastPost(c) = <<w.record, w.sent>>
      BY <1>2, <1>16, <2>1 DEF OneBehind, c
    <2>3. OneBehind'
      <3>1. v.to = c /\ LastPost(v.to)' = x
        BY <1>5, <1>7 DEF c, LastPost
      <3>2. \A d \in Channels : d # v.to => posted'[d] = <<>>
        BY <1>7, <2>2, <3>1
      <3>3. \A i \in DOMAIN queue : v.record < queue[i] /\ x[1] < queue[i]
        <4>1. \A i \in DOMAIN queue : queue[i] \in Nat /\ queue[i] >= 1
          BY LogShapes DEF QueueAscends
        <4> QED
          BY <1>5, <1>10, <2>2, <4>1
      <3>4. v.record # 0 => v.sent > 0 /\ x = <<v.record, v.sent>>
        BY <1>2, <1>3, <1>5
      <3> QED
        BY <1>4, <2>1, <3>1, <3>2, <3>3, <3>4 DEF OneBehind, LastPost
    <2>4. PostedInOrder'
      <3> SUFFICES ASSUME NEW d \in Channels, NEW i \in DOMAIN posted'[d]
                   PROVE  LET this == posted'[d][i]
                              last == IF i = 1 THEN <<0, 0>> ELSE posted'[d][i - 1]
                          IN  \/ this[1] > last[1] /\ this[2] = 1
                              \/ this[1] = last[1] /\ this[2] = last[2] + 1
        BY DEF PostedInOrder
      <3>1. d = c
        BY <1>9, <2>2
      <3>2. CASE i \in 1..N
        <4>1. /\ posted'[d][i] = posted[d][i]
              /\ i # 1 => posted'[d][i - 1] = posted[d][i - 1]
          <5>1. i # 1 => i - 1 \in 1..N
            BY <1>8, <3>2
          <5> QED
            BY <1>7, <3>1, <3>2, <5>1
        <4>2. Len(forwarders) <= 1 /\ i \in DOMAIN posted[d]
          BY <1>8, <1>16, <3>1, <3>2
        <4> QED
          BY <4>1, <4>2 DEF PostedInOrder
      <3>3. CASE i = N + 1
        <4>1. (IF i = 1 THEN <<0, 0>> ELSE posted'[d][i - 1]) = LastPost(c)
          <5>1. CASE N = 0
            BY <1>2, <1>8, <3>1, <3>3, <5>1, LogShapes, EmptySeq DEF LastPost, N, c
          <5>2. CASE N # 0
            <6>1. posted[c] # <<>>
              BY <1>8, <5>2
            <6>2. i # 1 /\ i - 1 = N /\ N \in 1..N
              BY <1>8, <3>3, <5>2
            <6> QED
              BY <1>7, <3>1, <6>1, <6>2 DEF LastPost, N
          <5> QED
            BY <5>1, <5>2
        <4>2. posted'[d][i] = x
          BY <1>7, <3>1, <3>3
        <4>3. \/ x[1] > LastPost(c)[1] /\ x[2] = 1
              \/ x[1] = LastPost(c)[1] /\ x[2] = LastPost(c)[2] + 1
          BY <1>2, <1>10, <2>2
        <4> QED
          BY <4>1, <4>2, <4>3
      <3> QED
        BY <1>7, <1>8, <3>1, <3>2, <3>3
    <2> QED
      BY <2>3, <2>4
  <1>17. ASSUME Len(forwarders) # 1
         PROVE  OneBehind' /\ PostedInOrder'
    <2>1. Len(forwarders') # 1 /\ ~(Len(forwarders') <= 1)
      BY <1>6, <1>17, LogShapes
    <2> QED
      BY <2>1 DEF OneBehind, PostedInOrder
  <1> QED
    BY <1>11, <1>12, <1>13, <1>14, <1>15, <1>16, <1>17

\* A forwarder that drops its record has empty hands.
LEMMA DropStep ==
  ASSUME LogIInv, NEW f \in DOMAIN forwarders, SendRaises(f)
  PROVE  LogIInv'
  <1> USE DEF LogIInv
  <1>1. PICK w \in Workers : w = forwarders[f]
    BY LogShapes
  <1>2. PICK v : v = Waiting(w)
    OBVIOUS
  <1>3. v \in Workers /\ v.to = w.to /\ v.record = 0 /\ v.sent = 0
    BY <1>2 DEF Waiting, Workers
  <1>4. /\ forwarders' = [forwarders EXCEPT ![f] = v]
        /\ UNCHANGED <<queue, logged, posted>>
    BY <1>1, <1>2 DEF SendRaises, Drops, ofQueue, ofDiscord
  <1>5. /\ forwarders' \in Seq(Workers) /\ Len(forwarders') = Len(forwarders)
        /\ DOMAIN forwarders' = DOMAIN forwarders
        /\ forwarders'[f] = v
        /\ \A g \in DOMAIN forwarders : g # f => forwarders'[g] = forwarders[g]
    BY <1>3, <1>4, WorkerStep
  <1>6. \A i \in DOMAIN queue : queue[i] \in Nat /\ queue[i] >= 1
    BY LogShapes DEF QueueAscends
  <1>7. LogTypeOK' /\ QueueAscends' /\ PostsDiffer'
    BY <1>4, <1>5 DEF LogTypeOK, QueueAscends, PostsDiffer
  <1>8. HeldOnce'
    <2>1. logged >= 0
      BY DEF LogTypeOK
    <2>2. \A g \in DOMAIN forwarders :
            /\ forwarders'[g].record <= logged
            /\ \A i \in DOMAIN queue : queue[i] # forwarders'[g].record
      BY <1>3, <1>5, <1>6, <2>1 DEF HeldOnce
    <2>3. \A g, h \in DOMAIN forwarders : g # h /\ forwarders'[g].record # 0 =>
            forwarders'[g].record # forwarders'[h].record
      BY <1>3, <1>5 DEF HeldOnce
    <2> QED
      BY <1>4, <1>5, <2>2, <2>3 DEF HeldOnce
  <1>9. PostsBehind'
    <2>1. ASSUME NEW c \in Channels, NEW i \in DOMAIN posted[c], NEW g \in DOMAIN forwarders,
                 posted[c][i][1] = forwarders'[g].record
          PROVE  posted[c][i][2] <= forwarders'[g].sent
      <3>1. posted[c][i][1] >= 1
        BY DEF PostsBehind
      <3>2. g # f
        BY <1>3, <1>5, <2>1, <3>1
      <3> QED
        BY <1>5, <2>1, <3>2 DEF PostsBehind
    <2> QED
      BY <1>4, <1>5, <2>1 DEF PostsBehind
  <1>10. NoneYet' /\ PostedInOrder'
    BY <1>4, <1>5, LogShapes, EmptySeq DEF NoneYet, PostedInOrder
  <1>11. OneBehind'
    <2> SUFFICES ASSUME Len(forwarders) = 1
                 PROVE  OneBehind'
      BY <1>5 DEF OneBehind
    <2>1. f = 1 /\ w = forwarders[1] /\ forwarders'[1] = v
      BY <1>1, <1>5, LogShapes
    <2>2. /\ \A c \in Channels : c # v.to => posted[c] = <<>>
          /\ \A i \in DOMAIN queue : v.record < queue[i] /\ LastPost(v.to)[1] < queue[i]
      BY <1>3, <1>6, <2>1 DEF OneBehind
    <2>3. LastPost(v.to)' = LastPost(v.to)
      BY <1>4 DEF LastPost
    <2> QED
      BY <1>3, <1>4, <2>1, <2>2, <2>3 DEF OneBehind, LastPost
  <1> QED
    BY <1>7, <1>8, <1>9, <1>10, <1>11

\* The other steps are about the channel, not the records.
LEMMA QuietStep ==
  ASSUME LogIInv, UNCHANGED <<queue, logged, forwarders, posted>>
  PROVE  LogIInv'
  BY DEF LogIInv, LogTypeOK, QueueAscends, HeldOnce, PostsBehind, PostsDiffer, NoneYet,
         OneBehind, LastPost, PostedInOrder

LEMMA LogNextIInv == LogIInv /\ [Next]_vars => LogIInv'
  <1> SUFFICES ASSUME LogIInv, [Next]_vars
               PROVE  LogIInv'
    OBVIOUS
  <1>1. ASSUME NEW t \in Triggers, Begin(t)
        PROVE  LogIInv'
    <2>1. CASE NoGuild(t) \/ NotAllowed(t) \/ Ask(t)
      BY <2>1, QuietStep DEF NoGuild, NotAllowed, Ask, ofDiscord, ofQueue
    <2>2. CASE UseChannel(t)
      BY <2>2, ForwardStep DEF UseChannel, Open, ofDiscord, ofQueue
    <2> QED
      BY <1>1, <2>1, <2>2 DEF Begin
  <1>2. ASSUME NEW t \in Triggers, Answer(t)
        PROVE  LogIInv'
    <2>1. CASE Make(t) \/ CreateRaises(t)
      BY <2>1, QuietStep DEF Make, CreateRaises, ofDiscord, ofQueue
    <2>2. CASE Made(t)
      BY <2>2, ForwardStep DEF Made, ofDiscord, ofQueue
    <2> QED
      BY <1>2, <2>1, <2>2 DEF Answer
  <1>3. ASSUME NEW f \in DOMAIN forwarders, Forwarder(f)
        PROVE  LogIInv'
    BY <1>3, GetStep, SendStep, DropStep DEF Forwarder
  <1>4. ASSUME NEW c \in Channels, Delete(c)
        PROVE  LogIInv'
    BY <1>4, QuietStep DEF Delete, ofQueue
  <1>5. CASE UNCHANGED vars
    BY <1>5, QuietStep DEF vars
  <1> QED
    BY <1>1, <1>2, <1>3, <1>4, <1>5, EmitStep DEF Next

LEMMA LogInvariance == Spec => []LogIInv
  BY LogInitIInv, LogNextIInv, PTL DEF Spec

\* ensure_debug_log_forwarding and debug_log_forwarder_loop: whoever enters
\* the former while whoever else waits for Discord, no record is posted twice.
THEOREM NothingPostedTwice == Spec => []PostedOnce
  <1>1. ASSUME LogIInv
        PROVE  PostedOnce
    <2>1. LogTypeOK /\ QueueAscends /\ HeldOnce /\ PostsBehind /\ PostsDiffer
      BY <1>1 DEF LogIInv
    <2>2. IsInjective(queue)
      <3> SUFFICES ASSUME NEW i \in DOMAIN queue, NEW j \in DOMAIN queue,
                          queue[i] = queue[j]
                   PROVE  i = j
        BY DEF IsInjective
      <3>1. i \in Nat /\ j \in Nat /\ queue[i] \in Nat
        BY <2>1, LogShapes
      <3>2. ~(i < j) /\ ~(j < i)
        BY <2>1, <3>1 DEF QueueAscends
      <3> QED
        BY <3>1, <3>2
    <2>3. \A x : (\A i \in DOMAIN queue : queue[i] # x) => x \notin Range(queue)
      BY DEF Range
    <2>4. \A f, g \in DOMAIN forwarders :
            f # g /\ forwarders[f].record # 0 => forwarders[f].record # forwarders[g].record
      BY <2>1 DEF HeldOnce
    <2>5. \A f \in DOMAIN forwarders : forwarders[f].record \notin Range(queue)
      BY <2>1, <2>3 DEF HeldOnce
    <2>6. \A c, d \in Channels : \A i \in DOMAIN posted[c], j \in DOMAIN posted[d] :
            /\ posted[c][i][1] \notin Range(queue)
            /\ posted[c][i] = posted[d][j] => c = d /\ i = j
      BY <2>1, <2>3 DEF PostsBehind, PostsDiffer
    <2> QED
      BY <2>2, <2>4, <2>5, <2>6 DEF PostedOnce
  <1> QED
    BY <1>1, LogInvariance, PTL

\* debug_log_forwarder_loop: while one forwarder runs, its channel shows the
\* records in the log's order and their chunks in order, with none before
\* the chunks before it.
THEOREM PostsInLogOrder == Spec => []PostedInOrder
  <1>1. LogIInv => PostedInOrder
    BY DEF LogIInv
  <1> QED
    BY <1>1, LogInvariance, PTL
=============================================================================
