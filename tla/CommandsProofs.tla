--------------------------- MODULE CommandsProofs ---------------------------
(***************************************************************************)
(* Proofs about the parts of the /staffninja group that keep state between *)
(* interactions: the linking of accounts, for any users, accounts, codes   *)
(* and commands in flight, any limit of attempts and any failures; and the *)
(* mailing lists, for any groups, callbacks and failures.                  *)
(***************************************************************************)
EXTENDS AccountLink, MCMailingList, TLAPS

-----------------------------------------------------------------------------
(* The linking of accounts *)

\* A command mails or stores its challenge, answers one, or has answered it.
Sending(c)   == pc[c] \in {"mailing", "storing"}
Answering(c) == pc[c] \in {"updating", "linked", "refused"}
Succeeded(c) == told[c] = "linked"
Concerned(c) == Sending(c) \/ Answering(c) \/ Succeeded(c)

\* Whatever is mailed, pending or worked on was drawn for an account.
DrawnFirst ==
  /\ \A c \in Commands : Concerned(c) => /\ user[c] \in Users
                                         /\ subject[c] \in Challenges
                                         /\ ~Fresh(subject[c])
  /\ \A u \in Users : pending[u] # Nobody => ~Fresh(pending[u])
  /\ \A ch \in mailed : ~Fresh(ch)
  /\ \A ch \in Challenges : Fresh(ch) => attempts[ch] = 0

\* A challenge that has not been stored yet belongs to one command alone.
StoredOnce ==
  \A c \in Commands : Sending(c) =>
    /\ attempts[subject[c]] = 0
    /\ \A u \in Users : pending[u] # subject[c]
    /\ \A d \in Commands : d # c /\ Concerned(d) => subject[d] # subject[c]

\* No two users are asked for the same code.
PendingOnce ==
  \A u, v \in Users : pending[u] # Nobody /\ pending[u] = pending[v] => u = v

\* Who passed the check of the code reads the mail of the account.
AnsweredByReader ==
  \A c \in Commands : Answering(c) => Mailbox[account[subject[c]]] = user[c]

\* What the result tag said is still so.
LinkedIsTrue ==
  \A c \in Commands : pc[c] = "linked" => discord[account[subject[c]]] = user[c]

IInv == /\ TypeOK
        /\ DrawnFirst /\ StoredOnce /\ PendingOnce /\ AnsweredByReader /\ LinkedIsTrue
        /\ PendingHasAttemptsLeft /\ LinkedByMailboxReader
        /\ SuccessIsTrue /\ UsedChallengeIsForgotten

\* Nothing is drawn, pending or linked by the bot at the start.
LEMMA InitInv == Init => IInv
  BY LinkAssumption
  DEF Init, IInv, TypeOK, DrawnFirst, StoredOnce, PendingOnce, AnsweredByReader,
      LinkedIsTrue, PendingHasAttemptsLeft, LinkedByMailboxReader, SuccessIsTrue,
      UsedChallengeIsForgotten, Sending, Answering, Succeeded, Concerned, Fresh

\* One step of a command, of time, of the staff site or of the process.
LEMMA StepInv == IInv /\ [Next]_vars => IInv'
<1> SUFFICES ASSUME IInv, [Next]_vars PROVE IInv'
  OBVIOUS
<1> USE LinkAssumption
    DEF IInv, TypeOK, DrawnFirst, StoredOnce, PendingOnce, AnsweredByReader,
        LinkedIsTrue, PendingHasAttemptsLeft, LinkedByMailboxReader, SuccessIsTrue,
        UsedChallengeIsForgotten, Sending, Answering, Succeeded, Concerned, Fresh
<1>1. ASSUME NEW c \in Commands, NEW u \in Users, NEW a \in Accounts, LinkLookup(c, u, a)
      PROVE  IInv'
  BY <1>1 DEF LinkLookup, Go
<1>2. ASSUME NEW c \in Commands, LinkMailed(c) PROVE IInv'
  BY <1>2 DEF LinkMailed
<1>3. ASSUME NEW c \in Commands, LinkMailRaises(c) PROVE IInv'
  BY <1>3 DEF LinkMailRaises, End
<1>4. ASSUME NEW c \in Commands, LinkStore(c) PROVE IInv'
  BY <1>4 DEF LinkStore, End
<1>5. ASSUME NEW c \in Commands, NEW u \in Users, VerifyExpired(c, u) PROVE IInv'
  BY <1>5 DEF VerifyExpired, Drop, command
<1>6. ASSUME NEW c \in Commands, NEW u \in Users, VerifyWrong(c, u) PROVE IInv'
  BY <1>6 DEF VerifyWrong, Drop, command, IsExhausted
<1>7. ASSUME NEW c \in Commands, NEW u \in Users, VerifyRight(c, u) PROVE IInv'
  BY <1>7 DEF VerifyRight, Go, Known, CodeMatches
<1>8. ASSUME NEW c \in Commands, UpdateLink(c) PROVE IInv'
  BY <1>8 DEF UpdateLink, LinkRow, MayLink, Outcome
<1>9. ASSUME NEW c \in Commands, UpdateRaises(c) PROVE IInv'
  BY <1>9 DEF UpdateRaises, LinkRow, MayLink, End
<1>10. ASSUME NEW c \in Commands, VerifyEnds(c) PROVE IInv'
  BY <1>10 DEF VerifyEnds, PopOwn, Drop, End
<1>11. ASSUME NEW ch \in Challenges, Expire(ch) PROVE IInv'
  BY <1>11 DEF Expire, command
<1>12. ASSUME NEW a \in Accounts, LinkedElsewhere(a) PROVE IInv'
  BY <1>12 DEF LinkedElsewhere, command
<1>13. CASE Restart
  BY <1>13 DEF Restart
<1>14. CASE UNCHANGED vars
  BY <1>14 DEF vars, command
<1> QED
  BY <1>1, <1>2, <1>3, <1>4, <1>5, <1>6, <1>7, <1>8, <1>9, <1>10, <1>11, <1>12,
     <1>13, <1>14 DEF Next, CommandStep

\* The inductive invariant holds from the start.
THEOREM Invariance == Spec => []IInv
  BY InitInv, StepInv, PTL DEF Spec

\* Every reachable state of the challenges and commands is well typed.
THEOREM TypeCorrect == Spec => []TypeOK
<1>1. IInv => TypeOK
  BY DEF IInv
<1> QED
  BY <1>1, Invariance, PTL

\* update_user_discord_link: only who reads the mail of an account is ever
\* written into its row by the bot.
THEOREM LinkedByReader == Spec => []LinkedByMailboxReader
<1>1. IInv => LinkedByMailboxReader
  BY DEF IInv
<1> QED
  BY <1>1, Invariance, PTL

\* The answer "linked successfully" stays true, whoever else links.
THEOREM SuccessStaysTrue == Spec => []SuccessIsTrue
<1>1. IInv => SuccessIsTrue
  BY DEF IInv
<1> QED
  BY <1>1, Invariance, PTL

\* A pending challenge has attempts left, whatever verify commands ran.
THEOREM AttemptsLeft == Spec => []PendingHasAttemptsLeft
<1>1. IInv => PendingHasAttemptsLeft
  BY DEF IInv
<1> QED
  BY <1>1, Invariance, PTL

\* verify pops what is stored by then: the challenge it used is not pending
\* any more, and is not stored again.
THEOREM UsedIsForgotten == Spec => []UsedChallengeIsForgotten
<1>1. IInv => UsedChallengeIsForgotten
  BY DEF IInv
<1> QED
  BY <1>1, Invariance, PTL

\* Only the two UPDATEs and the staff site write the column, each on a row
\* that is not linked.
LEMMA StepKeepsLinks ==
  TypeOK /\ [Next]_vars =>
    (\A a \in Accounts : discord[a] # Nobody => discord'[a] = discord[a])
<1> SUFFICES ASSUME TypeOK, [Next]_vars, NEW a \in Accounts, discord[a] # Nobody
             PROVE  discord'[a] = discord[a]
  OBVIOUS
<1>1. ASSUME NEW c \in Commands, LinkRow(c) PROVE discord'[a] = discord[a]
  BY <1>1 DEF LinkRow, MayLink, TypeOK
<1>2. ASSUME NEW b \in Accounts, LinkedElsewhere(b) PROVE discord'[a] = discord[a]
  BY <1>2 DEF LinkedElsewhere, TypeOK
<1> QED
  BY <1>1, <1>2
  DEF Next, CommandStep, vars, command, LinkLookup, LinkMailed, LinkMailRaises,
      LinkStore, VerifyExpired, VerifyWrong, VerifyRight, UpdateLink, UpdateRaises,
      VerifyEnds, Expire, Restart

\* A link, once written, is never written over.
THEOREM LinksStay == Spec => LinkNotOverwritten
<1>1. TypeOK /\ [Next]_vars =>
        [\A a \in Accounts : discord[a] # Nobody => discord'[a] = discord[a]]_vars
  BY StepKeepsLinks
<1> QED
  BY <1>1, TypeCorrect, PTL DEF Spec, LinkNotOverwritten

-----------------------------------------------------------------------------
(* The mailing lists *)

Asking(c) == call[c].pc \in {"asked", "answered"}

CallStates == [pc: {"idle", "loop", "asked", "answered", "told", "aborted"},
               kind: {"sub", "unsub"}, todo: SUBSET Groups,
               now: Groups \cup {None}, ok: SUBSET Groups]

ListTypeOK ==
  /\ member \in SUBSET Groups /\ known \in SUBSET Groups /\ shown \in SUBSET Groups
  /\ view \in {"none", "listed", "open", "failed"}
  /\ call \in [Calls -> CallStates]
  /\ done \in [Calls -> SUBSET Groups] /\ alone \in BOOLEAN

\* What the menus offer, the view keeps and a callback works on is what the
\* user may see, and to leave, what is not protected.
WithinReach ==
  /\ view = "open" => known \subseteq Visible /\ shown \subseteq Visible
  /\ \A c \in Calls :
       /\ Active(c) => view = "open" /\ call[c].todo \subseteq Visible
       /\ Asking(c) => /\ call[c].now \in Visible
                       /\ call[c].kind = "unsub" => call[c].now \notin Protected

\* What Google answered was so.
AnswerIsReal ==
  \A c \in Calls : call[c].pc = "answered" => call[c].now \in done[c]

\* Alone, a callback has the view's list one answer behind Google.
Unanswered == \A c \in Calls : call[c].pc # "answered"
NotesCurrent ==
  alone =>
    /\ \A c, d \in Calls : Active(c) /\ Active(d) => c = d
    /\ view = "listed" => known = member
    /\ view = "open" /\ Unanswered => known = member \cap Visible
    /\ \A c \in Calls : call[c].pc = "answered" => Notes(c) = member \cap Visible
    /\ Told => shown = known

ListIInv == ListTypeOK /\ WithinReach /\ SuccessIsReal /\ AnswerIsReal /\ NotesCurrent

LEMMA ListInitIInv == ToldInit => ListIInv
  <1> SUFFICES ASSUME ToldInit
               PROVE  ListIInv
    OBVIOUS
  <1>1. ListTypeOK
    BY DEF ToldInit, ListInit, ListTypeOK, CallStates, NoCall
  <1>2. WithinReach
    BY DEF ToldInit, ListInit, WithinReach, NoCall, Active, Asking
  <1>3. SuccessIsReal /\ AnswerIsReal
    BY DEF ToldInit, ListInit, SuccessIsReal, AnswerIsReal, NoCall
  <1>4. NotesCurrent
    BY DEF ToldInit, ListInit, NotesCurrent, NoCall, Active, Told
  <1> QED
    BY <1>1, <1>2, <1>3, <1>4 DEF ListIInv

\* What a callback asks for is a group the user may see, and a group.
LEMMA AskedGroups ==
  ASSUME ListTypeOK, WithinReach
  PROVE  /\ Visible \subseteq Groups
         /\ \A c \in Calls : Asking(c) => /\ call[c].now \in Groups
                                         /\ Changed(c) \in SUBSET Groups
                                         /\ Notes(c) \in SUBSET Groups
  <1>1. Visible \subseteq Groups
    BY MailingListAssumption DEF Visible
  <1>2. ASSUME NEW c \in Calls, Asking(c)
        PROVE  call[c].now \in Groups
    BY <1>1, <1>2 DEF WithinReach
  <1> QED
    BY <1>1, <1>2 DEF ListTypeOK, Changed, Notes

\* A callback leaves a protected group out, or asks Google for the group.
Without(c, g) == [call[c] EXCEPT !.todo = @ \ {g}]
LEMMA AskOrDrop ==
  ASSUME NEW c \in Calls, Ask(c)
  PROVE  \E g \in call[c].todo :
           \/ call' = [call EXCEPT ![c] = Without(c, g)]
           \/ /\ call' = [call EXCEPT ![c] = [Without(c, g) EXCEPT !.pc = "asked", !.now = g]]
              /\ ~(call[c].kind = "unsub" /\ g \in Protected)
  BY Zenon DEF Ask, Become, Without, IsProtected

\* Each step of the view, its callbacks or the administrators is well typed.
LEMMA ListStepTypeOK ==
  ASSUME ListTypeOK, WithinReach, ToldNext
  PROVE  ListTypeOK'
  <1> USE DEF ListTypeOK, CallStates
  <1>1. Visible \subseteq Groups
    BY AskedGroups
  <1>2. done' \in [Calls -> SUBSET Groups] /\ alone' \in BOOLEAN
    <2>1. done' \in [Calls -> SUBSET Groups]
      BY DEF ToldNext
    <2>2. alone' \in BOOLEAN
      BY Zenon DEF ToldNext
    <2> QED
      BY <2>1, <2>2
  <1>3. CASE List \/ ListRaises \/ Show \/ Administer
    BY <1>2, <1>3 DEF List, ListRaises, Show, Administer, Filter
  <1>4. ASSUME NEW c \in Calls, Choose(c)
        PROVE  ListTypeOK'
    <2>0. PICK kind \in {"sub", "unsub"} : \E chosen \in SUBSET Options(kind) :
            Become(c, [NoCall EXCEPT !.pc = "loop", !.kind = kind, !.todo = chosen])
      BY <1>4 DEF Choose
    <2>1. PICK chosen \in SUBSET Options(kind) :
            call' = [call EXCEPT ![c] = [NoCall EXCEPT !.pc = "loop", !.kind = kind,
                                                       !.todo = chosen]]
      BY <2>0 DEF Become
    <2>2. chosen \subseteq Groups
      BY <1>1 DEF Options
    <2> QED
      BY <1>2, <1>4, <2>1, <2>2 DEF Choose, NoCall
  <1>5. ASSUME NEW c \in Calls, Ask(c)
        PROVE  ListTypeOK'
    <2>1. PICK g \in call[c].todo :
            \/ call' = [call EXCEPT ![c] = Without(c, g)]
            \/ call' = [call EXCEPT ![c] = [Without(c, g) EXCEPT !.pc = "asked", !.now = g]]
      BY <1>5, AskOrDrop
    <2>2. /\ Without(c, g) \in CallStates
          /\ [Without(c, g) EXCEPT !.pc = "asked", !.now = g] \in CallStates
      <3>1. call[c] \in CallStates /\ g \in Groups
        BY <2>1
      <3>2. Without(c, g) \in CallStates
        BY <3>1 DEF Without
      <3> QED
        BY <3>1, <3>2
    <2>3. call' \in [Calls -> CallStates]
      BY <2>1, <2>2
    <2> QED
      BY <1>2, <1>5, <2>3 DEF Ask
  <1>6. ASSUME NEW c \in Calls, Serve(c) \/ Break(c)
        PROVE  ListTypeOK'
    <2>1. Asking(c)
      BY <1>6 DEF Serve, Break, Asking
    <2>2. member' \in SUBSET Groups
      BY <1>6, <2>1, AskedGroups DEF Serve, Break
    <2> QED
      BY <1>2, <1>6, <2>2 DEF Serve, Break, Become
  <1>7. ASSUME NEW c \in Calls, Resume(c)
        PROVE  ListTypeOK'
    <2>1. Asking(c)
      BY <1>7 DEF Resume, Asking
    <2>2. known' \in SUBSET Groups /\ call[c].now \in Groups
      BY <1>7, <2>1, AskedGroups DEF Resume
    <2>3. [call[c] EXCEPT !.pc = "loop", !.now = None, !.ok = @ \cup {call[c].now}]
            \in CallStates
      BY <2>2
    <2>4. call' \in [Calls -> CallStates]
      BY <1>7, <2>3 DEF Resume, Become
    <2> QED
      BY <1>2, <1>7, <2>2, <2>4 DEF Resume
  <1>8. ASSUME NEW c \in Calls, Refuse(c)
        PROVE  ListTypeOK'
    <2>1. Asking(c)
      BY <1>8 DEF Refuse, Asking
    <2>2. member' \in SUBSET Groups
      BY <1>8, <2>1, AskedGroups DEF Refuse
    <2> QED
      BY <1>2, <1>8, <2>2 DEF Refuse, Failed, Become
  <1>9. ASSUME NEW c \in Calls, Edit(c) \/ EditRaises(c)
        PROVE  ListTypeOK'
    BY <1>2, <1>9 DEF Edit, EditRaises, Become
  <1> QED
    BY <1>3, <1>4, <1>5, <1>6, <1>7, <1>8, <1>9 DEF ToldNext, ListNext, Callback

\* A callback starts from the menus, works on what it was given, and adds no
\* group that the user may not see to the view.
LEMMA ListStepWithinReach ==
  ASSUME ListTypeOK, WithinReach, ToldNext
  PROVE  WithinReach'
  <1> USE DEF CallStates, WithinReach, Active, Asking
  <1>1. /\ call \in [Calls -> CallStates]
        /\ known \subseteq Groups /\ shown \subseteq Groups
    BY DEF ListTypeOK
  <1>2. CASE List \/ ListRaises \/ Show \/ Administer
    BY <1>1, <1>2 DEF List, ListRaises, Show, Administer, Filter
  <1>3. ASSUME NEW c \in Calls, Choose(c)
        PROVE  WithinReach'
    <2>0. PICK kind \in {"sub", "unsub"} : \E chosen \in SUBSET Options(kind) :
            Become(c, [NoCall EXCEPT !.pc = "loop", !.kind = kind, !.todo = chosen])
      BY <1>3 DEF Choose
    <2>1. PICK chosen \in SUBSET Options(kind) :
            call' = [call EXCEPT ![c] = [NoCall EXCEPT !.pc = "loop", !.kind = kind,
                                                       !.todo = chosen]]
      BY <2>0 DEF Become
    <2>2. chosen \subseteq Visible /\ view = "open"
      BY <1>3 DEF Options, Choose
    <2> QED
      BY <1>1, <1>3, <2>1, <2>2 DEF Choose, NoCall
  <1>4. ASSUME NEW c \in Calls, Ask(c)
        PROVE  WithinReach'
    <2>1. PICK g \in call[c].todo :
            \/ call' = [call EXCEPT ![c] = Without(c, g)]
            \/ /\ call' = [call EXCEPT ![c] = [Without(c, g) EXCEPT !.pc = "asked", !.now = g]]
               /\ ~(call[c].kind = "unsub" /\ g \in Protected)
      BY <1>4, AskOrDrop
    <2>2. g \in Visible /\ call[c].todo \ {g} \subseteq Visible /\ view = "open"
      BY <1>4, <2>1 DEF Ask
    <2>3. UNCHANGED <<known, shown, view>>
      BY <1>4 DEF Ask
    <2>4. CASE call' = [call EXCEPT ![c] = Without(c, g)]
      BY <1>1, <2>2, <2>3, <2>4 DEF Without
    <2>5. CASE /\ call' = [call EXCEPT ![c] = [Without(c, g) EXCEPT !.pc = "asked", !.now = g]]
               /\ ~(call[c].kind = "unsub" /\ g \in Protected)
      BY <1>1, <2>2, <2>3, <2>5 DEF Without
    <2> QED
      BY <2>1, <2>4, <2>5
  <1>5. ASSUME NEW c \in Calls, Serve(c) \/ Break(c)
        PROVE  WithinReach'
    BY <1>1, <1>5 DEF Serve, Break, Become
  <1>6. ASSUME NEW c \in Calls, Resume(c)
        PROVE  WithinReach'
    <2>1. view = "open" /\ call[c].now \in Visible
      BY <1>6 DEF Resume
    <2>2. known' \subseteq Visible
      BY <1>6, <2>1 DEF Resume, Notes
    <2> QED
      BY <1>1, <1>6, <2>2 DEF Resume, Become
  <1>7. ASSUME NEW c \in Calls, Refuse(c)
        PROVE  WithinReach'
    BY <1>1, <1>7 DEF Refuse, Failed, Become
  <1>8. ASSUME NEW c \in Calls, Edit(c) \/ EditRaises(c)
        PROVE  WithinReach'
    BY <1>1, <1>8 DEF Edit, EditRaises, Become
  <1> QED
    BY <1>2, <1>3, <1>4, <1>5, <1>6, <1>7, <1>8 DEF ToldNext, ListNext, Callback

\* A step of one callback leaves the others as they are.
LEMMA OneCallback ==
  ASSUME ListTypeOK, NEW c \in Calls, Choose(c) \/ Callback(c)
  PROVE  \A d \in Calls \ {c} : call'[d] = call[d]
  <1>1. \E state : Become(c, state)
    BY Zenon DEF Choose, Callback, Ask, Serve, Resume, Refuse, Break, Edit, EditRaises
  <1> QED
    BY <1>1 DEF ListTypeOK, Become

\* What a callback counts as done was answered, and what was answered is in
\* the history.
LEMMA ListStepReal ==
  ASSUME ListTypeOK, WithinReach, SuccessIsReal, AnswerIsReal, ToldNext
  PROVE  SuccessIsReal' /\ AnswerIsReal'
  <1> SUFFICES ASSUME NEW c \in Calls
               PROVE  /\ call'[c].ok \subseteq done'[c]
                      /\ call'[c].pc = "answered" => call'[c].now \in done'[c]
    BY DEF SuccessIsReal, AnswerIsReal
  <1>1. /\ call[c] \in CallStates /\ call \in [Calls -> CallStates]
        /\ call[c].ok \subseteq done[c]
        /\ call[c].pc = "answered" => call[c].now \in done[c]
    BY DEF ListTypeOK, SuccessIsReal, AnswerIsReal
  <1>2. done'[c] = (IF Choose(c) THEN {} ELSE done[c])
                     \cup {g \in Groups : call'[c].pc # "idle" /\ AsChosen(c, g)}
    BY Zenon DEF ToldNext
  <1>3. CASE Choose(c)
    <2>1. PICK kind \in {"sub", "unsub"} : \E chosen :
            call' = [call EXCEPT ![c] = [NoCall EXCEPT !.pc = "loop", !.kind = kind,
                                                       !.todo = chosen]]
      BY <1>3, Zenon DEF Choose, Become
    <2>2. call'[c].ok = {} /\ call'[c].pc = "loop"
      BY <1>1, <2>1 DEF NoCall
    <2> QED
      BY <2>2
  <1>4. CASE ~Choose(c) /\ call'[c] = call[c]
    BY <1>1, <1>2, <1>4
  <1>5. CASE ~Choose(c) /\ Serve(c)
    <2>1. /\ call[c].now \in Groups /\ call[c].kind \in {"sub", "unsub"}
          /\ member' = Changed(c) /\ call'[c] = [call[c] EXCEPT !.pc = "answered"]
      BY <1>1, <1>5, AskedGroups DEF Serve, Become, Asking, CallStates
    <2>2. (call[c].now \in member') = (call'[c].kind = "sub")
      <3>1. CASE call[c].kind = "sub"
        BY <1>1, <2>1, <3>1 DEF Changed, CallStates
      <3>2. CASE call[c].kind = "unsub"
        BY <1>1, <2>1, <3>2 DEF Changed, CallStates
      <3> QED
        BY <2>1, <3>1, <3>2
    <2>3. call[c].now \in done'[c]
      BY <1>1, <1>2, <2>1, <2>2 DEF AsChosen, CallStates
    <2> QED
      BY <1>1, <1>2, <1>5, <2>1, <2>3 DEF CallStates
  <1>6. CASE ~Choose(c) /\ Resume(c)
    <2>1. call'[c] = [call[c] EXCEPT !.pc = "loop", !.now = None,
                                     !.ok = @ \cup {call[c].now}]
          /\ call[c].pc = "answered"
      BY <1>1, <1>6 DEF Resume, Become
    <2> QED
      BY <1>1, <1>2, <1>6, <2>1 DEF CallStates
  <1>7. CASE ~Choose(c) /\ call'[c].ok = call[c].ok /\ call'[c].pc # "answered"
    BY <1>1, <1>2, <1>7
  <1>8. CASE Ask(c) \/ Refuse(c) \/ Break(c) \/ Edit(c) \/ EditRaises(c)
    <2>1. call'[c].ok = call[c].ok /\ call'[c].pc # "answered"
      <3>1. CASE Ask(c)
        <4>1. PICK g :
            \/ call' = [call EXCEPT ![c] = Without(c, g)]
            \/ call' = [call EXCEPT ![c] = [Without(c, g) EXCEPT !.pc = "asked", !.now = g]]
          BY <3>1, AskOrDrop
        <4>2. call[c].pc = "loop"
          BY <3>1 DEF Ask
        <4> QED
          BY <1>1, <4>1, <4>2 DEF Without, CallStates
      <3>2. CASE Refuse(c)
        BY <1>1, <3>2 DEF Refuse, Failed, Become, CallStates
      <3>3. CASE Break(c)
        BY <1>1, <3>3 DEF Break, Become, CallStates
      <3>4. CASE Edit(c) \/ EditRaises(c)
        BY <1>1, <3>4 DEF Edit, EditRaises, Become, CallStates
      <3> QED
        BY <1>8, <3>1, <3>2, <3>3, <3>4
    <2> QED
      BY <1>3, <1>7, <2>1
  <1>9. CASE \E d \in Calls \ {c} : Choose(d) \/ Callback(d)
    <2>1. call'[c] = call[c]
      BY <1>9, OneCallback
    <2> QED
      BY <1>3, <1>4, <2>1
  <1>10. CASE List \/ ListRaises \/ Show \/ Administer
    <2>1. call'[c] = call[c]
      BY <1>10 DEF List, ListRaises, Show, Administer
    <2> QED
      BY <1>3, <1>4, <2>1
  <1> QED
    BY <1>3, <1>5, <1>6, <1>8, <1>9, <1>10 DEF ToldNext, ListNext, Callback

\* Google says of one call that it did it.
LEMMA OneServed ==
  ASSUME ListTypeOK, NEW c \in Calls, Serve(c)
  PROVE  /\ call[c].pc = "asked" /\ call'[c].pc = "answered"
         /\ \A d \in Calls \ {c} : call'[d] = call[d]
  BY DEF Serve, Become, ListTypeOK, CallStates

\* While callbacks come one by one and all goes well, the view keeps up with
\* Google: it has what Google has, but for the answer being awaited.
LEMMA ListStepCurrent ==
  ASSUME ListTypeOK, WithinReach, NotesCurrent, ToldNext
  PROVE  NotesCurrent'
  <1> SUFFICES ASSUME alone'
               PROVE  NotesCurrent'
    BY DEF NotesCurrent
  <1>1. alone /\ (member' = member \/ \E c \in Calls : Serve(c))
    BY Zenon DEF ToldNext
  <1>2. \A c, d \in Calls : Active(c)' /\ Active(d)' => c = d
    BY Zenon DEF ToldNext
  <1>3. /\ \A c, d \in Calls : Active(c) /\ Active(d) => c = d
        /\ view = "listed" => known = member
        /\ view = "open" /\ Unanswered => known = member \cap Visible
        /\ \A c \in Calls : call[c].pc = "answered" => Notes(c) = member \cap Visible
        /\ Told => shown = known
    BY <1>1 DEF NotesCurrent
  <1>4. call \in [Calls -> CallStates] /\ (\A c \in Calls : Active(c) => view = "open")
    BY DEF ListTypeOK, WithinReach
  <1>5. SUFFICES /\ view' = "listed" => known' = member'
                 /\ view' = "open" /\ Unanswered' => known' = member' \cap Visible
                 /\ \A c \in Calls : call'[c].pc = "answered" =>
                      Notes(c)' = member' \cap Visible
                 /\ Told' => shown' = known'
    BY <1>2 DEF NotesCurrent
  <1>6. CASE List \/ ListRaises \/ Show
    <2>1. UNCHANGED <<member, call>> /\ view # "open"
      BY <1>6 DEF List, ListRaises, Show
    <2>2. Unanswered /\ \A c \in Calls : call'[c].pc # "answered"
      BY <1>4, <2>1 DEF Unanswered, Active
    <2>3. CASE List \/ ListRaises
      BY <2>1, <2>2, <2>3 DEF List, ListRaises, Told
    <2>4. CASE Show
      BY <1>3, <2>1, <2>2, <2>4 DEF Show, Filter
    <2> QED
      BY <1>6, <2>3, <2>4
  <1>7. ASSUME NEW c \in Calls, Choose(c) \/ Callback(c)
        PROVE  /\ view' = "listed" => known' = member'
               /\ view' = "open" /\ Unanswered' => known' = member' \cap Visible
               /\ \A d \in Calls : call'[d].pc = "answered" =>
                    Notes(d)' = member' \cap Visible
               /\ Told' => shown' = known'
    <2>1. view' = view /\ view = "open"
      <3>1. view' = view
        BY <1>7 DEF Choose, Callback, Ask, Serve, Resume, Refuse, Break, Edit, EditRaises
      <3>2. view = "open" \/ Active(c)
        BY <1>7
        DEF Choose, Callback, Ask, Serve, Resume, Refuse, Break, Edit, EditRaises, Active
      <3> QED
        BY <1>4, <3>1, <3>2
    <2>2. \A d \in Calls \ {c} : call'[d] = call[d]
      BY <1>7, OneCallback
    <2>3. ASSUME Active(c) \/ Active(c)', NEW d \in Calls \ {c}
          PROVE  call[d].pc # "answered" /\ call'[d].pc # "answered"
      BY <1>2, <1>3, <2>2, <2>3 DEF Active
    <2>4. ASSUME UNCHANGED <<member, known>>, Active(c)',
                 call[c].pc # "answered", call'[c].pc # "answered"
          PROVE  /\ known' = member' \cap Visible
                 /\ \A d \in Calls : call'[d].pc # "answered"
                 /\ ~Told'
      <3>1. \A d \in Calls : call[d].pc # "answered" /\ call'[d].pc # "answered"
        BY <2>3, <2>4
      <3>2. known = member \cap Visible
        BY <1>3, <2>1, <3>1 DEF Unanswered
      <3>3. ~Told'
        BY <2>4 DEF Told, Active
      <3> QED
        BY <2>4, <3>1, <3>2, <3>3
    <2>5. CASE Choose(c)
      <3>1. PICK kind \in {"sub", "unsub"} : \E chosen :
              call' = [call EXCEPT ![c] = [NoCall EXCEPT !.pc = "loop", !.kind = kind,
                                                         !.todo = chosen]]
        BY <2>5, Zenon DEF Choose, Become
      <3>2. call'[c].pc = "loop"
        BY <1>4, <3>1 DEF NoCall
      <3>3. call[c].pc # "answered" /\ UNCHANGED <<member, known>>
        BY <2>5 DEF Choose
      <3> QED
        BY <2>1, <2>4, <3>2, <3>3 DEF Active
    <2>6. CASE Ask(c) \/ Refuse(c)
      <3>1. UNCHANGED known /\ call[c].pc \in {"loop", "asked"}
        BY <2>6 DEF Ask, Refuse
      <3>2. call'[c].pc \in {"loop", "asked"}
        <4>1. CASE Refuse(c)
          BY <1>4, <4>1 DEF Refuse, Failed, Become, CallStates
        <4>2. CASE Ask(c)
          <5>1. PICK g :
              \/ call' = [call EXCEPT ![c] = Without(c, g)]
              \/ call' = [call EXCEPT ![c] = [Without(c, g) EXCEPT !.pc = "asked", !.now = g]]
            BY <4>2, AskOrDrop
          <5>2. call[c].pc = "loop"
            BY <4>2 DEF Ask
          <5> QED
            BY <1>4, <5>1, <5>2 DEF Without, CallStates
        <4> QED
          BY <2>6, <4>1, <4>2
      <3>3. UNCHANGED member
        BY <1>1, <2>2, <3>2, OneServed
      <3> QED
        BY <2>1, <2>4, <3>1, <3>2, <3>3 DEF Active
    <2>7. CASE Serve(c)
      <3>1. /\ call[c].pc = "asked" /\ call'[c] = [call[c] EXCEPT !.pc = "answered"]
            /\ member' = Changed(c) /\ UNCHANGED <<known, shown>>
        BY <1>4, <2>7 DEF Serve, Become
      <3>2. /\ call'[c].pc = "answered" /\ call'[c].kind = call[c].kind
            /\ call'[c].now = call[c].now
        BY <1>4, <3>1 DEF CallStates
      <3>3. \A d \in Calls \ {c} : call[d].pc # "answered" /\ call'[d].pc # "answered"
        BY <2>3, <3>1 DEF Active
      <3>4. known = member \cap Visible /\ call[c].now \in Visible
        BY <1>3, <2>1, <3>1, <3>3 DEF Unanswered, WithinReach, Asking
      <3>5. Notes(c)' = member' \cap Visible
        <4>1. Notes(c)' = IF call[c].kind = "sub" THEN known \cup {call[c].now}
                                                  ELSE known \ {call[c].now}
          BY <3>1, <3>2 DEF Notes
        <4> QED
          BY <3>1, <3>4, <4>1 DEF Changed
      <3>6. ~Told' /\ ~Unanswered'
        BY <3>2 DEF Told, Unanswered
      <3> QED
        BY <2>1, <3>3, <3>5, <3>6
    <2>8. CASE Resume(c)
      <3>1. /\ call[c].pc = "answered" /\ known' = Notes(c) /\ member' = member
            /\ call'[c] = [call[c] EXCEPT !.pc = "loop", !.now = None,
                                          !.ok = @ \cup {call[c].now}]
        BY <1>4, <2>8 DEF Resume, Become
      <3>2. call'[c].pc = "loop"
        BY <1>4, <3>1 DEF CallStates
      <3>3. \A d \in Calls : call'[d].pc # "answered"
        BY <2>3, <3>2 DEF Active
      <3>4. known' = member' \cap Visible
        BY <1>3, <3>1
      <3>5. ~Told'
        BY <3>2 DEF Told
      <3> QED
        BY <2>1, <3>3, <3>4, <3>5
    <2>9. CASE Edit(c) \/ EditRaises(c)
      <3>1. call[c].pc = "loop" /\ UNCHANGED <<member, known>>
        BY <2>9 DEF Edit, EditRaises
      <3>2. call'[c].pc \in {"told", "aborted"}
        BY <1>4, <2>9 DEF Edit, EditRaises, Become, CallStates
      <3>3. \A d \in Calls : call[d].pc # "answered" /\ call'[d].pc # "answered"
        BY <2>3, <3>1, <3>2 DEF Active
      <3>4. known = member \cap Visible
        BY <1>3, <2>1, <3>3 DEF Unanswered
      <3>5. Told' => shown' = known'
        <4>1. CASE Edit(c)
          BY <4>1 DEF Edit
        <4>2. CASE EditRaises(c)
          <5>1. call'[c].pc = "aborted"
            BY <1>4, <4>2 DEF EditRaises, Become, CallStates
          <5> QED
            BY <5>1 DEF Told
        <4> QED
          BY <2>9, <4>1, <4>2
      <3> QED
        BY <2>1, <3>1, <3>3, <3>4, <3>5
    <2>10. CASE Break(c)
      <3>1. call[c].pc = "asked" /\ UNCHANGED <<known, shown>>
        BY <2>10 DEF Break
      <3>2. call'[c].pc = "aborted"
        BY <1>4, <2>10 DEF Break, Become, CallStates
      <3>3. UNCHANGED member
        BY <1>1, <2>2, <3>2, OneServed
      <3>4. \A d \in Calls : call[d].pc # "answered" /\ call'[d].pc # "answered"
        BY <2>3, <3>1, <3>2 DEF Active
      <3>5. known = member \cap Visible
        BY <1>3, <2>1, <3>4 DEF Unanswered
      <3>6. ~Told'
        BY <3>2 DEF Told
      <3> QED
        BY <2>1, <3>1, <3>3, <3>4, <3>5, <3>6
    <2> QED
      BY <1>7, <2>5, <2>6, <2>7, <2>8, <2>9, <2>10 DEF Callback
  <1>8. CASE Administer
    <2>1. UNCHANGED <<known, shown, view, call>>
      BY <1>8 DEF Administer
    <2>2. UNCHANGED member
      BY <1>1, <2>1, OneServed
    <2> QED
      BY <1>3, <2>1, <2>2 DEF Unanswered, Notes, Told
  <1> QED
    BY <1>6, <1>7, <1>8 DEF ToldNext, ListNext

LEMMA ListNextIInv == ListIInv /\ [ToldNext]_toldVars => ListIInv'
  <1> SUFFICES ASSUME ListIInv, [ToldNext]_toldVars
               PROVE  ListIInv'
    OBVIOUS
  <1>1. CASE ToldNext
    BY <1>1, ListStepTypeOK, ListStepWithinReach, ListStepReal, ListStepCurrent
    DEF ListIInv
  <1>2. CASE UNCHANGED toldVars
    BY <1>2
    DEF toldVars, listVars, ListIInv, ListTypeOK, WithinReach, SuccessIsReal,
        AnswerIsReal, NotesCurrent, Active, Asking, Unanswered, Notes, Told
  <1> QED
    BY <1>1, <1>2

LEMMA ListInvariance == ToldSpec => []ListIInv
  BY ListInitIInv, ListNextIInv, PTL DEF ToldSpec

\* _on_subscribe and _on_unsubscribe: a group the user is told of as done was
\* as they wanted it at some moment after they chose.
THEOREM SuccessWasReal == ToldSpec => []SuccessIsReal
  <1>1. ListIInv => SuccessIsReal
    BY DEF ListIInv
  <1> QED
    BY <1>1, ListInvariance, PTL

\* _rebuild_selects and the edit: when no callbacks overlapped and the groups
\* changed only where Google said so, the message shows what is so, the groups
\* it refused, the edits that failed and the callbacks that ended midway
\* notwithstanding.
THEOREM MessageIsCurrent == ToldSpec => []ShownIsCurrent
  <1>1. ListIInv => ShownIsCurrent
    <2> SUFFICES ASSUME ListIInv, alone, Told
                 PROVE  shown = member \cap Visible
      BY DEF ShownIsCurrent
    <2>1. Unanswered /\ view = "open" /\ NotesCurrent
      BY DEF Told, Unanswered, ListIInv
    <2> QED
      BY <2>1 DEF NotesCurrent
  <1> QED
    BY <1>1, ListInvariance, PTL

\* get_protected_groups and the filter on the leadership group: no callback,
\* whatever other callbacks did meanwhile, changes a group that is out of the
\* user's reach.
THEOREM NothingOutOfReach == ToldSpec => OutOfReach
  <1>1. ASSUME ListIInv, NEW c \in Calls, Callback(c)
        PROVE  /\ member \cap Protected \subseteq member'
               /\ ~IsLeader => member \cap Leadership = member' \cap Leadership
    <2>1. CASE UNCHANGED member
      BY <2>1
    <2>2. CASE Serve(c) \/ Refuse(c) \/ Break(c)
      <3>1. member' \in {member, Changed(c)} /\ Asking(c)
        BY <2>2 DEF Serve, Refuse, Break, Asking
      <3>2. /\ call[c].now \in Visible
            /\ call[c].kind = "unsub" => call[c].now \notin Protected
            /\ call[c].kind \in {"sub", "unsub"}
        BY <1>1, <3>1 DEF ListIInv, WithinReach, ListTypeOK, CallStates
      <3> QED
        BY <3>1, <3>2 DEF Changed, Visible
    <2> QED
      BY <1>1, <2>1, <2>2 DEF Callback, Ask, Resume, Edit, EditRaises
  <1>2. ListIInv /\ [ToldNext]_toldVars =>
          [\A c \in Calls : Callback(c) =>
             /\ member \cap Protected \subseteq member'
             /\ ~IsLeader => member \cap Leadership = member' \cap Leadership]_listVars
    BY <1>1
  <1> QED
    BY <1>2, ListInvariance, PTL DEF ToldSpec, OutOfReach
=============================================================================
