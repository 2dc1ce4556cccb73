----------------------------- MODULE MailingList -----------------------------
(***************************************************************************)
(* /staffninja mailinglist: the view of one user's Google Groups and the   *)
(* two select menus that change them.                                      *)
(*                                                                         *)
(* A choice in a menu starts a callback that asks Google for one group     *)
(* after the other, each in a thread, notes what it is told in the view's  *)
(* list of groups, and edits the message at the end.  Discord runs every   *)
(* callback in a task of its own, so that several may work on one view.    *)
(***************************************************************************)
EXTENDS Naturals, FiniteSets

CONSTANTS Groups,      \* MAILINGLIST_GROUPS
          Protected,   \* MAILINGLIST_PROTECTED_GROUPS
          Leadership,  \* {MAILINGLIST_LEADERSHIP_GROUP}, or {} where it is not set
          IsLeader,    \* what _is_leadership says of the user
          Calls,       \* callbacks that may run at a time
          None,
          Faults,      \* what may go wrong: see below
          MaxFaults,   \* bound: how often
          MaxChanges   \* bound: changes by the administrators of the groups

ASSUME MailingListAssumption ==
  /\ Protected \subseteq Groups /\ Leadership \subseteq Groups
  /\ IsLeader \in BOOLEAN /\ None \notin Groups
  /\ Faults \subseteq {"refused", "broken", "edit"}
  /\ MaxFaults \in Nat /\ MaxChanges \in Nat

VARIABLES
  member,   \* the groups Google has the user in
  known,    \* the groups whose is_member is true in the view's list
  shown,    \* those the message shows as subscribed
  view,     \* "none", "listed" (awaiting _is_leadership), "open" or "failed"
  call,     \* [Calls -> what a callback is doing]
  faults, changes

listVars == <<member, known, shown, view, call, faults, changes>>

Fault(kind) == kind \in Faults /\ faults < MaxFaults /\ faults' = faults + 1

\* pc: "idle", "loop" (between two groups), "asked" (a thread has now's call),
\* "answered", and how it ended, "told" or "aborted".
NoCall == [pc |-> "idle", kind |-> "sub", todo |-> {}, now |-> None, ok |-> {}]

-----------------------------------------------------------------------------
(* What the user sees *)

\* get_protected_groups, and is_member or not is_member in _rebuild_selects
IsProtectedNever(g) == FALSE
IsProtected(g) == g \in Protected

\* Leaders see every allowed group.
Visible == IF IsLeader THEN Groups ELSE Groups \ Leadership

\* The options of the menus, as the message has them.
Options(kind) == IF kind = "unsub" THEN {g \in shown : ~IsProtected(g)} ELSE Visible \ shown

-----------------------------------------------------------------------------
(* mailinglist *)

ListInit == /\ member \in SUBSET Groups
            /\ known = {} /\ shown = {}
            /\ view = "none"
            /\ call = [c \in Calls |-> NoCall]
            /\ faults = 0 /\ changes = 0

\* get_user_groups; whatever it raises becomes a GoogleGroupsError.
List == /\ view = "none"
        /\ known' = member
        /\ view' = "listed"
        /\ UNCHANGED <<member, shown, call, faults, changes>>

ListRaises == /\ view = "none"
              /\ \E kind \in {"refused", "broken"} : Fault(kind)
              /\ view' = "failed"
              /\ UNCHANGED <<member, known, shown, call, changes>>

\* groups = [g for g in groups if g["email"] != leadership_group]
Filter == known \cap Visible

Show == /\ view = "listed"
        /\ known' = Filter
        /\ shown' = known'
        /\ view' = "open"
        /\ UNCHANGED <<member, call, faults, changes>>

-----------------------------------------------------------------------------
(* _on_subscribe and _on_unsubscribe *)

Become(c, state) == call' = [call EXCEPT ![c] = state]

\* What the user chose, from what the message showed.
Choose(c) ==
  /\ view = "open"
  /\ call[c].pc \in {"idle", "told", "aborted"}
  /\ \E kind \in {"sub", "unsub"} : \E chosen \in SUBSET Options(kind) \ {{}} :
       Become(c, [NoCall EXCEPT !.pc = "loop", !.kind = kind, !.todo = chosen])
  /\ UNCHANGED <<member, known, shown, view, faults, changes>>

\* A protected group raises before Google is asked.
Ask(c) ==
  /\ call[c].pc = "loop"
  /\ \E g \in call[c].todo :
       LET rest == [call[c] EXCEPT !.todo = @ \ {g}]
       IN  Become(c, IF call[c].kind = "unsub" /\ IsProtected(g) THEN rest
                     ELSE [rest EXCEPT !.pc = "asked", !.now = g])
  /\ UNCHANGED <<member, known, shown, view, faults, changes>>

Changed(c) == IF call[c].kind = "sub" THEN member \cup {call[c].now} ELSE member \ {call[c].now}

\* Google does it, or says 409 or 404: it was so already.
Serve(c) ==
  /\ call[c].pc = "asked"
  /\ member' = Changed(c)
  /\ Become(c, [call[c] EXCEPT !.pc = "answered"])
  /\ UNCHANGED <<known, shown, view, faults, changes>>

\* g["is_member"] = ..., and the line that tells the user.
NotesNothing(c) == known
Notes(c) == IF call[c].kind = "sub" THEN known \cup {call[c].now} ELSE known \ {call[c].now}

Resume(c) ==
  /\ call[c].pc = "answered"
  /\ known' = Notes(c)
  /\ Become(c, [call[c] EXCEPT !.pc = "loop", !.now = None, !.ok = @ \cup {call[c].now}])
  /\ UNCHANGED <<member, shown, view, faults, changes>>

\* Google answers with another status, and has changed the group or has not: a
\* GoogleGroupsError, which the loop catches and lists as a failure.
FailedIsOk(c) == [call[c] EXCEPT !.pc = "answered"]
Failed(c) == [call[c] EXCEPT !.pc = "loop", !.now = None]

Refuse(c) ==
  /\ call[c].pc = "asked"
  /\ Fault("refused")
  /\ member' \in {member, Changed(c)}
  /\ Become(c, Failed(c))
  /\ UNCHANGED <<known, shown, view, changes>>

\* There is no answer (the connection, the credentials): the client raises
\* what is not an HttpError, and the callback ends.
Break(c) ==
  /\ call[c].pc = "asked"
  /\ Fault("broken")
  /\ member' \in {member, Changed(c)}
  /\ Become(c, [call[c] EXCEPT !.pc = "aborted"])
  /\ UNCHANGED <<known, shown, view, changes>>

\* _rebuild_selects, _build_embed, and the edit: Discord applies the edits of
\* a message in the order they are made.  Then the results are sent.
Edit(c) ==
  /\ call[c].pc = "loop" /\ call[c].todo = {}
  /\ shown' = known
  /\ Become(c, [call[c] EXCEPT !.pc = "told"])
  /\ UNCHANGED <<member, known, view, faults, changes>>

\* The edit raises, or the follow-up does.
EditRaises(c) ==
  /\ call[c].pc = "loop" /\ call[c].todo = {}
  /\ Fault("edit")
  /\ shown' \in {shown, known}
  /\ Become(c, [call[c] EXCEPT !.pc = "aborted"])
  /\ UNCHANGED <<member, known, view, changes>>

-----------------------------------------------------------------------------
(* The administrators of the groups *)

Administer ==
  /\ changes < MaxChanges
  /\ changes' = changes + 1
  /\ member' \in SUBSET Groups
  /\ UNCHANGED <<known, shown, view, call, faults>>

Callback(c) == \/ Ask(c) \/ Serve(c) \/ Resume(c) \/ Refuse(c) \/ Break(c)
               \/ Edit(c) \/ EditRaises(c)

ListNext == \/ List \/ ListRaises \/ Show
            \/ \E c \in Calls : Choose(c) \/ Callback(c)
            \/ Administer

ListSpec == ListInit /\ [][ListNext]_listVars
=============================================================================
