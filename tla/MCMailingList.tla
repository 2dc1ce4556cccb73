---------------------------- MODULE MCMailingList ----------------------------
(***************************************************************************)
(* MailingList for TLC: what a user is told of each callback is compared   *)
(* with what Google did, and what the message shows with what is so.       *)
(***************************************************************************)
EXTENDS MailingList

VARIABLES
  done,  \* history: [Calls -> the groups that were as chosen since the choice]
  alone  \* history: no two callbacks overlapped, and the groups changed only
         \* where Google says that they did

toldVars == <<listVars, done, alone>>

Active(c) == call[c].pc \in {"loop", "asked", "answered"}
AsChosen(c, g) == (g \in member') = (call'[c].kind = "sub")

ToldInit == ListInit /\ done = [c \in Calls |-> {}] /\ alone = TRUE
ToldNext == /\ ListNext
            /\ done' = [c \in Calls |->
                          (IF Choose(c) THEN {} ELSE done[c])
                            \cup {g \in Groups : call'[c].pc # "idle" /\ AsChosen(c, g)}]
            /\ alone' = /\ alone
                        /\ \A c, d \in Calls : Active(c)' /\ Active(d)' => c = d
                        /\ member' = member \/ \E c \in Calls : Serve(c)

ToldSpec == ToldInit /\ [][ToldNext]_toldVars

-----------------------------------------------------------------------------
(* Properties *)

\* A group that the user is told of as done was as they wanted it at some
\* moment after the choice, whoever else changed it meanwhile.
SuccessIsReal == \A c \in Calls : call[c].ok \subseteq done[c]

\* No choice of the user changes a group that is out of their reach: they do
\* not leave a protected one, nor join or leave a leadership one unless they
\* lead.
OutOfReach ==
  [][\A c \in Calls : Callback(c) =>
       /\ member \cap Protected \subseteq member'
       /\ ~IsLeader => member \cap Leadership = member' \cap Leadership]_listVars

\* As long as callbacks do not overlap, and a group changes only where Google
\* says so, the message is right whenever a callback has edited it: a group that
\* Google refused, an edit that Discord refused, or a callback that ended in the
\* middle of its groups leaves no trace.
Told == view = "open" /\ \A c \in Calls : call[c].pc \in {"idle", "told"}
ShownIsCurrent == alone /\ Told => shown = member \cap Visible
=============================================================================
