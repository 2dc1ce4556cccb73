--------------------------- MODULE MCChatMonitor ---------------------------
(* Values of ChatMonitor's constants for the model checker. *)
EXTENDS ChatMonitor

CONSTANTS m1, m2, m3, m4, general, helpdesk, ann, bob

\* Ann asks in both channels, Bob in one; the last message is an injection.
InChannel == [m \in Messages |-> IF m \in {m1, m2} THEN general ELSE helpdesk]
ByAuthor  == [m \in Messages |-> IF m \in {m1, m3} THEN ann ELSE bob]
=============================================================================
