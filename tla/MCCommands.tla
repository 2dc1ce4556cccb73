----------------------------- MODULE MCCommands -----------------------------
(***************************************************************************)
(* For TLC: what stands behind the /staffninja commands, linking           *)
(* (AccountLink), mailing lists (MailingList), and the policy command's    *)
(* search of documents (DocumentSearch) with the passages it cuts from     *)
(* them (Snippets).  They share nothing; a behaviour is one of any of      *)
(* them, the others at rest.                                               *)
(***************************************************************************)
EXTENDS MCAccountLink, MCMailingList, MCDocumentSearch, Snippets

Interchangeable == Permutations(Challenges) \cup Permutations(Docs)

\* Every account is linked, and the process is not restarted any more.
LinkAtRest ==
  /\ discord = [a \in Accounts |-> Elsewhere]
  /\ pending = [u \in Users |-> Nobody]
  /\ account = [ch \in Challenges |-> Nobody]
  /\ attempts = [ch \in Challenges |-> 0]
  /\ expired = {} /\ mailed = {}
  /\ pc = [c \in Commands |-> "idle"]
  /\ user = [c \in Commands |-> Nobody]
  /\ subject = [c \in Commands |-> Nobody]
  /\ told = [c \in Commands |-> "nothing"]
  /\ restarts = MaxRestarts

\* The listing of the groups has failed, and the administrators are done.
ListAtRest ==
  /\ member = {} /\ known = {} /\ shown = {} /\ view = "failed"
  /\ call = [c \in Calls |-> NoCall]
  /\ faults = MaxFaults /\ changes = MaxChanges
  /\ done = [c \in Calls |-> {}] /\ alone = TRUE

\* The search of an empty table has returned.
SearchAtRest ==
  /\ marks = [d \in Docs |-> [rank |-> [q \in Queries |-> 0], title |-> 0, text |-> 0]]
  /\ table = {} /\ left = {} /\ terms = FALSE
  /\ found = <<>> /\ deep = <<>> /\ result = <<>>
  /\ stage = "done" /\ deletions = 0
  /\ seen = {} /\ raised = FALSE

\* A text without a place to show, passed over.
SnippetsAtRest ==
  length = 0 /\ positions = {} /\ unvisited = {} /\ chosen = <<>> /\ returned = TRUE

MCInit == \/ Init /\ ListAtRest /\ SearchAtRest /\ SnippetsAtRest
          \/ LinkAtRest /\ ToldInit /\ SearchAtRest /\ SnippetsAtRest
          \/ LinkAtRest /\ ListAtRest /\ SeenInit /\ SnippetsAtRest
          \/ LinkAtRest /\ ListAtRest /\ SearchAtRest /\ SnippetInit

MCNext == \/ Next /\ UNCHANGED <<toldVars, seenVars, snippetVars>>
          \/ ToldNext /\ UNCHANGED <<vars, seenVars, snippetVars>>
          \/ SeenNext /\ UNCHANGED <<vars, toldVars, snippetVars>>
          \/ SnippetNext /\ UNCHANGED <<vars, toldVars, seenVars>>

MCSpec == MCInit /\ [][MCNext]_<<vars, toldVars, seenVars, snippetVars>>
=============================================================================
