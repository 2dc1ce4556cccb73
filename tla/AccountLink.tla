---------------------------- MODULE AccountLink ----------------------------
(***************************************************************************)
(* Linking a Discord user to a row of the "User" table: the commands       *)
(* /staffninja link and /staffninja verify, the dictionary of pending      *)
(* challenges they share, the mail between them and the guarded UPDATE.    *)
(* Several commands, of one user or of many, are in flight at a time; a    *)
(* command runs from one await to the next in one step.                    *)
(*                                                                         *)
(* A code is the challenge it was drawn for: two challenges with the same  *)
(* six digits are not modelled.  Replies that change nothing (bad address, *)
(* no match, several matches, already linked) are stuttering steps.        *)
(***************************************************************************)
EXTENDS Naturals, FiniteSets

CONSTANTS Users,        \* Discord users
          Accounts,     \* rows of "User", each with an email of its own
          Mailbox,      \* the Discord user who reads an account's mail
          Challenges,   \* codes that may be drawn
          Commands,     \* slash commands in flight at a time
          MaxAttempts,  \* LINK_CODE_MAX_ATTEMPTS
          MaxRestarts,  \* bound: restarts of the process
          Nobody,       \* an empty "Discord" column, an empty slot
          Elsewhere,    \* a "Discord" value the bot did not write
          Guess         \* a code nobody was sent

ASSUME LinkAssumption ==
  /\ Mailbox \in [Accounts -> Users]
  /\ MaxAttempts \in Nat \ {0}
  /\ MaxRestarts \in Nat
  /\ Nobody \notin Users \cup Challenges \cup Accounts
  /\ Elsewhere \notin Users \cup {Nobody}
  /\ Guess \notin Challenges

VARIABLES
  discord,   \* column "Discord" of each account
  pending,   \* pending_link_challenges: user -> challenge
  account,   \* pending["user_id"] of each challenge drawn, else Nobody
  attempts,  \* pending["attempts"]
  expired,   \* challenges whose expires_at has passed
  mailed,    \* challenges whose mail was delivered
  pc,        \* where each command is
  user,      \* interaction.user.id of the command
  subject,   \* the challenge the command is about (its local variable)
  told,      \* history: the last answer the command's user read
  restarts   \* how often the process restarted (for MaxRestarts)

command == <<pc, user, subject, told>>
vars == <<discord, pending, account, attempts, expired, mailed, command, restarts>>

Fresh(ch) == account[ch] = Nobody

\* The codes a user may type: those in the mail the user reads, or a guess.
Known(u) == {ch \in mailed : Mailbox[account[ch]] = u} \cup {Guess}

\* submitted != pending["code"]
CodeMatchesAnything(code, ch) == code # Guess
CodeMatches(code, ch) == code = ch

\* remaining <= 0, for the attempts made with this one.
IsExhausted(n) == MaxAttempts <= n

\* WHERE COALESCE("Discord", '') = ''
MayLink(a) == discord[a] = Nobody

\* result != "UPDATE 1": the tag counts the row only if the UPDATE wrote it.
OutcomeUnchecked(a) == "linked"
Outcome(a) == IF MayLink(a) THEN "linked" ELSE "refused"

Drop(u) == pending' = [pending EXCEPT ![u] = Nobody]

End(c, answer) == /\ pc' = [pc EXCEPT ![c] = "idle"]
                  /\ told' = [told EXCEPT ![c] = answer]
                  /\ UNCHANGED <<user, subject>>

Go(c, l, u, ch) == /\ pc' = [pc EXCEPT ![c] = l]
                   /\ user' = [user EXCEPT ![c] = u]
                   /\ subject' = [subject EXCEPT ![c] = ch]
                   /\ told' = [told EXCEPT ![c] = "nothing"]

-----------------------------------------------------------------------------
Init == /\ discord \in [Accounts -> {Nobody, Elsewhere}]
        /\ pending = [u \in Users |-> Nobody]
        /\ account = [ch \in Challenges |-> Nobody]
        /\ attempts = [ch \in Challenges |-> 0]
        /\ expired = {}
        /\ mailed = {}
        /\ pc = [c \in Commands |-> "idle"]
        /\ user = [c \in Commands |-> Nobody]
        /\ subject = [c \in Commands |-> Nobody]
        /\ told = [c \in Commands |-> "nothing"]
        /\ restarts = 0

\* init_link_process: the lookup finds one row, not linked; a code is drawn.
LinkLookup(c, u, a) ==
  /\ pc[c] = "idle"
  /\ discord[a] = Nobody
  /\ \E ch \in Challenges : /\ Fresh(ch)
                            /\ account' = [account EXCEPT ![ch] = a]
                            /\ Go(c, "mailing", u, ch)
  /\ UNCHANGED <<discord, pending, attempts, expired, mailed, restarts>>

\* The executor's thread delivers the mail; the coroutine has yet to resume.
LinkMailed(c) ==
  /\ pc[c] = "mailing"
  /\ mailed' = mailed \cup {subject[c]}
  /\ pc' = [pc EXCEPT ![c] = "storing"]
  /\ UNCHANGED <<discord, pending, account, attempts, expired, user, subject,
                 told, restarts>>

\* smtplib raises, before or after the server took the mail.
LinkMailRaises(c) ==
  /\ pc[c] = "mailing"
  /\ mailed' \in {mailed, mailed \cup {subject[c]}}
  /\ End(c, "failed")
  /\ UNCHANGED <<discord, pending, account, attempts, expired, restarts>>

\* StaffNinjaCog.link stores the challenge over whatever the user had.
LinkStore(c) ==
  /\ pc[c] = "storing"
  /\ pending' = [pending EXCEPT ![user[c]] = subject[c]]
  /\ End(c, "sent")
  /\ UNCHANGED <<discord, account, attempts, expired, mailed, restarts>>

\* StaffNinjaCog.verify up to its first await inside verify_link_code: the
\* challenge is looked up, and a late or wrong code is answered at once.
VerifyExpired(c, u) ==
  /\ pc[c] = "idle"
  /\ pending[u] \in expired
  /\ Drop(u)
  /\ UNCHANGED <<discord, account, attempts, expired, mailed, command, restarts>>

VerifyWrong(c, u) ==
  /\ pc[c] = "idle"
  /\ pending[u] \in Challenges \ expired
  /\ \E code \in Known(u) : ~CodeMatches(code, pending[u])
  /\ attempts' = [attempts EXCEPT ![pending[u]] = @ + 1]
  /\ IF IsExhausted(attempts'[pending[u]]) THEN Drop(u) ELSE UNCHANGED pending
  /\ UNCHANGED <<discord, account, expired, mailed, command, restarts>>

VerifyRight(c, u) ==
  /\ pc[c] = "idle"
  /\ pending[u] \in Challenges \ expired
  /\ \E code \in Known(u) : CodeMatches(code, pending[u])
  /\ Go(c, "updating", u, pending[u])
  /\ UNCHANGED <<discord, pending, account, attempts, expired, mailed, restarts>>

\* update_user_discord_link commits; its result tag says what it changed.
LinkRow(c) == LET a == account[subject[c]]
              IN  discord' = [discord EXCEPT ![a] = IF MayLink(a) THEN user[c] ELSE @]

UpdateLink(c) ==
  /\ pc[c] = "updating"
  /\ LinkRow(c)
  /\ pc' = [pc EXCEPT ![c] = Outcome(account[subject[c]])]
  /\ UNCHANGED <<pending, account, attempts, expired, mailed, user, subject,
                 told, restarts>>

\* The UPDATE raises, applied or not; the challenge stays for another try.
UpdateRaises(c) ==
  /\ pc[c] = "updating"
  /\ LinkRow(c) \/ UNCHANGED discord
  /\ End(c, "failed")
  /\ UNCHANGED <<pending, account, attempts, expired, mailed, restarts>>

\* verify resumes and pops what is stored under the user by now.
PopKept(c) == UNCHANGED pending
PopOwn(c) == Drop(user[c])

VerifyEnds(c) ==
  /\ pc[c] \in {"linked", "refused"}
  /\ PopOwn(c)
  /\ End(c, pc[c])
  /\ UNCHANGED <<discord, account, attempts, expired, mailed, restarts>>

\* LINK_CODE_TTL_MINUTES pass.
Expire(ch) ==
  /\ ~Fresh(ch)
  /\ expired' = expired \cup {ch}
  /\ UNCHANGED <<discord, pending, account, attempts, mailed, command, restarts>>

\* The staff site writes the column.
LinkedElsewhere(a) ==
  /\ discord[a] = Nobody
  /\ discord' = [discord EXCEPT ![a] = Elsewhere]
  /\ UNCHANGED <<pending, account, attempts, expired, mailed, command, restarts>>

\* The process restarts: the dictionary and the commands were its memory.
Restart ==
  /\ restarts < MaxRestarts
  /\ restarts' = restarts + 1
  /\ pending' = [u \in Users |-> Nobody]
  /\ pc' = [c \in Commands |-> "idle"]
  /\ told' = [c \in Commands |-> "nothing"]
  /\ UNCHANGED <<discord, account, attempts, expired, mailed, user, subject>>

CommandStep(c) ==
  \/ \E u \in Users : \/ \E a \in Accounts : LinkLookup(c, u, a)
                      \/ VerifyExpired(c, u) \/ VerifyWrong(c, u) \/ VerifyRight(c, u)
  \/ LinkMailed(c) \/ LinkMailRaises(c) \/ LinkStore(c)
  \/ UpdateLink(c) \/ UpdateRaises(c) \/ VerifyEnds(c)

Next == \/ \E c \in Commands : CommandStep(c)
        \/ \E ch \in Challenges : Expire(ch)
        \/ \E a \in Accounts : LinkedElsewhere(a)
        \/ Restart

Spec == Init /\ [][Next]_vars

-----------------------------------------------------------------------------
(* Properties *)

TypeOK ==
  /\ discord \in [Accounts -> Users \cup {Nobody, Elsewhere}]
  /\ pending \in [Users -> Challenges \cup {Nobody}]
  /\ account \in [Challenges -> Accounts \cup {Nobody}]
  /\ attempts \in [Challenges -> 0..MaxAttempts]
  /\ expired \subseteq Challenges
  /\ mailed \subseteq Challenges
  /\ pc \in [Commands -> {"idle", "mailing", "storing", "updating", "linked", "refused"}]
  /\ user \in [Commands -> Users \cup {Nobody}]
  /\ subject \in [Commands -> Challenges \cup {Nobody}]
  /\ told \in [Commands -> {"nothing", "failed", "sent", "linked", "refused"}]
  /\ restarts \in 0..MaxRestarts

\* A link, once written, is never written over: not by a code drawn before,
\* not by a second command of the same user, not by a race of two users.
LinkNotOverwritten ==
  [][\A a \in Accounts : discord[a] # Nobody => discord'[a] = discord[a]]_vars

\* A user becomes the Discord identity of an account only by reading the
\* mail of that account, whichever challenges are in flight.
LinkedByMailboxReader ==
  \A a \in Accounts : discord[a] \in Users => discord[a] = Mailbox[a]

\* Who was told "linked successfully" is linked.
SuccessIsTrue ==
  \A c \in Commands : told[c] = "linked" => discord[account[subject[c]]] = user[c]

\* A challenge that can still be answered was answered wrongly less often
\* than the limit, whatever verify commands ran at the same time.
PendingHasAttemptsLeft ==
  \A u \in Users : pending[u] # Nobody => attempts[pending[u]] < MaxAttempts

\* A challenge links one account and is then forgotten: no one can answer
\* it again once its command has ended with success.
UsedChallengeIsForgotten ==
  \A c \in Commands : told[c] = "linked" => pending[user[c]] # subject[c]
=============================================================================
