---------------------------- MODULE ChatMonitor ----------------------------
(***************************************************************************)
(* The chat monitor: on_message of every question in a monitored channel   *)
(* runs as a coroutine of its own.  It passes two cooldowns, searches the  *)
(* documents, waits for a slot of the inference semaphore, asks the model  *)
(* in a thread and replies.  One timeout covers the wait and the answer.   *)
(* /staffninja policy asks the same model, without cooldowns or semaphore. *)
(* Both go through asyncio's one thread pool, where a request waits until  *)
(* a thread takes it; a timeout takes it back until then, and not after.   *)
(*                                                                         *)
(* Abstracted: texts, prompts and embeds; a message is a question or looks *)
(* like an injection.  The clock is time.monotonic() in coarse units; when *)
(* a timeout fires is left open, and so is the order of the pool's queue,  *)
(* which other work shares.                                                *)
(***************************************************************************)
EXTENDS Naturals, FiniteSets, Sequences

CONSTANTS Messages,      \* messages that may arrive
          Policies,      \* uses of /staffninja policy
          Channel,       \* the channel of each message
          Author,        \* the author of each message
          Injections,    \* messages that match an injection pattern
          Cooldown,      \* CHAT_MONITOR_COOLDOWN_SECONDS
          UserCooldown,  \* CHAT_MONITOR_USER_COOLDOWN_SECONDS
          MaxConcurrent, \* AI_MAX_CONCURRENT_REQUESTS
          Threads,       \* threads of asyncio's default executor
          MaxTime        \* bound: the clock stops here

Channels == {Channel[m] : m \in Messages}
Authors  == {Author[m] : m \in Messages}
Asks     == Messages \cup Policies

ASSUME ChatAssumption ==
  /\ IsFiniteSet(Messages) /\ IsFiniteSet(Policies)
  /\ Messages \cap Policies = {}
  /\ DOMAIN Channel = Messages /\ DOMAIN Author = Messages
  /\ Injections \subseteq Messages
  /\ Cooldown \in Nat /\ UserCooldown \in Nat
  /\ MaxConcurrent \in Nat \ {0} /\ Threads \in Nat \ {0}
  /\ MaxTime \in Nat

VARIABLES
  now,            \* time.monotonic()
  cooldowns,      \* channel -> stamp; 0 stands for a missing key, as in get(.., 0.0)
  userCooldowns,  \* author -> stamp
  pc,             \* where the coroutine of each message and command is
  waiters,        \* waiters of the semaphore, in order
  queued,         \* those whose request no thread of the pool has taken yet
  requests,       \* those whose HTTP request a thread still runs
  accepted        \* history: when each question was accepted

vars == <<now, cooldowns, userCooldowns, pc, waiters, queued, requests, accepted>>

Never == MaxTime + 1   \* no such moment

PCs == {"unseen", "refusing", "searching", "waiting", "inferring", "replying",
        "done", "ignored"}

\* now - last < cooldown
CoolingOff(last, period) == now < last + period

\* self._cooldowns[...] = now, before the first await of the answer.
StampForgotten(f, k) == f
Stamp(f, k) == [f EXCEPT ![k] = now]

\* A slot of the semaphore is free.
SlotFreeOffByOne(n) == n <= MaxConcurrent
SlotFree(n) == n < MaxConcurrent

Inside == {m \in Messages : pc[m] = "inferring"}

\* asyncio.to_thread, and what becomes of it when its awaiter is cancelled.
Submit(q) == queued' = queued \cup {q}
CancelForgotten(q) == UNCHANGED queued
Cancel(q) == queued' = queued \ {q}

\* What wait_for cancels: the whole of _run_inference.
WaitingOnly(l) == l = "waiting"
Timed(l) == l \in {"waiting", "inferring"}

\* A waiter that is cancelled leaves the semaphore's queue, wherever it is.
Leave(m) == \E i \in 1..Len(waiters) :
              /\ waiters[i] = m
              /\ waiters' = SubSeq(waiters, 1, i - 1) \o SubSeq(waiters, i + 1, Len(waiters))

Goto(m, l) == pc' = [pc EXCEPT ![m] = l]

-----------------------------------------------------------------------------
Init == /\ now \in 0..MaxTime
        /\ cooldowns = [c \in Channels |-> 0]
        /\ userCooldowns = [a \in Authors |-> 0]
        /\ pc = [q \in Asks |-> "unseen"]
        /\ waiters = <<>>
        /\ queued = {} /\ requests = {}
        /\ accepted = [m \in Messages |-> Never]

\* on_message, an injection: answered whatever the cooldowns say.
Refuse(m) ==
  /\ pc[m] = "unseen"
  /\ m \in Injections
  /\ Goto(m, "refusing")
  /\ UNCHANGED <<now, cooldowns, userCooldowns, waiters, queued, requests, accepted>>

\* on_message, one of the two cooldowns is active.
Ignore(m) ==
  /\ pc[m] = "unseen"
  /\ m \notin Injections
  /\ \/ CoolingOff(cooldowns[Channel[m]], Cooldown)
     \/ CoolingOff(userCooldowns[Author[m]], UserCooldown)
  /\ Goto(m, "ignored")
  /\ UNCHANGED <<now, cooldowns, userCooldowns, waiters, queued, requests, accepted>>

\* on_message, accepted: both stamps are set, then _handle_question runs up
\* to the first query of search_documents.
Accept(m) ==
  /\ pc[m] = "unseen"
  /\ m \notin Injections
  /\ ~CoolingOff(cooldowns[Channel[m]], Cooldown)
  /\ ~CoolingOff(userCooldowns[Author[m]], UserCooldown)
  /\ cooldowns' = Stamp(cooldowns, Channel[m])
  /\ userCooldowns' = Stamp(userCooldowns, Author[m])
  /\ accepted' = [accepted EXCEPT ![m] = now]
  /\ Goto(m, "searching")
  /\ UNCHANGED <<now, waiters, queued, requests>>

\* The search returns documents and a model is configured: _run_inference.
SearchFinds(m) ==
  /\ pc[m] = "searching"
  /\ Goto(m, "waiting")
  /\ waiters' = Append(waiters, m)
  /\ UNCHANGED <<now, cooldowns, userCooldowns, queued, requests, accepted>>

\* The search returns nothing, the provider is not registered, or it is
\* db_search: the reply needs no model.
SearchSuffices(m) ==
  /\ pc[m] = "searching"
  /\ Goto(m, "replying")
  /\ UNCHANGED <<now, cooldowns, userCooldowns, waiters, queued, requests, accepted>>

\* typing() or the search raises out of on_message: no reply, stamps set.
SearchRaises(m) ==
  /\ pc[m] = "searching"
  /\ Goto(m, "done")
  /\ UNCHANGED <<now, cooldowns, userCooldowns, waiters, queued, requests, accepted>>

\* The semaphore lets its first waiter in, and provider.complete submits.
Acquire(m) ==
  /\ waiters # <<>> /\ Head(waiters) = m
  /\ SlotFree(Cardinality(Inside))
  /\ waiters' = Tail(waiters)
  /\ Goto(m, "inferring")
  /\ Submit(m)
  /\ UNCHANGED <<now, cooldowns, userCooldowns, requests, accepted>>

-----------------------------------------------------------------------------
(* /staffninja policy, from the deferred response on *)

\* The response is deferred, which may raise; an empty question or a provider
\* that is not registered is answered at once.
PolicyBegins(p) ==
  /\ pc[p] = "unseen"
  /\ \E l \in {"searching", "replying", "done"} : Goto(p, l)
  /\ UNCHANGED <<now, cooldowns, userCooldowns, waiters, queued, requests, accepted>>

\* Documents are found and a model is configured: it is asked at once.
PolicyFinds(p) ==
  /\ pc[p] = "searching"
  /\ Goto(p, "inferring")
  /\ Submit(p)
  /\ UNCHANGED <<now, cooldowns, userCooldowns, waiters, requests, accepted>>

\* Nothing is found, the search raises, which is caught here, or it is
\* db_search.
PolicySuffices(p) ==
  /\ pc[p] = "searching"
  /\ Goto(p, "replying")
  /\ UNCHANGED <<now, cooldowns, userCooldowns, waiters, queued, requests, accepted>>

-----------------------------------------------------------------------------
(* The pool and the timeout *)

\* A thread that is free takes a request and sends it.
Take(q) ==
  /\ q \in queued
  /\ Cardinality(requests) < Threads
  /\ queued' = queued \ {q}
  /\ requests' = requests \cup {q}
  /\ UNCHANGED <<now, cooldowns, userCooldowns, pc, waiters, accepted>>

\* The request ends, with an answer or an error; the coroutine, if it still
\* waits, leaves the semaphore.
RequestEnds(q) ==
  /\ q \in requests
  /\ requests' = requests \ {q}
  /\ IF pc[q] = "inferring" THEN Goto(q, "replying") ELSE UNCHANGED pc
  /\ UNCHANGED <<now, cooldowns, userCooldowns, waiters, queued, accepted>>

\* wait_for gives up: the coroutine is cancelled where it is, in the queue of
\* the semaphore or at its request; one that a thread has taken goes on.
Timeout(q) ==
  /\ pc[q] \in {"waiting", "inferring"}
  /\ Timed(pc[q])
  /\ IF pc[q] = "waiting" THEN Leave(q) ELSE UNCHANGED waiters
  /\ Cancel(q)
  /\ Goto(q, "replying")
  /\ UNCHANGED <<now, cooldowns, userCooldowns, requests, accepted>>

\* message.reply or the command's response, of an answer, an apology or a
\* refusal; or Discord refuses it, and the exception ends the coroutine.
Reply(q) ==
  /\ pc[q] \in {"replying", "refusing"}
  /\ Goto(q, "done")
  /\ UNCHANGED <<now, cooldowns, userCooldowns, waiters, queued, requests, accepted>>

Tick == /\ now < MaxTime
        /\ now' = now + 1
        /\ UNCHANGED <<cooldowns, userCooldowns, pc, waiters, queued, requests, accepted>>

\* What the event loop runs when it is ready.
Handle(m) == SearchFinds(m) \/ SearchSuffices(m) \/ SearchRaises(m) \/ Acquire(m)
Policy(p) == PolicyFinds(p) \/ PolicySuffices(p)

Next == \/ \E m \in Messages : Refuse(m) \/ Ignore(m) \/ Accept(m) \/ Handle(m)
        \/ \E p \in Policies : PolicyBegins(p) \/ Policy(p)
        \/ \E q \in Asks : Take(q) \/ RequestEnds(q) \/ Timeout(q) \/ Reply(q)
        \/ Tick

Spec == Init /\ [][Next]_vars

\* The event loop runs what is ready, database and Discord calls end, the
\* timer fires; the model's server may never answer, nor a thread be free.
FairSpec == /\ Spec
            /\ \A m \in Messages : WF_vars(Handle(m))
            /\ \A p \in Policies : WF_vars(Policy(p))
            /\ \A q \in Asks : WF_vars(Timeout(q)) /\ WF_vars(Reply(q))

-----------------------------------------------------------------------------
(* Properties *)

Moments == 0..MaxTime \cup {Never}

TypeOK ==
  /\ now \in 0..MaxTime
  /\ cooldowns \in [Channels -> 0..MaxTime]
  /\ userCooldowns \in [Authors -> 0..MaxTime]
  /\ pc \in [Asks -> PCs]
  /\ waiters \in Seq(Messages)
  /\ queued \subseteq Asks /\ requests \subseteq Asks
  /\ accepted \in [Messages -> Moments]

Apart(s, t, d) == s + d <= t \/ t + d <= s

\* Two questions the bot works on were asked a cooldown apart, in one channel
\* or by one user, however long the first answer takes: the stamps are set
\* before the first await.
AcceptedSpaced ==
  \A m, n \in Messages :
    m # n /\ accepted[m] # Never /\ accepted[n] # Never =>
      /\ Channel[m] = Channel[n] => Apart(accepted[m], accepted[n], Cooldown)
      /\ Author[m] = Author[n] => Apart(accepted[m], accepted[n], UserCooldown)

\* The questions being answered by the model never exceed the limit, and the
\* requests beyond it are the policy command's, and those of questions that
\* gave up waiting.
InferencesWithinLimit ==
  /\ Inside \subseteq queued \cup requests
  /\ Cardinality(Inside) <= MaxConcurrent

\* Who gives up leaves nothing behind that has yet to begin: each request that
\* waits for a thread has someone waiting for it, however often commands and
\* messages time out, and no more are sent at a time than there are threads.
OnlyTheAwaitedBegin ==
  /\ \A q \in queued : pc[q] = "inferring" /\ q \notin requests
  /\ Cardinality(requests) <= Threads

\* A question waits for a slot or it does not: the semaphore's queue has each
\* that does, once, and none that was let in or has timed out.
WaitersAreWaiting ==
  /\ \A m \in Messages : pc[m] = "waiting" <=> \E i \in 1..Len(waiters) : waiters[i] = m
  /\ \A i, j \in 1..Len(waiters) : waiters[i] = waiters[j] => i = j

\* Every accepted question and every policy command is done with in the end,
\* although the model may never answer and no thread be free to ask it: the
\* timeout frees the slot for those that wait.
EveryQuestionEnds ==
  \A q \in Asks : pc[q] = "searching" ~> pc[q] = "done"
=============================================================================
