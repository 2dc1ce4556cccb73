------------------------------ MODULE DebugLog ------------------------------
(***************************************************************************)
(* Forwarding of log records to a Discord channel: the logging handler     *)
(* fills a bounded queue, ensure_debug_log_forwarding finds or creates the *)
(* channel and starts a forwarder, a forwarder posts what it takes from    *)
(* the queue, chunk by chunk.                                              *)
(*                                                                         *)
(* on_ready, on_resumed and the periodic loop are the triggers: each is a  *)
(* coroutine that may be suspended in create_text_channel while another    *)
(* one enters ensure_debug_log_forwarding.  A record is its position in    *)
(* the log; the bot's own records are among them.                          *)
(***************************************************************************)
EXTENDS Naturals, Sequences, SequencesExt, FiniteSets

CONSTANTS Triggers,    \* callers of ensure_debug_log_forwarding
          Loop,        \* periodic_command_resync_loop, the one that comes back
          Channels,    \* bound: channels of that name the guild may come to have
          None,        \* no channel, no task
          QueueMax,    \* DEBUG_LOG_QUEUE_MAXSIZE
          MaxRecords,  \* bound: records logged
          Chunks,      \* how many parts _split_log_message cuts a record into
          Library,     \* records of discord, aiohttp and asyncio
          MaxFaults    \* bound: calls to Discord that raise, a guild or a
                       \* permission that is missing, a channel deleted

ASSUME DebugLogAssumption ==
  /\ Loop \in Triggers /\ None \notin Channels
  /\ QueueMax \in Nat \ {0} /\ MaxRecords \in Nat /\ MaxFaults \in Nat
  /\ Chunks \in [1..MaxRecords -> Nat \ {0}]
  /\ Library \subseteq 1..MaxRecords

VARIABLES
  channel,    \* [Channels -> "absent", "open" or "deleted"]
  installed,  \* debug_log_handler_installed
  task,       \* debug_log_task: the forwarder last started, or None
  forwarders, \* those started: [to, record, sent], record = 0 while it waits
  queue,      \* debug_log_queue
  creating,   \* [Triggers -> "no", "asked", or the channel Discord made for it]
  logged,     \* records logged so far
  posted,     \* [Channels -> the <<record, chunk>> posted to it]
  faults

vars == <<channel, installed, task, forwarders, queue, creating, logged, posted, faults>>
ofDiscord == <<channel, posted>>
ofQueue == <<queue, logged>>

Fault == faults < MaxFaults /\ faults' = faults + 1

-----------------------------------------------------------------------------
(* The handler *)

\* emit queues a record unless a library logged it or the queue is full.
Accepts(r) == r \notin Library /\ Len(queue) < QueueMax

Emit ==
  /\ logged < MaxRecords
  /\ logged' = logged + 1
  /\ queue' = IF installed /\ Accepts(logged') THEN Append(queue, logged') ELSE queue
  /\ UNCHANGED <<ofDiscord, installed, task, forwarders, creating, faults>>

-----------------------------------------------------------------------------
(* ensure_debug_log_forwarding *)

\* debug_log_task is not None and not debug_log_task.done(): a forwarder only
\* ends when the bot closes.
ForwardingInstalled == installed
Forwarding == task # None

Open == {c \in Channels : channel[c] = "open"}

\* asyncio.create_task(debug_log_forwarder_loop(channel))
Forward(c) == /\ forwarders' = Append(forwarders, [to |-> c, record |-> 0, sent |-> 0])
              /\ task' = Len(forwarders')

\* What every call does first; it returns there when records are forwarded.
Enter(t) == creating[t] = "no" /\ installed' = TRUE /\ ~Forwarding

NoGuild(t) ==
  /\ Enter(t)
  /\ Fault
  /\ UNCHANGED <<ofDiscord, ofQueue, task, forwarders, creating>>

UseChannel(t) ==
  /\ Enter(t)
  /\ \E c \in Open : Forward(c)
  /\ UNCHANGED <<ofDiscord, ofQueue, creating, faults>>

NotAllowed(t) ==
  /\ Enter(t)
  /\ Open = {}
  /\ Fault
  /\ UNCHANGED <<ofDiscord, ofQueue, task, forwarders, creating>>

Ask(t) ==
  /\ Enter(t)
  /\ Open = {}
  /\ creating' = [creating EXCEPT ![t] = "asked"]
  /\ UNCHANGED <<ofDiscord, ofQueue, task, forwarders, faults>>

\* Discord makes the channel; the gateway may tell the bot before the response.
Make(t) ==
  /\ creating[t] = "asked"
  /\ \E c \in Channels :
       /\ channel[c] = "absent"
       /\ channel' = [channel EXCEPT ![c] = "open"]
       /\ creating' = [creating EXCEPT ![t] = c]
  /\ UNCHANGED <<ofQueue, installed, task, forwarders, posted, faults>>

Made(t) ==
  /\ creating[t] \in Channels
  /\ Forward(creating[t])
  /\ creating' = [creating EXCEPT ![t] = "no"]
  /\ UNCHANGED <<ofDiscord, ofQueue, installed, faults>>

CreateRaises(t) ==
  /\ creating[t] # "no"
  /\ Fault
  /\ creating' = [creating EXCEPT ![t] = "no"]
  /\ UNCHANGED <<ofDiscord, ofQueue, installed, task, forwarders>>

-----------------------------------------------------------------------------
(* debug_log_forwarder_loop *)

Get(f) ==
  /\ forwarders[f].record = 0
  /\ queue # <<>>
  /\ queue' = Tail(queue)
  /\ forwarders' = [forwarders EXCEPT ![f] = [@ EXCEPT !.record = Head(queue), !.sent = 0]]
  /\ UNCHANGED <<ofDiscord, installed, task, creating, logged, faults>>

Waiting(w) == [w EXCEPT !.record = 0, !.sent = 0]

\* One chunk; the next one is another await.
Send(f) ==
  LET w == forwarders[f]  sent == w.sent + 1
  IN  /\ w.record # 0
      /\ channel[w.to] = "open"
      /\ posted' = [posted EXCEPT ![w.to] = Append(@, <<w.record, sent>>)]
      /\ forwarders' = [forwarders EXCEPT ![f] = IF sent = Chunks[w.record] THEN Waiting(w)
                                                 ELSE [w EXCEPT !.sent = sent]]
      /\ UNCHANGED <<ofQueue, channel, installed, task, creating, faults>>

\* What raises drops the rest of its record, and nothing is logged of it.
DropsChunk(w) == IF w.sent + 1 = Chunks[w.record] THEN Waiting(w) ELSE [w EXCEPT !.sent = @ + 1]
DropsNothing(w) == [w EXCEPT !.sent = 0]
Drops(w) == Waiting(w)

SendRaises(f) ==
  /\ forwarders[f].record # 0
  /\ IF channel[forwarders[f].to] = "open" THEN Fault ELSE UNCHANGED faults
  /\ forwarders' = [forwarders EXCEPT ![f] = Drops(@)]
  /\ UNCHANGED <<ofDiscord, ofQueue, installed, task, creating>>

-----------------------------------------------------------------------------
(* The members of the guild who may manage its channels *)

Delete(c) ==
  /\ channel[c] = "open"
  /\ Fault
  /\ channel' = [channel EXCEPT ![c] = "deleted"]
  /\ UNCHANGED <<ofQueue, installed, task, forwarders, creating, posted>>

-----------------------------------------------------------------------------
\* The guild may or may not have the channel when the bot starts.
Init == /\ \E c \in Channels : channel \in {[d \in Channels |-> "absent"],
                                            [d \in Channels |-> IF d = c THEN "open" ELSE "absent"]}
        /\ installed = FALSE
        /\ task = None
        /\ forwarders = <<>>
        /\ queue = <<>>
        /\ creating = [t \in Triggers |-> "no"]
        /\ logged = 0
        /\ posted = [c \in Channels |-> <<>>]
        /\ faults = 0

Begin(t) == NoGuild(t) \/ UseChannel(t) \/ NotAllowed(t) \/ Ask(t)
Answer(t) == Make(t) \/ Made(t) \/ CreateRaises(t)
Forwarder(f) == Get(f) \/ Send(f) \/ SendRaises(f)

Next == \/ Emit
        \/ \E t \in Triggers : Begin(t) \/ Answer(t)
        \/ \E f \in DOMAIN forwarders : Forwarder(f)
        \/ \E c \in Channels : Delete(c)

Spec == Init /\ [][Next]_vars

\* The loop comes back every COMMAND_RESYNC_MINUTES, Discord answers every
\* call, and a task that can run does.
Fairness == /\ WF_vars(Begin(Loop))
            /\ \A t \in Triggers : WF_vars(Answer(t))
            /\ \A f \in 1..Cardinality(Triggers) :
                 WF_vars(f \in DOMAIN forwarders /\ Forwarder(f))

FairSpec == Spec /\ Fairness
=============================================================================
