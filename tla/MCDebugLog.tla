----------------------------- MODULE MCDebugLog -----------------------------
(***************************************************************************)
(* DebugLog for TLC, with the properties of the forwarding: four records,  *)
(* two of them of more than one chunk and one of a library.  LogSplit, the *)
(* cutting of a record into the chunks that DebugLog counts, is checked    *)
(* beside it: a behaviour is one of either machine, the other at rest.     *)
(***************************************************************************)
EXTENDS DebugLog, LogSplit

SomeChunks == <<2, 1, 2, 1>>

MCVars == <<vars, splitVars>>

\* No message to cut.
SplitAtRest == message = <<>> /\ remaining = <<>> /\ parts = <<>> /\ returned = TRUE

\* Every record logged and posted, and nobody left to delete the channel.
LogAtRest ==
  /\ \E c \in Channels :
       /\ channel = [d \in Channels |-> IF d = c THEN "open" ELSE "absent"]
       /\ forwarders = <<[to |-> c, record |-> 0, sent |-> 0]>>
  /\ task = 1 /\ installed = TRUE
  /\ queue = <<>> /\ logged = MaxRecords /\ faults = MaxFaults
  /\ creating = [t \in Triggers |-> "no"]
  /\ posted = [c \in Channels |-> <<>>]

MCInit == (Init /\ SplitAtRest) \/ (LogAtRest /\ SplitInit)
MCNext == (Next /\ UNCHANGED splitVars) \/ (SplitNext /\ UNCHANGED vars)
MCSpec == MCInit /\ [][MCNext]_MCVars /\ Fairness

-----------------------------------------------------------------------------
(* Properties *)

\* Whoever enters ensure_debug_log_forwarding while whoever else waits for
\* Discord, no record is posted twice: of all the places a record may be in,
\* the queue, the hands of a forwarder and the posts of the channels, it is in
\* one, and no chunk of it is in two channels or twice in one.
PostedOnce ==
  /\ IsInjective(queue)
  /\ \A f, g \in DOMAIN forwarders :
       f # g /\ forwarders[f].record # 0 => forwarders[f].record # forwarders[g].record
  /\ \A f \in DOMAIN forwarders : forwarders[f].record \notin Range(queue)
  /\ \A c, d \in Channels : \A i \in DOMAIN posted[c], j \in DOMAIN posted[d] :
       /\ posted[c][i][1] \notin Range(queue)
       /\ posted[c][i] = posted[d][j] => c = d /\ i = j

\* As long as overlapping callers have not started a second forwarder, a
\* channel shows the log's order: no record before an earlier one, the chunks
\* of a record in order, together, and none without those before it.
PostedInOrder ==
  Len(forwarders) <= 1 => \A c \in Channels : \A i \in DOMAIN posted[c] :
    LET this == posted[c][i]
        last == IF i = 1 THEN <<0, 0>> ELSE posted[c][i - 1]
    IN  \/ this[1] > last[1] /\ this[2] = 1
        \/ this[1] = last[1] /\ this[2] = last[2] + 1

\* A record that was queued does not stay there, however often Discord
\* refuses the channel: the loop tries again.
QueueDrains == \A r \in 1..MaxRecords : r \in Range(queue) ~> r \notin Range(queue)
=============================================================================
