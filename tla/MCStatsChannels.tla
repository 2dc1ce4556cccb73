-------------------------- MODULE MCStatsChannels --------------------------
(* Values of StatsChannels' constants for the model checker. *)
EXTENDS StatsChannels

CONSTANTS active, agreements, loop, resumed

Both == <<active, agreements>>

\* Nothing, or a channel and two duplicates.
Left == {<<>>, <<2, 1, 1>>}
=============================================================================
