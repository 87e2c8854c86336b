-------------------------- MODULE MCHistoryRepair ---------------------------
(* Model checking of HistoryRepair. *)
EXTENDS HistoryRepair

\* Messages that call nothing, one tool, two tools, and the same two again.
DistinctCalls == {<<>>, <<1>>, <<1, 2>>, <<2, 1>>}
=============================================================================
