---------------------------- MODULE MCCallEdges -----------------------------
(* One call: two join attempts, two dials, room for one audio frame.       *)
EXTENDS CallEdges

MCCalls == {<<"sales", "daily">>, <<"followup", "livekit">>}
MCDailySales == {<<"sales", "daily">>}
=============================================================================
