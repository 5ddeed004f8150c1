---------------------------- MODULE MCCallRecord ----------------------------
(* Two racing callers; an update, a tool result and a user turn; a database *)
(* that holds two parallel tool calls of an earlier call and a debug chunk. *)
EXTENDS CallRecord

CONSTANTS leave, talktime, joined, tool, turn

MCReasonOf == [c \in Caller |-> IF c = leave THEN "client_disconnected"
                                ELSE "talk_time_exhausted"]

MCEventKind == [e \in Event |-> CASE e = joined -> "update"
                                  [] e = tool -> "tool"
                                  [] OTHER -> "user"]

MCPrior ==
    <<[Plain(<<"p1", "call">>, "assistant") EXCEPT !.calls = <<"a", "b">>,
                                                   !.other = TRUE],
      [Plain(<<"p1", "b">>, "tool") EXCEPT !.answers = "b", !.other = TRUE],
      [Plain(<<"p1", "a">>, "tool") EXCEPT !.answers = "a", !.other = TRUE],
      [Plain(<<"p2", "log">>, "assistant") EXCEPT !.debug = TRUE]>>

MCResume == [named |-> TRUE, dated |-> TRUE, gracefully |-> TRUE,
             recent |-> FALSE]
=============================================================================
