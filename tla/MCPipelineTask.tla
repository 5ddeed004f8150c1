--------------------------- MODULE MCPipelineTask ---------------------------
(* One caller, the room callback of a participant who leaves. *)
EXTENDS PipelineTask

CONSTANTS leave, t1

MCReasonOf == [c \in Caller |-> "client_disconnected"]
=============================================================================
