---- MODULE MCTTSProcessor ----
(* A few frames, one interrupt and channels of capacity one. *)
EXTENDS TTSProcessor
===============================
