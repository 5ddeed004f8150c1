---------------------------- MODULE MCLLMRouter -----------------------------
(* Two calls, a group of one endpoint and a fallback group of another.     *)
EXTENDS LLMRouter
=============================================================================
