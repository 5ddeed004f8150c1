------------------------- MODULE MCBaseProcessor -------------------------
(* Small instances of BaseProcessor for TLC. *)
EXTENDS BaseProcessor

CONSTANTS d1, d2, c1, e1, i1, i2, x1

MCKind == [f \in Frame |->
            CASE f \in {d1, d2} -> "data"
              [] f = c1 -> "call"
              [] f = e1 -> "end"
              [] f \in {i1, i2} -> "interrupt"
              [] OTHER -> "error"]
==========================================================================
