------------------------------ MODULE MCSandbox ------------------------------
(* Two cells of one session and one of another, on two variables. *)
EXTENDS Sandbox

CONSTANTS first, second, foreign, a, b, x, y

MCCells     == {first, second, foreign}
MCSessions  == {a, b}
MCSessionOf == [c \in MCCells |-> IF c = foreign THEN b ELSE a]
MCNames     == {x, y}
==============================================================================
