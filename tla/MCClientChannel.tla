-------------------------- MODULE MCClientChannel --------------------------
(* ClientChannel, with its refinement mapping, and the
   constants the configurations give values to. *)
EXTENDS ClientContract

CONSTANTS a, b, c

(* Two requests of the same size and one that differs. *)
MCSize == [x \in Calls |-> IF x = b THEN 2 ELSE 1]
=============================================================================
