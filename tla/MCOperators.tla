---------------------------- MODULE MCOperators ----------------------------
(* The store and its operator on a small instance.                         *)
EXTENDS Operators
MCTwoSids == 1..2
============================================================================
