------------------------------ MODULE MCTicker ------------------------------
(* The metered room with one strategic engine on a small instance.          *)
EXTENDS Ticker

MCTwoSids == 1..2
============================================================================
