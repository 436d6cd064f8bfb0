--------------------------- MODULE MCMeteredRoom ---------------------------
(* The metered room on a small instance.                                   *)
EXTENDS MeteredRoom

MCSids == 1..3
MCTwoSids == 1..2
============================================================================
