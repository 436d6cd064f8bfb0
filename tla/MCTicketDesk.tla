---------------------------- MODULE MCTicketDesk ----------------------------
(* The ticket desk on a small instance.                                    *)
EXTENDS TicketDesk, TLC

MCSids == 1..1
MCSymmetry == Permutations(Workers)
============================================================================
