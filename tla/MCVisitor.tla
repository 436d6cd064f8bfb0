----------------------------- MODULE MCVisitor -----------------------------
(* Two browsers with a tab each.                                           *)
EXTENDS Visitor

MCSids == 1..3
MCBrowserOf == [p \in Pages |-> p]
============================================================================
