----------------------------- MODULE MCNetStack ------------------------------
(* NetStack for TLC: one lease with a router and one without.               *)
EXTENDS NetStack

TwoLeases == { [ip |-> 1, router |-> 9], [ip |-> 2, router |-> None] }
=============================================================================
