-------------------------- MODULE MCNetbootControl --------------------------
(* Small instances of NetbootControl. *)
EXTENDS NetbootControl, TLC

CONSTANTS m1, m2, m3, m4

OnePuck  == {[eth0 |-> m1, eth1 |-> m2]}
TwoPucks == OnePuck \cup {[eth0 |-> m3, eth1 |-> m4]}

HandlerSymmetry == Permutations(Handlers)
=============================================================================
