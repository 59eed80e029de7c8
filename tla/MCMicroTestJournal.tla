-------------------------- MODULE MCMicroTestJournal --------------------------
(* Instances of MicroTestJournal for TLC: two legs, each quoted at 45 cents   *)
(* with a fee of 2 cents a contract, so that they are interchangeable.  At 49   *)
(* cents and a fee of 1 cent a fill, two contracts of each pay off, one does  *)
(* not.                                                                       *)
EXTENDS MicroTestJournal, TLC

CONSTANTS a, b

TwoLegs == {a, b}
Asks == [l \in TwoLegs |-> 45]
LegFees == [l \in TwoLegs |-> 2]
LegSymmetry == Permutations(TwoLegs)
================================================================================
