---------------------------- MODULE HedgedPurchase ----------------------------
(***************************************************************************)
(* What one live execution of a guarded micro-test promises about the      *)
(* contracts it ends up holding, with nothing about orders, polling,       *)
(* cancels or the kill switch.                                             *)
(*                                                                         *)
(* A basket has Legs 1..N, bought one after the other.  The first leg may  *)
(* be bought up to the planned quantity; every other leg is a hedge and is *)
(* bought only as far as each leg before it is already held.  Nothing is   *)
(* ever sold, so holdings only grow.                                       *)
(*                                                                         *)
(* LiveExecution implements this module (LiveExecution!ImplementsPurchase).*)
(***************************************************************************)
EXTENDS Integers

CONSTANTS
    N,            \* number of legs of the basket
    QuantityCap   \* quantity planned for every leg

VARIABLE bought   \* bought[k]: contracts of leg k held

Legs == 1..N

Init == bought = [k \in Legs |-> 0]

\* n more contracts of leg k are bought.
Buy(k, n) ==
    /\ bought[k] + n <= QuantityCap
    /\ \A j \in 1..(k - 1) : bought[k] + n <= bought[j]
    /\ bought' = [bought EXCEPT ![k] = @ + n]

Next == \E k \in Legs, n \in 1..QuantityCap : Buy(k, n)

Spec == Init /\ [][Next]_bought
===============================================================================
