----------------------------- MODULE MCPayoffFamily -----------------------------
(***************************************************************************)
(* Families of three contracts for PayoffFamily: one whose states keep     *)
(* each type's promise, and two whose states do not, one of them with      *)
(* denominators other than 1.  Three more are blocked: a ladder without    *)
(* its thresholds, a type that is not supported, and two contracts.        *)
(***************************************************************************)
EXTENDS PayoffFamily

Family(type, states) == [type |-> type, states |-> states, complete |-> TRUE]

Ladder == <<<<0,0,0>>, <<0,0,1>>, <<0,1,1>>, <<1,1,1>>>>

MCFamilies ==
    {Family("exhaustive_group", <<<<1,0,0>>, <<0,1,0>>, <<0,0,1>>>>),
     Family("mutually_exclusive_group", <<<<0,0,0>>, <<1,0,0>>, <<0,1,0>>, <<0,0,1>>>>),
     Family("child_parent", <<<<0,0,0>>, <<0,1,0>>, <<1,1,0>>, <<0,0,1>>, <<0,1,1>>>>),
     Family("threshold_ladder", Ladder),
     Family("exhaustive_group", <<<<1,1,0>>, <<1,0,1>>, <<0,1,1>>>>),
     Family("threshold_ladder", <<<<0,0,0>>, <<1,1,0>>, <<1,0,1>>, <<0,1,1>>>>),
     [Family("threshold_ladder", Ladder) EXCEPT !.complete = FALSE],
     Family("conditional", Ladder),
     Family("exhaustive_group", <<<<1,0>>, <<0,1>>>>)}
===============================================================================
