-------------------------- MODULE MCPlannedExecution --------------------------
(* Instances of PlannedExecution for TLC: a few legs, and the baskets they    *)
(* form.                                                                      *)
EXTENDS PlannedExecution

Leg(platform, market, side, ask, size) ==
    [platform |-> platform, market |-> market, side |-> side, ask |-> ask,
     fee |-> 2, size |-> size, complement |-> FALSE]

\* Three legs of different markets: cheap or dear, thin, deep or of unknown depth.
DistinctBaskets ==
    {<<a, b, c>> :
        a \in {Leg("kalshi", "m1", "YES", ask, size) : ask \in {19, 40}, size \in {3, 40}},
        b \in {Leg(p, "m2", "NO", 24, size) : p \in {"kalshi", "polymarket"},
                                              size \in {2, 40}},
        c \in {Leg("polymarket", "m3", "YES", ask, size) : ask \in {12, 24},
                                                           size \in {NoSize, 3}}}
================================================================================
