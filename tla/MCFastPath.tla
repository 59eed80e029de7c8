------------------------------ MODULE MCFastPath ------------------------------
(* Instances of FastPath for TLC: baskets over a few legs.                    *)
EXTENDS FastPath

KalshiLeg(m, side) == [platform |-> "kalshi", market |-> m, side |-> side]
PolyLeg(m, side) == [platform |-> "polymarket", market |-> m, side |-> side]

\* Two covers that share a leg: with a lower strike at Polymarket, and with the
\* other side of the same Kalshi book.
SharedLegBaskets ==
    {{KalshiLeg("above 100", "NO"), PolyLeg("above 90", "YES")},
     {KalshiLeg("above 100", "NO"), KalshiLeg("above 100", "YES")}}

\* A cover bought on two platforms, NO at the second.
CrossBasket == {{KalshiLeg("above 100", "YES"), PolyLeg("above 100", "NO")}}
===============================================================================
