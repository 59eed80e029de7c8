--------------------------- MODULE MCStructuralScout ---------------------------
(* Instances of StructuralScout for TLC.  A cent is 6 and a dollar 24, so 18 is  *)
(* a strike of 99 cents; bounds of states are even, so every state has an odd    *)
(* price inside.                                                                 *)
EXTENDS StructuralScout

Terms(platform, source, shape, strike, floor, cap, atStrike) ==
    [platform |-> platform, source |-> source, shape |-> shape, strike |-> strike,
     floor |-> floor, cap |-> cap, atStrike |-> atStrike, window |-> 0]

KalshiAbove(x)     == Terms("kalshi", "cf", "above", x, x, Top, FALSE)
KalshiBelow(x)     == Terms("kalshi", "cf", "below", x, Bottom, x, TRUE)
KalshiRange(l, h)  == Terms("kalshi", "cf", "range", IF h = Top THEN l ELSE h, l, h, TRUE)
PolymarketAbove(x) == Terms("polymarket", "binance", "above", x, Bottom, Top, FALSE)
PolymarketBelow(x) == Terms("polymarket", "binance", "below", x, Bottom, Top, FALSE)
CdnaAbove(x)       == Terms("cdna", "cdna_display", "above", x, Bottom, Top, FALSE)
CdnaOnCf(x)        == Terms("cdna", "cf", "below", x, Bottom, Top, TRUE)
Up(platform, source, atStart) == Terms(platform, source, "up", 14, Bottom, Top, atStart)

FamilyGroup  == <<KalshiRange(Bottom, 12), KalshiRange(12, 24), KalshiRange(24, Top),
                  PolymarketAbove(24)>>
LadderGroup  == <<KalshiAbove(6), KalshiAbove(18), PolymarketAbove(12)>>
MixedGroup   == <<KalshiBelow(12), KalshiRange(6, Top), CdnaOnCf(8)>>
SnapshotGroup == <<PolymarketBelow(12), PolymarketAbove(6), CdnaAbove(8)>>
WindowGroup  == <<Up("kalshi", "cf", TRUE), Up("polymarket", "binance", TRUE)>>
FineGroup    == <<KalshiAbove(4), PolymarketAbove(8)>>

TerminalGroups == {FamilyGroup, LadderGroup, MixedGroup, SnapshotGroup, WindowGroup, FineGroup}

Quote(yesAsk, noAsk, yesBid, noBid, sized, fresh) ==
    [yesAsk |-> yesAsk, noAsk |-> noAsk, yesBid |-> yesBid, noBid |-> noBid,
     sized |-> sized, fresh |-> fresh]

QuoteSet == {Quote(30, 60, 25, 35, TRUE, TRUE), Quote(60, 30, 35, 25, TRUE, TRUE),
             Quote(30, None, 65, 25, TRUE, TRUE), Quote(30, 30, 25, 25, FALSE, TRUE),
             Quote(30, 30, 25, 25, TRUE, FALSE)}

Mode(mode, acceptCdna, anyDepth) ==
    [mode |-> mode, acceptCdna |-> acceptCdna, anyDepth |-> anyDepth]

OptionSet == {Mode("conservative", TRUE, FALSE), Mode("standard", TRUE, FALSE),
              Mode("aggressive", FALSE, TRUE)}

Fees == [kalshi |-> 2, polymarket |-> 1, cdna |-> 2]

ASSUME InstanceIsResolved == Resolved
================================================================================
