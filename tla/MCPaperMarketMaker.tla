-------------------------- MODULE MCPaperMarketMaker --------------------------
(* Instances of PaperMarketMaker for TLC: a book to quote in and a tight one. *)
EXTENDS PaperMarketMaker

WideAndTight ==
    {[bid |-> 40, ask |-> 50, depth |-> 20, open |-> TRUE],
     [bid |-> 46, ask |-> 50, depth |-> 20, open |-> TRUE]}
===============================================================================
