---------------------------- MODULE MCQuoteSync ----------------------------
(***************************************************************************)
(* Instances of QuoteSync for TLC: one provider, or two with the same      *)
(* history.                                                                *)
(***************************************************************************)
EXTENDS QuoteSync

CONSTANTS p1, p2

OneProvider == <<p1>>
TwoProviders == <<p1, p2>>
OneStart == [p \in {p1} |-> 0]
SameStart == [p \in {p1, p2} |-> 0]

=============================================================================
