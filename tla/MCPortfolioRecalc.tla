------------------------- MODULE MCPortfolioRecalc -------------------------
(***************************************************************************)
(* The databases the runs of PortfolioRecalc start from, up to a renaming  *)
(* of the accounts and of the activities, and their calendar.              *)
(***************************************************************************)
EXTENDS PortfolioRecalc

CONSTANTS a1, x

Trade(d) == [account |-> a1, day |-> d, kind |-> "trade"]
Stored(rec) == [i \in Activity |-> IF i = x THEN rec ELSE NoActivity]

\* One trade on the first day; the other id is free.
OneTrade == {Stored(Trade(1))}

\* The first two days are in a month that is past.
TwoMonths == <<1, 1, 2>>
=============================================================================
