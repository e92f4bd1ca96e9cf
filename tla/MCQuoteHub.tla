----------------------------- MODULE MCQuoteHub -----------------------------
(***************************************************************************)
(* Instances of QuoteHub for TLC.                                          *)
(***************************************************************************)
EXTENDS QuoteHub, TLC

CONSTANTS u1, c1, c2, c3, s1, s2

\* c1 and c2 belong to one user; c3, where there is one, has no valid token.
MCUserOf == [c \in Conns |-> IF c = c3 THEN Anonymous ELSE u1]

\* c1 and c2 are interchangeable in UserOf, and so are the symbols.
MCSymmetry == Permutations({c1, c2}) \cup Permutations(Symbols)
=============================================================================
