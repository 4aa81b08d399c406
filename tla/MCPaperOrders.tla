--------------------------- MODULE MCPaperOrders ---------------------------
(* TLC instances of the order core.                                        *)
EXTENDS PaperOrders, TLC

Q(b, a) == [bid |-> b, ask |-> a, ltp |-> 0]

\* A book under a limit of 3 and one above it: a buy rests in the high one
\* and the low one trades through it, a sell the other way round.
TwoQuotes == {Q(1, 2), Q(4, 5)}
\* The same in quanta of half a money quantum.
TwoWideQuotes == {Q(2, 4), Q(8, 10)}
OneQuote == {Q(1, 2)}
OneClaim == [c \in Security |-> Strategy]
Symmetry == Permutations(Session)
=============================================================================
