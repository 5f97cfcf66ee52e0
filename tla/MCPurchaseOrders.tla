-------------------------- MODULE MCPurchaseOrders --------------------------
(* An instance of PurchaseOrders: two sessions, two orders of one supplier.   *)
EXTENDS PurchaseOrders, TLC

CONSTANTS s1, s2, po1, po2, bolt, nut, acme

Symmetric == Permutations(Sessions) \cup Permutations(POs)

\* A line of 0.0149 makes a total of 0.01, two of them one of 0.03: the
\* rounding goes both ways.  A limit of 0.02 takes two orders of one line.
OddCents == {149}
TwoCents == {0, 2}

=============================================================================
