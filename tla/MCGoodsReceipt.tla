--------------------------- MODULE MCGoodsReceipt ---------------------------
(***************************************************************************)
(* Instances of GoodsReceipt for TLC: two purchase orders that share       *)
(* products, so that completions of different POs meet on product rows.    *)
(***************************************************************************)
EXTENDS GoodsReceipt, TLC

CONSTANTS nut, bolt, po1, po2

\* Two PO lines on the first PO, one on the second.
OrderedShared == (po1 :> (nut :> 2 @@ bolt :> 1)) @@ (po2 :> (nut :> 1 @@ bolt :> 1))

\* One unit of each product on each PO.
OrderedPair == [po \in POs |-> [p \in Products |-> 1]]

OrderedOne == po1 :> (nut :> 2 @@ bolt :> 0)

ReorderPoints == [p \in Products |-> 1]
Overrides == [p \in Products |-> IF p = nut THEN 0 ELSE None]

Symmetric == Permutations(Sessions) \cup Permutations(GRNs)
=============================================================================
