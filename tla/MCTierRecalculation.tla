------------------------ MODULE MCTierRecalculation ------------------------
(* An instance of TierRecalculation: two suppliers, two months.               *)
EXTENDS TierRecalculation

CONSTANTS acme, apex

\* Rates of backorders of 0.05 and 0.33, the one good enough for Diamond, the other
\* too bad for any tier.  A month without orders has too few lines.
SomeVolumes == {[lines |-> 20, backorders |-> 1], [lines |-> 21, backorders |-> 7]}

\* Only one of the two receives orders, in the month the schedule is for.
FirstMonth == {<<acme, 1>>}

=============================================================================
