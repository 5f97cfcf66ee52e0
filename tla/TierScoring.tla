---------------------------- MODULE TierScoring ----------------------------
(* services/tier_scoring.py: from one month's rates to a supplier's tier and  *)
(* streaks.  A rate is a fraction [num, den]; thresholds are percentages.     *)
EXTENDS Integers

MIN_PO_LINES == 20
PROMOTION_STREAK_REQUIRED == 3
DEMOTION_STREAK_REQUIRED == 2

TIER_ORDER == [Silver |-> 0, Gold |-> 1, Diamond |-> 2]
Tiers == DOMAIN TIER_ORDER

Fraction == [num : Nat, den : Nat \ {0}]
AtMost(rate, percent)  == 100 * rate.num <= percent * rate.den
AtLeast(rate, percent) == 100 * rate.num >= percent * rate.den

BackorderTier(rate) ==
  IF AtMost(rate, 5) THEN "Diamond" ELSE IF AtMost(rate, 10) THEN "Gold" ELSE "Silver"
OnTimeTier(rate) ==
  IF AtLeast(rate, 95) THEN "Diamond" ELSE IF AtLeast(rate, 90) THEN "Gold" ELSE "Silver"

\* Both rates must speak for a higher tier than the present one.
Qualifies(tier, backorder, onTime) ==
  /\ TIER_ORDER[BackorderTier(backorder)] > TIER_ORDER[tier]
  /\ TIER_ORDER[OnTimeTier(onTime)] > TIER_ORDER[tier]

IsUnderperforming(backorder, onTime) == ~AtMost(backorder, 30) \/ ~AtLeast(onTime, 70)

Demote(tier)  == IF tier = "Diamond" THEN "Gold" ELSE "Silver"
Promote(tier) == IF tier = "Silver" THEN "Gold" ELSE "Diamond"

\* The streaks including this month.
NextStreaks(sup, backorder, onTime) ==
  IF IsUnderperforming(backorder, onTime)
    THEN [good |-> 0, bad |-> sup.bad + 1]
  ELSE IF Qualifies(sup.tier, backorder, onTime)
    THEN [good |-> sup.good + 1, bad |-> 0]
  ELSE [good |-> 0, bad |-> 0]

\* compute_tier_decision: what sup, a supplier's tier, lock and streaks, becomes
\* after a month with at least MIN_PO_LINES order lines.
Decide(sup, backorder, onTime) ==
  LET streaks == NextStreaks(sup, backorder, onTime)
      moved(tier) == [sup EXCEPT !.tier = tier, !.good = 0, !.bad = 0]
  IN IF ~sup.locked /\ streaks.bad >= DEMOTION_STREAK_REQUIRED /\ sup.tier # "Silver"
       THEN moved(Demote(sup.tier))
     ELSE IF ~sup.locked /\ streaks.good >= PROMOTION_STREAK_REQUIRED
       THEN moved(Promote(sup.tier))
     ELSE [sup EXCEPT !.good = streaks.good, !.bad = streaks.bad]

=============================================================================
