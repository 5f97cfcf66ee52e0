---------------------- MODULE TierRecalculationProofs ----------------------
(***************************************************************************)
(* Proofs about TierRecalculation, for any suppliers, any volume of orders *)
(* and any number of months and attempts.                                  *)
(*                                                                         *)
(* The invariant has two parts: what holds of the suppliers, their history *)
(* and the attempts, and where the run may be.  Only commits touch the     *)
(* first in a way that matters.                                            *)
(***************************************************************************)
EXTENDS TierRecalculation, FiniteSetTheorems, TLAPS

USE NoneAssumption

DataOK ==
  /\ asTested \in BOOLEAN
  /\ now \in Months /\ due \in BOOLEAN /\ schedule \in Months \cup {None}
  /\ row \in [Suppliers -> Row]
  /\ standing \in [Suppliers -> {"active", "inactive", "deleted"}]
  /\ volume \in [Suppliers -> [Months -> Volumes \cup {Nothing}]]
  /\ history \in [Suppliers -> [Months -> History \cup {None}]]
  /\ attempt \in [Suppliers -> Row \cup {None}]
  /\ \A s \in Suppliers : AttemptCurrent(s)
  /\ RowTellsTier
  /\ OneMonthOnly

RunOK ==
  /\ step \in Steps
  /\ ids \subseteq Suppliers /\ queue \subseteq ids
  /\ at \in Suppliers \cup {None}
  /\ failed \in Nat
  /\ counts \in [Counters -> Nat]
  /\ step # "idle" => schedule # None
  /\ step \in {"calculate", "notify"} => asTested /\ at # None

\* The invariant speaks of the suppliers' data and of the run.
LEMMA IInvParts == IInv <=> DataOK /\ RunOK
BY DEF IInv, TypeOK, DataOK, RunOK

\* At first there is neither a run nor a history row.
LEMMA IInvInit == Init => IInv
<1> SUFFICES ASSUME Init PROVE IInv
  OBVIOUS
<1>1. row \in [Suppliers -> Row]
  <2>1. \A t \in FirstTiers : [tier |-> t, locked |-> FALSE, good |-> 0, bad |-> 0] \in Row
    BY BoundsAssumption DEF Row
  <2> QED
    BY <2>1 DEF Init
<1>2. now \in Months
  BY NumbersAssumption DEF Init, Months
<1>3. counts \in [Counters -> Nat]
  BY DEF Init, Zero
<1>4. DataOK
  BY <1>1, <1>2 DEF Init, DataOK, AttemptCurrent, RowTellsTier, OneMonthOnly
<1>5. RunOK
  BY <1>3 DEF Init, RunOK, Steps
<1> QED
  BY <1>4, <1>5, IInvParts

-----------------------------------------------------------------------------
(* What an attempt decides. *)

\* The placeholder for deliveries on time speaks for Gold, never for Diamond.
LEMMA PlaceholderIsGold == OnTimeTier(OnTimeRate) = "Gold"
BY DEF OnTimeTier, OnTimeRate, AtLeast

\* With the placeholder, a supplier is moved only when the lock is off, one rank
\* up from Silver or one rank down.
LEMMA DecideMoves ==
  ASSUME NEW sup \in Row, NEW backorder \in Fraction
  PROVE  LET new == Decide(sup, backorder, OnTimeRate) IN
         /\ new \in Row
         /\ new.locked = sup.locked
         /\ new.tier # sup.tier =>
              /\ ~sup.locked /\ new.tier # "Diamond"
              /\ TIER_ORDER[new.tier] - TIER_ORDER[sup.tier] \in {-1, 1}
<1> DEFINE streaks == NextStreaks(sup, backorder, OnTimeRate)
           moved(tier) == [sup EXCEPT !.tier = tier, !.good = 0, !.bad = 0]
           kept == [sup EXCEPT !.good = streaks.good, !.bad = streaks.bad]
           new == Decide(sup, backorder, OnTimeRate)
<1>1. Qualifies(sup.tier, backorder, OnTimeRate) => sup.tier = "Silver"
  BY PlaceholderIsGold DEF Row, Qualifies, TIER_ORDER, Tiers
<1>2. streaks \in [good : Nat, bad : Nat] /\ (streaks.good > 0 => sup.tier = "Silver")
  BY <1>1 DEF Row, NextStreaks
<1>3. \/ ~sup.locked /\ sup.tier # "Silver" /\ new = moved(Demote(sup.tier))
      \/ ~sup.locked /\ streaks.good > 0 /\ new = moved(Promote(sup.tier))
      \/ new = kept
  BY <1>2 DEF Decide, PROMOTION_STREAK_REQUIRED
<1>4. \A tier \in Tiers :
        moved(tier) \in Row /\ moved(tier).tier = tier /\ moved(tier).locked = sup.locked
  BY DEF Row
<1>5. kept \in Row /\ kept.tier = sup.tier /\ kept.locked = sup.locked
  BY <1>2 DEF Row
<1>6. /\ Demote(sup.tier) \in Tiers /\ Promote(sup.tier) \in Tiers
      /\ Demote(sup.tier) # "Diamond"
      /\ sup.tier # "Silver" => TIER_ORDER[Demote(sup.tier)] - TIER_ORDER[sup.tier] = -1
      /\ sup.tier = "Silver" => /\ Promote(sup.tier) = "Gold"
                                /\ TIER_ORDER[Promote(sup.tier)] - TIER_ORDER[sup.tier] = 1
  BY DEF Row, Promote, Demote, TIER_ORDER, Tiers
<1>7. new \in Row /\ new.locked = sup.locked
  BY <1>3, <1>4, <1>5, <1>6
<1>8. ASSUME new.tier # sup.tier
      PROVE  /\ ~sup.locked /\ new.tier # "Diamond"
             /\ TIER_ORDER[new.tier] - TIER_ORDER[sup.tier] \in {-1, 1}
  <2> HIDE DEF moved, kept, new, streaks
  <2>1. CASE ~sup.locked /\ sup.tier # "Silver" /\ new = moved(Demote(sup.tier))
    <3>1. new.tier = Demote(sup.tier)
      BY <1>4, <1>6, <2>1
    <3> QED
      BY <1>6, <2>1, <3>1
  <2>2. CASE ~sup.locked /\ streaks.good > 0 /\ new = moved(Promote(sup.tier))
    <3>1. new.tier = Promote(sup.tier) /\ sup.tier = "Silver"
      BY <1>2, <1>4, <1>6, <2>2
    <3> QED
      BY <1>6, <2>2, <3>1
  <2>3. CASE new = kept
    BY <1>5, <1>8, <2>3
  <2> QED
    BY <1>3, <2>1, <2>2, <2>3
<1> QED
  BY <1>7, <1>8

\* What the attempt for s decides, on the supplier as it still is.
LEMMA DecisionMoves ==
  ASSUME DataOK, NEW s \in Suppliers, attempt[s] # None
  PROVE  /\ attempt[s] \in Row /\ row[s] \in Row /\ asTested /\ schedule \in Months
         /\ attempt[s].tier = row[s].tier
         /\ Decision(s) \in Row
         /\ Decision(s).tier # row[s].tier =>
              /\ ~attempt[s].locked /\ Decision(s).tier # "Diamond"
              /\ TIER_ORDER[Decision(s).tier] - TIER_ORDER[row[s].tier] \in {-1, 1}
<1>1. /\ attempt[s] \in Row /\ row[s] \in Row /\ asTested /\ schedule \in Months
      /\ attempt[s].tier = row[s].tier
  BY DEF DataOK, AttemptCurrent
<1> DEFINE v == volume[s][schedule]
<1>2. v \in [lines : Nat, backorders : Nat]
  BY <1>1, VolumesAssumption DEF DataOK, Nothing
<1>3. CASE Scored(v)
  <2>1. BackorderRate(v) \in Fraction
    BY <1>2, <1>3 DEF BackorderRate, Fraction, Scored, MIN_PO_LINES
  <2>2. Decision(s) = Decide(attempt[s], BackorderRate(v), OnTimeRate)
    BY <1>3 DEF Decision
  <2> QED
    BY <1>1, <2>1, <2>2, DecideMoves
<1>4. CASE ~Scored(v)
  BY <1>1, <1>4 DEF Decision
<1> QED
  BY <1>1, <1>3, <1>4

-----------------------------------------------------------------------------
(* What the steps do to the data. *)

DataSame == UNCHANGED <<asTested, clock, row, standing, volume, history, attempt>>

\* A step that leaves suppliers, history and attempts alone keeps what is said
\* of them.
LEMMA DataSameKeeps == DataOK /\ DataSame => DataOK'
BY DEF DataOK, DataSame, clock, AttemptCurrent, RowTellsTier, OneMonthOnly

\* A commit, of an attempt the workflow waits for or of a late one.
LEMMA CommitKeeps ==
  ASSUME DataOK, NEW s \in Suppliers, Commit(s), UNCHANGED <<asTested, clock, standing, volume>>
  PROVE  DataOK'
<1> DEFINE new == Decision(s)
           written == [new EXCEPT !.locked = row[s].locked]
           entry == [before |-> attempt[s].tier, after |-> new.tier,
                     insufficient |-> ~Scored(volume[s][schedule])]
<1>1. /\ attempt[s] # None /\ attempt[s] \in Row /\ row[s] \in Row /\ new \in Row
      /\ asTested /\ schedule \in Months
  BY DecisionMoves DEF Commit
<1>2. /\ row \in [Suppliers -> Row] /\ history \in [Suppliers -> [Months -> History \cup {None}]]
      /\ attempt \in [Suppliers -> Row \cup {None}]
  BY DEF DataOK
<1>3. written \in Row /\ written.tier = new.tier /\ entry \in History
  BY <1>1 DEF Row, History
<1>4. row' = [row EXCEPT ![s] = written]
  BY DEF Commit
<1>5. history' = [history EXCEPT ![s][schedule] = entry]
  BY DEF Commit, Upsert
<1>6. attempt' = [attempt EXCEPT ![s] = None]
  BY DEF Commit
<1> HIDE DEF new, entry, written
<1>7. /\ row' \in [Suppliers -> Row] /\ attempt' \in [Suppliers -> Row \cup {None}]
      /\ \A r \in Suppliers : /\ row'[r] = IF r = s THEN written ELSE row[r]
                              /\ attempt'[r] = IF r = s THEN None ELSE attempt[r]
  BY <1>2, <1>3, <1>4, <1>6
<1>8. /\ history' \in [Suppliers -> [Months -> History \cup {None}]]
      /\ \A r \in Suppliers, m \in Months :
           history'[r][m] = IF r = s /\ m = schedule THEN entry ELSE history[r][m]
  BY <1>1, <1>2, <1>3, <1>5
<1>9. schedule' = schedule /\ asTested' = asTested
  BY DEF clock
<1>10. \A r \in Suppliers : AttemptCurrent(r)'
  BY <1>7, <1>9 DEF DataOK, AttemptCurrent
<1>11. OneMonthOnly'
  BY <1>1, <1>8, <1>9 DEF DataOK, OneMonthOnly
<1>12. RowTellsTier'
  <2> SUFFICES ASSUME NEW r \in Suppliers, NEW m \in Months, history'[r][m] # None
               PROVE  history'[r][m].after = row'[r].tier
    BY DEF RowTellsTier
  <2>1. CASE r = s
    <3>1. m = schedule
      BY <1>8, <2>1 DEF DataOK, OneMonthOnly
    <3> QED
      BY <1>3, <1>7, <1>8, <2>1, <3>1 DEF entry
  <2>2. CASE r # s
    BY <1>7, <1>8, <2>2 DEF DataOK, RowTellsTier
  <2> QED
    BY <2>1, <2>2
<1> QED
  BY <1>7, <1>8, <1>10, <1>11, <1>12 DEF DataOK, clock

\* An attempt is rolled back.
LEMMA RollbackKeeps ==
  ASSUME DataOK, NEW s \in Suppliers, attempt' = [attempt EXCEPT ![s] = None],
         UNCHANGED <<asTested, clock, data>>
  PROVE  DataOK'
BY DEF DataOK, clock, data, AttemptCurrent, RowTellsTier, OneMonthOnly

\* An attempt reads a supplier.
LEMMA ReadKeeps ==
  ASSUME DataOK, NEW s \in Suppliers, attempt' = [attempt EXCEPT ![s] = row[s]],
         asTested, schedule # None, UNCHANGED <<asTested, clock, data>>
  PROVE  DataOK'
<1>1. \A r \in Suppliers : attempt'[r] = IF r = s THEN row[s] ELSE attempt[r]
  BY DEF DataOK
<1>2. attempt' \in [Suppliers -> Row \cup {None}]
  BY DEF DataOK
<1>3. \A r \in Suppliers : AttemptCurrent(r)'
  BY <1>1 DEF DataOK, clock, data, AttemptCurrent
<1> QED
  BY <1>2, <1>3 DEF DataOK, clock, data, RowTellsTier, OneMonthOnly

\* Time, users and the worker's start.
LEMMA WorldKeeps ==
  ASSUME DataOK,
         \/ NextMonth \/ RegisterSchedule
         \/ \E s \in Suppliers, v \in Volumes : Receive(s, v)
         \/ \E s \in Suppliers, locked \in BOOLEAN : SetTierLock(s, locked)
         \/ \E s \in Suppliers, to \in {"active", "inactive", "deleted"} : SetStanding(s, to)
  PROVE  DataOK'
<1>1. CASE NextMonth
  <2>1. now' \in Months
    BY <1>1, NumbersAssumption DEF NextMonth, DataOK, Months
  <2> QED
    BY <1>1, <2>1 DEF NextMonth, DataOK, data, AttemptCurrent, RowTellsTier, OneMonthOnly
<1>2. CASE RegisterSchedule
  <2>1. schedule = None /\ None \notin Months /\ schedule' = now
    BY <1>2, NumbersAssumption DEF RegisterSchedule, Months
  <2>2. \A s \in Suppliers : attempt[s] = None
    BY <2>1 DEF DataOK, AttemptCurrent
  <2>3. \A s \in Suppliers, m \in Months : history[s][m] = None
    BY <2>1 DEF DataOK, OneMonthOnly
  <2> QED
    BY <1>2, <2>1, <2>2, <2>3
    DEF RegisterSchedule, DataOK, data, AttemptCurrent, RowTellsTier, OneMonthOnly
<1>3. ASSUME NEW s \in Suppliers, NEW v \in Volumes, Receive(s, v) PROVE DataOK'
  <2>1. volume' \in [Suppliers -> [Months -> Volumes \cup {Nothing}]]
    BY <1>3 DEF Receive, DataOK
  <2> QED
    BY <1>3, <2>1 DEF Receive, DataOK, clock, AttemptCurrent, RowTellsTier, OneMonthOnly
<1>4. ASSUME NEW s \in Suppliers, NEW locked \in BOOLEAN, SetTierLock(s, locked) PROVE DataOK'
  <2>1. row' = [row EXCEPT ![s].locked = locked] /\ row \in [Suppliers -> Row]
    BY <1>4 DEF SetTierLock, DataOK
  <2>2. /\ row' \in [Suppliers -> Row]
        /\ \A r \in Suppliers : /\ row'[r].tier = row[r].tier
                                /\ row'[r].good = row[r].good /\ row'[r].bad = row[r].bad
    BY <2>1 DEF Row
  <2> QED
    BY <1>4, <2>2 DEF SetTierLock, DataOK, clock, AttemptCurrent, RowTellsTier, OneMonthOnly
<1>5. ASSUME NEW s \in Suppliers, NEW to \in {"active", "inactive", "deleted"}, SetStanding(s, to)
      PROVE  DataOK'
  <2>1. standing' \in [Suppliers -> {"active", "inactive", "deleted"}]
    BY <1>5 DEF SetStanding, DataOK
  <2> QED
    BY <1>5, <2>1 DEF SetStanding, DataOK, clock, AttemptCurrent, RowTellsTier, OneMonthOnly
<1> QED
  BY <1>1, <1>2, <1>3, <1>4, <1>5

-----------------------------------------------------------------------------
(* What the steps do to the run. *)

\* A step that leaves the run alone keeps what is said of it.
LEMMA RunSameKeeps ==
  ASSUME RunOK, asTested' = asTested,
         schedule' = schedule \/ (schedule = None /\ schedule' # None),
         UNCHANGED run
  PROVE  RunOK'
BY DEF RunOK, run

\* A count is raised.
LEMMA CountKeeps ==
  ASSUME RunOK, NEW c \in Counters, Count(c)
  PROVE  counts' \in [Counters -> Nat]
BY DEF RunOK, Count

\* The run goes on to another place, with the same supplier.
LEMMA RunMoves ==
  ASSUME RunOK, UNCHANGED <<asTested, clock, ids, queue, at>>, failed' \in Nat,
         counts' \in [Counters -> Nat], step' \in Steps,
         step' # "idle" => step # "idle",
         step' \in {"calculate", "notify"} => step \in {"calculate", "notify"}
  PROVE  RunOK'
BY DEF RunOK, clock

\* A repeated or abandoned activity keeps what is said of the run.
LEMMA RepeatKeeps ==
  ASSUME RunOK, step = "calculate", Repeat
  PROVE  failed' \in Nat /\ counts' \in [Counters -> Nat] /\ step' \in {"calculate", "next"}
<1>1. CASE failed + 1 < Attempts
  BY <1>1 DEF RunOK, Repeat
<1>2. CASE ~(failed + 1 < Attempts)
  <2>1. Count("unchanged") /\ step' = "next" /\ failed' = failed
    BY <1>2 DEF Repeat, GiveUp
  <2> QED
    BY <2>1, CountKeeps DEF RunOK, Counters
<1> QED
  BY <1>1, <1>2

\* Steps of the run that leave suppliers, history and attempts alone.
LEMMA RunSteps ==
  ASSUME RunOK,
         \/ RunFails \/ ListSuppliers \/ LoopEnds \/ AttemptFindsNone \/ CalculateTimesOut
         \/ Notify \/ NotifyTimesOut \/ Summarise \/ \E s \in Suppliers : NextSupplier(s)
  PROVE  RunOK' /\ DataSame
<1>1. DataSame
  BY DEF RunFails, ListSuppliers, LoopEnds, AttemptFindsNone, CalculateTimesOut, Notify,
         NotifyTimesOut, Summarise, NextSupplier, DataSame, clock, data
<1> SUFFICES RunOK'
  BY <1>1
<1>2. CASE RunFails
  BY <1>2, RunMoves DEF RunFails, Steps, RunOK
<1>3. CASE ListSuppliers
  <2>1. Zero \in [Counters -> Nat]
    BY DEF Zero
  <2> QED
    BY <1>3, <2>1 DEF ListSuppliers, RunOK, Steps, clock
<1>4. CASE LoopEnds
  BY <1>4, RunMoves DEF LoopEnds, Steps, RunOK
<1>5. CASE AttemptFindsNone
  BY <1>5, RunMoves, CountKeeps DEF AttemptFindsNone, Steps, Counters, RunOK
<1>6. CASE CalculateTimesOut
  BY <1>6, RunMoves, CountKeeps DEF CalculateTimesOut, GiveUp, Steps, Counters, RunOK
<1>7. CASE Notify
  BY <1>7, RunMoves DEF Notify, Steps, RunOK
<1>8. CASE NotifyTimesOut
  BY <1>8, RunMoves, CountKeeps DEF NotifyTimesOut, GiveUp, Steps, Counters, RunOK
<1>9. CASE Summarise
  BY <1>9, RunMoves DEF Summarise, Steps, RunOK
<1>10. ASSUME NEW s \in Suppliers, NextSupplier(s) PROVE RunOK'
  <2>1. step = "next" /\ schedule # None /\ queue' \subseteq ids
    BY <1>10 DEF NextSupplier, RunOK
  <2>2. CASE asTested
    BY <1>10, <2>1, <2>2 DEF NextSupplier, RunOK, Steps, clock
  <2>3. CASE ~asTested
    <3>1. counts' \in [Counters -> Nat]
      BY <1>10, <2>3, CountKeeps DEF NextSupplier, Counters
    <3> QED
      BY <1>10, <2>1, <2>3, <3>1 DEF NextSupplier, RunOK, clock
  <2> QED
    BY <2>2, <2>3
<1> QED
  BY <1>1, <1>2, <1>3, <1>4, <1>5, <1>6, <1>7, <1>8, <1>9, <1>10

-----------------------------------------------------------------------------
(* The invariant and what follows from it. *)

\* Every step of the workflow, its activities and the users keeps the invariant.
LEMMA IInvStep == IInv /\ [Next]_vars => IInv'
<1> SUFFICES ASSUME DataOK, RunOK, [Next]_vars PROVE DataOK' /\ RunOK'
  BY IInvParts, PTL
<1>1. CASE UNCHANGED vars
  <2>1. DataSame /\ UNCHANGED run /\ asTested' = asTested /\ schedule' = schedule
    BY <1>1 DEF vars, DataSame, data, clock
  <2> QED
    BY <2>1, DataSameKeeps, RunSameKeeps
<1>2. CASE \/ NextMonth \/ RegisterSchedule
           \/ \E s \in Suppliers, v \in Volumes : Receive(s, v)
           \/ \E s \in Suppliers, locked \in BOOLEAN : SetTierLock(s, locked)
           \/ \E s \in Suppliers, to \in {"active", "inactive", "deleted"} : SetStanding(s, to)
  <2>1. asTested' = asTested /\ UNCHANGED run
    BY <1>2 DEF NextMonth, RegisterSchedule, Receive, SetTierLock, SetStanding
  <2>2. \/ schedule' = schedule
        \/ schedule = None /\ schedule' = now
    BY <1>2 DEF NextMonth, RegisterSchedule, Receive, SetTierLock, SetStanding, clock
  <2>3. now # None
    BY NumbersAssumption DEF DataOK, Months
  <2> QED
    BY <1>2, <2>1, <2>2, <2>3, WorldKeeps, RunSameKeeps
<1>3. CASE Fire
  BY <1>3 DEF Fire, DataOK, RunOK, Steps, data, AttemptCurrent, RowTellsTier, OneMonthOnly
<1>4. CASE \/ RunFails \/ ListSuppliers \/ LoopEnds \/ AttemptFindsNone \/ CalculateTimesOut
           \/ Notify \/ NotifyTimesOut \/ Summarise \/ \E s \in Suppliers : NextSupplier(s)
  BY <1>4, RunSteps, DataSameKeeps
<1>5. CASE AttemptReads
  <2>1. at \in Suppliers /\ asTested /\ schedule # None
    BY <1>5 DEF AttemptReads, RunOK
  <2> QED
    BY <1>5, <2>1, ReadKeeps, RunSameKeeps DEF AttemptReads, clock
<1>6. CASE AttemptSucceeds
  <2>1. at \in Suppliers
    BY <1>6 DEF AttemptSucceeds, RunOK
  <2>2. Direction(at) \in Counters
    BY DEF Direction, Counters
  <2>3. counts' \in [Counters -> Nat]
    BY <1>6, <2>2, CountKeeps DEF AttemptSucceeds
  <2> QED
    BY <1>6, <2>1, <2>3, CommitKeeps, RunMoves DEF AttemptSucceeds, Steps, RunOK
<1>7. CASE AttemptFails
  <2>1. at \in Suppliers
    BY <1>7 DEF AttemptFails, RunOK
  <2> QED
    BY <1>7, <2>1, RollbackKeeps, RepeatKeeps, RunMoves DEF AttemptFails, Steps
<1>8. CASE CommitLost
  <2>1. at \in Suppliers
    BY <1>8 DEF CommitLost, RunOK
  <2> QED
    BY <1>8, <2>1, CommitKeeps, RepeatKeeps, RunMoves DEF CommitLost, Steps
<1>9. ASSUME NEW s \in Suppliers, LateCommit(s) \/ LateRollback(s) PROVE DataOK' /\ RunOK'
  <2>1. UNCHANGED <<asTested, clock, standing, volume>> /\ UNCHANGED run
    BY <1>9 DEF LateCommit, LateRollback, data
  <2>2. DataOK'
    BY <1>9, <2>1, CommitKeeps, RollbackKeeps DEF LateCommit, LateRollback
  <2> QED
    BY <2>1, <2>2, RunSameKeeps DEF clock
<1> QED
  BY <1>1, <1>2, <1>3, <1>4, <1>5, <1>6, <1>7, <1>8, <1>9 DEF Next, Step

\* Suppliers, history, run and attempts keep their types.
THEOREM TiersTyped == Spec => []TypeOK
<1>1. IInv => TypeOK
  BY DEF IInv
<1> QED
  BY <1>1, IInvInit, IInvStep, PTL DEF Spec

\* The history row of a supplier's month always ends in the tier the supplier
\* has, however often calculate_supplier_tier was repeated, late or lost.
THEOREM RowAlwaysTellsTier == Spec => []RowTellsTier
<1>1. IInv => RowTellsTier
  BY DEF IInv
<1> QED
  BY <1>1, IInvInit, IInvStep, PTL DEF Spec

\* The schedule of worker.py recalculates the month it was registered in and no
\* other, in however many months it fires.
THEOREM AlwaysOneMonth == Spec => []OneMonthOnly
<1>1. IInv => OneMonthOnly
  BY DEF IInv
<1> QED
  BY <1>1, IInvInit, IInvStep, PTL DEF Spec

\* No tier changes but by the commit of an attempt that did not see the lock, by
\* one rank, and never to Diamond.
THEOREM TiersMoveByRank == Spec => TierMoves
<1> DEFINE Moves ==
      \A s \in Suppliers : row'[s].tier # row[s].tier =>
        /\ attempt[s] # None /\ ~attempt[s].locked
        /\ TIER_ORDER[row'[s].tier] - TIER_ORDER[row[s].tier] \in {-1, 1}
        /\ row'[s].tier # "Diamond"
<1>1. ASSUME IInv, [Next]_vars PROVE [Moves]_vars
  <2>1. DataOK /\ RunOK
    BY <1>1, IInvParts
  <2>2. ASSUME NEW c \in Suppliers, Commit(c) PROVE Moves
    <3> SUFFICES ASSUME NEW s \in Suppliers, row'[s].tier # row[s].tier
                 PROVE  /\ attempt[s] # None /\ ~attempt[s].locked
                        /\ TIER_ORDER[row'[s].tier] - TIER_ORDER[row[s].tier] \in {-1, 1}
                        /\ row'[s].tier # "Diamond"
      OBVIOUS
    <3>1. attempt[c] # None /\ row \in [Suppliers -> Row]
      BY <2>1, <2>2 DEF Commit, DataOK
    <3>2. s = c /\ row'[s].tier = Decision(c).tier
      BY <2>2, <3>1 DEF Commit, Row
    <3> QED
      BY <2>1, <3>1, <3>2, DecisionMoves
  <2>3. ASSUME NEW s \in Suppliers, NEW locked \in BOOLEAN, SetTierLock(s, locked) PROVE Moves
    BY <2>1, <2>3 DEF SetTierLock, DataOK, Row
  <2>4. CASE row' = row
    BY <2>4
  <2>5. CASE UNCHANGED vars
    BY <2>5 DEF vars, data
  <2>6. CASE Next
    <3>1. CASE \/ NextMonth \/ RegisterSchedule \/ Fire
               \/ \E s \in Suppliers, v \in Volumes : Receive(s, v)
               \/ \E s \in Suppliers, to \in {"active", "inactive", "deleted"} : SetStanding(s, to)
      BY <2>4, <3>1 DEF NextMonth, RegisterSchedule, Fire, Receive, SetStanding, data
    <3>2. CASE \/ RunFails \/ ListSuppliers \/ LoopEnds \/ AttemptReads \/ AttemptFindsNone
               \/ AttemptFails \/ CalculateTimesOut \/ Notify \/ NotifyTimesOut \/ Summarise
               \/ \E s \in Suppliers : NextSupplier(s) \/ LateRollback(s)
      BY <2>4, <3>2 DEF RunFails, ListSuppliers, LoopEnds, AttemptReads, AttemptFindsNone,
         AttemptFails, CalculateTimesOut, Notify, NotifyTimesOut, Summarise, NextSupplier,
         LateRollback, data
    <3>3. CASE AttemptSucceeds \/ CommitLost \/ \E s \in Suppliers : LateCommit(s)
      BY <2>1, <2>2, <3>3 DEF AttemptSucceeds, CommitLost, LateCommit, RunOK
    <3> QED
      BY <2>3, <2>6, <3>1, <3>2, <3>3 DEF Next, Step
  <2> QED
    BY <1>1, <2>5, <2>6
<1>2. Spec => [][Moves]_vars
  BY <1>1, IInvInit, IInvStep, PTL DEF Spec
<1> QED
  BY <1>2 DEF TierMoves

-----------------------------------------------------------------------------
(* The summary's total. *)

Total == counts["promoted"] + counts["demoted"] + counts["unchanged"] + counts["insufficient"]
Moved == counts["promoted"] + counts["demoted"]
ToCount == Cardinality(queue) + IF step = "calculate" THEN 1 ELSE 0

\* A supplier is counted a second time only while the email about its new tier is
\* on its way, so at that moment one of the moved must still have that count free.
CountsOK ==
  /\ IsFiniteSet(ids) /\ IsFiniteSet(queue)
  /\ Total + ToCount >= Cardinality(ids)
  /\ Total + ToCount + (IF step = "notify" THEN 1 ELSE 0) <= Cardinality(ids) + Moved

\* The numbers the invariant speaks of are numbers.
LEMMA CountsNat ==
  ASSUME RunOK, CountsOK
  PROVE  /\ Total \in Nat /\ Moved \in Nat
         /\ Cardinality(ids) \in Nat /\ Cardinality(queue) \in Nat
<1>1. Cardinality(ids) \in Nat /\ Cardinality(queue) \in Nat
  BY FS_CardinalityType DEF CountsOK
<1>2. \A c \in Counters : counts[c] \in Nat
  BY DEF RunOK
<1> QED
  BY <1>1, <1>2 DEF Total, Moved, Counters

\* Counting a supplier adds one to the total, and one to the moved if it moved.
LEMMA CountAddsOne ==
  ASSUME RunOK, NEW c \in Counters, Count(c)
  PROVE  /\ Total' = Total + 1
         /\ Moved' = IF c \in {"promoted", "demoted"} THEN Moved + 1 ELSE Moved
<1>1. /\ counts'[c] = counts[c] + 1
      /\ \A d \in Counters : counts[d] \in Nat /\ (d # c => counts'[d] = counts[d])
  BY DEF RunOK, Count
<1>2. {"promoted", "demoted", "unchanged", "insufficient"} = Counters
  BY DEF Counters
<1> QED
  BY <1>1, <1>2 DEF Total, Moved

\* Steps that leave the run's lists and counters alone, and neither begin nor end
\* a calculation nor begin an email.
LEMMA CountsSame ==
  ASSUME RunOK, CountsOK, ids' = ids, queue' = queue, counts' = counts,
         step' = "calculate" <=> step = "calculate", step' # "notify" \/ step = "notify"
  PROVE  CountsOK'
<1>1. Total' = Total /\ Moved' = Moved /\ ToCount' = ToCount
  BY DEF Total, Moved, ToCount
<1>2. ToCount \in Nat
  BY CountsNat DEF ToCount
<1> QED
  BY <1>1, <1>2, CountsNat DEF CountsOK

\* The supplier at hand is counted, and if it moved, an email is still to be sent.
LEMMA CountedOnce ==
  ASSUME RunOK, CountsOK, step = "calculate", ids' = ids, queue' = queue,
         NEW c \in Counters, Count(c),
         step' = "next" \/ (step' = "notify" /\ c \in {"promoted", "demoted"})
  PROVE  CountsOK'
<1>1. Total' = Total + 1
  BY CountAddsOne
<1>2. Moved' = IF c \in {"promoted", "demoted"} THEN Moved + 1 ELSE Moved
  BY CountAddsOne
<1>3. ToCount' = Cardinality(queue) /\ ToCount = Cardinality(queue) + 1
  BY CountsNat DEF ToCount
<1> QED
  BY <1>1, <1>2, <1>3, CountsNat DEF CountsOK

\* A failed attempt is repeated, or its supplier counted as unchanged.
LEMMA RepeatCounts ==
  ASSUME RunOK, CountsOK, step = "calculate", ids' = ids, queue' = queue, Repeat
  PROVE  CountsOK'
<1>1. CASE failed + 1 < Attempts
  BY <1>1, CountsSame DEF Repeat
<1>2. CASE ~(failed + 1 < Attempts)
  BY <1>2, CountedOnce DEF Repeat, GiveUp, Counters
<1> QED
  BY <1>1, <1>2

\* A run lists suppliers of a finite table and starts its counters at zero.
LEMMA ListCounts ==
  ASSUME RunOK, ListSuppliers
  PROVE  CountsOK'
<1>1. ids' \subseteq Suppliers /\ queue' = ids' /\ counts' = Zero /\ step' \notin {"calculate", "notify"}
  BY DEF ListSuppliers
<1>2. IsFiniteSet(ids') /\ Cardinality(ids') \in Nat
  BY <1>1, SuppliersAssumption, FS_Subset, FS_CardinalityType
<1>3. Total' = 0 /\ Moved' = 0 /\ ToCount' = Cardinality(ids')
  BY <1>1, <1>2 DEF Total, Moved, ToCount, Zero, Counters
<1> QED
  BY <1>1, <1>2, <1>3 DEF CountsOK

\* The loop takes a supplier from the queue, to calculate it or, where activities
\* cannot be called, to count it at once.
LEMMA NextCounts ==
  ASSUME RunOK, CountsOK, NEW s \in Suppliers, NextSupplier(s)
  PROVE  CountsOK'
<1>1. /\ step = "next" /\ s \in queue /\ ids' = ids /\ queue' = queue \ {s}
      /\ IsFiniteSet(queue)
  BY DEF NextSupplier, CountsOK
<1>2. IsFiniteSet(queue') /\ Cardinality(queue') = Cardinality(queue) - 1
  BY <1>1, FS_RemoveElement
<1>3. CASE asTested
  <2>1. Total' = Total /\ Moved' = Moved /\ step' = "calculate"
    BY <1>3 DEF NextSupplier, Total, Moved
  <2>2. ToCount' = Cardinality(queue) - 1 + 1 /\ ToCount = Cardinality(queue)
    BY <1>1, <1>2, <2>1, CountsNat DEF ToCount
  <2> QED
    BY <1>1, <1>2, <2>1, <2>2, CountsNat DEF CountsOK
<1>4. CASE ~asTested
  <2>1. Total' = Total + 1 /\ Moved' = Moved /\ step' = "next"
    BY <1>1, <1>4, CountAddsOne DEF NextSupplier, Counters
  <2>2. ToCount' = Cardinality(queue) - 1 /\ ToCount = Cardinality(queue)
    BY <1>1, <1>2, <2>1, CountsNat DEF ToCount
  <2> QED
    BY <1>1, <1>2, <2>1, <2>2, CountsNat DEF CountsOK
<1> QED
  BY <1>3, <1>4

\* The email about a moved supplier timed out: the supplier is counted again.
LEMMA NotifyTimeoutCounts ==
  ASSUME RunOK, CountsOK, NotifyTimesOut
  PROVE  CountsOK'
<1>1. step = "notify" /\ step' = "next" /\ ids' = ids /\ queue' = queue /\ Count("unchanged")
  BY DEF NotifyTimesOut, GiveUp
<1>2. Total' = Total + 1 /\ Moved' = Moved
  BY <1>1, CountAddsOne DEF Counters
<1>3. ToCount' = Cardinality(queue) /\ ToCount = Cardinality(queue)
  BY <1>1, CountsNat DEF ToCount
<1> QED
  BY <1>1, <1>2, <1>3, CountsNat DEF CountsOK

\* Every step keeps the counters in step with the lists.
LEMMA CountsStep ==
  ASSUME RunOK, CountsOK, [Next]_vars
  PROVE  CountsOK'
<1>1. CASE ListSuppliers
  BY <1>1, ListCounts
<1>2. ASSUME NEW s \in Suppliers, NextSupplier(s) PROVE CountsOK'
  BY <1>2, NextCounts
<1>3. CASE AttemptFindsNone
  BY <1>3, CountedOnce DEF AttemptFindsNone, Counters
<1>4. CASE AttemptSucceeds
  BY <1>4, CountedOnce DEF AttemptSucceeds, Direction, Counters
<1>5. CASE AttemptFails \/ CommitLost
  BY <1>5, RepeatCounts DEF AttemptFails, CommitLost
<1>6. CASE CalculateTimesOut
  BY <1>6, CountedOnce DEF CalculateTimesOut, GiveUp, Counters
<1>7. CASE NotifyTimesOut
  BY <1>7, NotifyTimeoutCounts
<1>8. CASE \/ RunFails \/ LoopEnds \/ AttemptReads \/ Notify \/ Summarise \/ Fire
           \/ UNCHANGED run
  BY <1>8, CountsSame
  DEF RunFails, LoopEnds, AttemptReads, Notify, Summarise, Fire, run
<1>9. CASE \/ NextMonth \/ RegisterSchedule \/ UNCHANGED vars
           \/ \E s \in Suppliers :
                \/ \E v \in Volumes : Receive(s, v)
                \/ \E locked \in BOOLEAN : SetTierLock(s, locked)
                \/ \E to \in {"active", "inactive", "deleted"} : SetStanding(s, to)
                \/ LateCommit(s) \/ LateRollback(s)
  <2>1. UNCHANGED run
    BY <1>9 DEF NextMonth, RegisterSchedule, Receive, SetTierLock, SetStanding, LateCommit,
                LateRollback, vars
  <2> QED
    BY <1>8, <2>1
<1> QED
  BY <1>1, <1>2, <1>3, <1>4, <1>5, <1>6, <1>7, <1>8, <1>9 DEF Next, Step

\* The summary's total is right but for emails that timed out: every supplier of
\* the run is counted, and twice only if its tier changed.
THEOREM SummaryAddsUp == Spec => []CountsAddUp
<1>1. Init => CountsOK
  <2> SUFFICES ASSUME Init PROVE CountsOK
    OBVIOUS
  <2>1. /\ ids = {} /\ queue = {} /\ step = "idle" /\ counts = Zero
        /\ IsFiniteSet({}) /\ Cardinality({}) = 0
    BY FS_EmptySet DEF Init
  <2>2. Total = 0 /\ Moved = 0 /\ ToCount = 0
    BY <2>1 DEF Total, Moved, ToCount, Zero, Counters
  <2> QED
    BY <2>1, <2>2 DEF CountsOK
<1>2. IInv /\ CountsOK /\ [Next]_vars => CountsOK'
  BY IInvParts, CountsStep
<1>3. IInv /\ CountsOK => CountsAddUp
  <2> SUFFICES ASSUME RunOK, CountsOK PROVE CountsAddUp
    BY IInvParts
  <2>1. ToCount \in Nat
    BY CountsNat DEF ToCount
  <2>2. /\ Total + ToCount >= Cardinality(ids)
        /\ Total + ToCount <= Cardinality(ids) + Moved
    BY <2>1, CountsNat DEF CountsOK
  <2>3. Cardinality(ids) + Moved = Cardinality(ids) + counts["promoted"] + counts["demoted"]
    BY CountsNat DEF RunOK, Counters, Moved
  <2> QED
    BY <2>2, <2>3 DEF CountsAddUp, Total, ToCount
<1> QED
  BY <1>1, <1>2, <1>3, IInvInit, IInvStep, PTL DEF Spec

=============================================================================
