-------------------------- MODULE CatalogueProofs --------------------------
(***************************************************************************)
(* Proofs about StockLevels, Reports, ProductEdits and LedgerPages, for    *)
(* any number of products, clients, barcodes and entries.                  *)
(***************************************************************************)
EXTENDS ProductEdits, LedgerPages, StockLevels, Reports, FiniteSetTheorems, TLAPS

(* ------------------------------- StockLevels ---------------------------- *)

\* The list of products with a badge holds exactly the products that show that
\* badge, for a stock that is not negative (the only one ever recorded):
\* list_with_filters and compute_stock_badge agree.
THEOREM FilterIsBadge ==
  ASSUME NEW p \in Stocked, NEW badge \in Badges, p.stock >= 0, ~p.deleted
  PROVE  WithBadge(p, badge) <=> Badge(p) = badge
BY UnsetAssumption DEF Stocked, Badges, WithBadge, Badge, BadgeThreshold, Effective

\* The dashboard's list and count of low stock are the products that show
\* another badge than in_stock, each with the badge it shows elsewhere.
THEOREM DashboardIsBadge ==
  ASSUME NEW p \in Stocked
  PROVE  /\ LowStock(p) <=> ~p.deleted /\ Badge(p) # "in_stock"
         /\ LowStock(p) => LowStockBadge(p) = Badge(p)
BY UnsetAssumption DEF Stocked, LowStock, LowStockBadge, Badge, BadgeThreshold, Effective

\* What the automatic reorder finds due is what the dashboard shows as low.
THEOREM ReorderIsLowStock ==
  ASSUME NEW p \in Stocked
  PROVE  ReorderDue(p) <=> LowStock(p)
BY UnsetAssumption DEF Stocked, ReorderDue, LowStock, Effective

(* -------------------------------- Reports ------------------------------- *)

\* The prior month of a summary is the one just before, also in January.
THEOREM PriorMonthIsBefore ==
  ASSUME NEW p \in Period
  PROVE  Serial(PriorMonth(p)) = Serial(p) - 1 /\ PriorMonth(p).month \in 1 .. 12
BY DEF Period, Serial, PriorMonth

\* A product of two numbers that are not negative is not negative, and no smaller
\* factor makes it greater.
LEMMA TimesMonotone ==
  ASSUME NEW a \in Nat, NEW b \in Nat, NEW c \in Nat, a <= b
  PROVE  a * c \in Nat /\ b * c \in Nat /\ a * c <= b * c
OBVIOUS

\* When no more deliveries were on time than there were orders, and no more lines
\* defective than there were lines, _compute_rating has nothing to cut off.
THEOREM RatingNeedsNoClamp ==
  ASSUME NEW h \in History, h.onTime <= h.orders, h.defects <= h.lines
  PROVE  RatingOf(h) = Raw(Rate(h.onTime, h.orders), Rate(h.defects, h.lines))
<1> DEFINE o == Rate(h.onTime, h.orders)
           b == Rate(h.defects, h.lines)
<1>1. /\ o.num \in Nat /\ o.den \in Nat /\ o.num <= o.den
      /\ b.num \in Nat /\ b.den \in Nat /\ b.num <= b.den
  BY DEF History, Rate
<1> HIDE DEF o, b
<1> DEFINE good == o.num * b.den
           full == o.den * b.den
           kept == (b.den - b.num) * o.den
<1>2. good \in Nat /\ full \in Nat /\ good <= full
  BY <1>1, TimesMonotone
<1>3. kept \in Nat /\ kept <= full
  <2>1. b.den - b.num \in Nat /\ b.den - b.num <= b.den
    BY <1>1
  <2>2. kept <= b.den * o.den /\ kept \in Nat
    BY <1>1, <2>1, TimesMonotone
  <2>3. b.den * o.den = full
    BY <1>1
  <2> QED
    BY <2>2, <2>3
<1>4. Raw(o, b) = [num |-> 3 * good + 2 * kept, den |-> full]
  <2>1. 3 * o.num * b.den = 3 * good
    BY <1>1
  <2>2. 2 * (b.den - b.num) * o.den = 2 * kept
    BY <1>1
  <2> QED
    BY <2>1, <2>2 DEF Raw
<1> HIDE DEF good, full, kept
<1>5. Rating(o, b) = Raw(o, b)
  BY <1>2, <1>3, <1>4 DEF Rating
<1> QED
  BY <1>5 DEF RatingOf, o, b

\* compute_tier_decision moves a tier by one rank and starts both streaks again,
\* or leaves it as it is.
LEMMA DecideMovesOneRank ==
  ASSUME NEW sup \in Supplier, NEW backorder \in Fraction, NEW onTime \in Fraction
  PROVE  LET new == Decide(sup, backorder, onTime) IN
         /\ new \in Supplier
         /\ \/ new.tier = sup.tier
            \/ /\ new.good = 0 /\ new.bad = 0
               /\ TIER_ORDER[new.tier] - TIER_ORDER[sup.tier] \in {-1, 1}
<1>1. Qualifies(sup.tier, backorder, onTime) => sup.tier # "Diamond"
  BY DEF Supplier, Qualifies, BackorderTier, TIER_ORDER, Tiers
<1>2. NextStreaks(sup, backorder, onTime) \in [good : Nat, bad : Nat]
  BY DEF Supplier, NextStreaks
<1>3. NextStreaks(sup, backorder, onTime).good > 0 => sup.tier # "Diamond"
  BY <1>1 DEF NextStreaks
<1> DEFINE streaks == NextStreaks(sup, backorder, onTime)
           moved(tier) == [sup EXCEPT !.tier = tier, !.good = 0, !.bad = 0]
           kept == [sup EXCEPT !.good = streaks.good, !.bad = streaks.bad]
           new == Decide(sup, backorder, onTime)
<1>4. \/ sup.tier # "Silver" /\ new = moved(Demote(sup.tier))
      \/ streaks.good > 0 /\ new = moved(Promote(sup.tier))
      \/ new = kept
  BY <1>2 DEF Decide, PROMOTION_STREAK_REQUIRED
<1>5. \A tier \in Tiers : /\ moved(tier) \in Supplier /\ moved(tier).tier = tier
                          /\ moved(tier).good = 0 /\ moved(tier).bad = 0
  BY DEF Supplier
<1>6. kept \in Supplier /\ kept.tier = sup.tier
  BY <1>2 DEF Supplier
<1>7. /\ Demote(sup.tier) \in Tiers /\ Promote(sup.tier) \in Tiers
      /\ sup.tier # "Silver" => TIER_ORDER[Demote(sup.tier)] - TIER_ORDER[sup.tier] = -1
      /\ sup.tier # "Diamond" => TIER_ORDER[Promote(sup.tier)] - TIER_ORDER[sup.tier] = 1
  BY DEF Supplier, Promote, Demote, TIER_ORDER, Tiers
<1> HIDE DEF streaks, moved, kept, new
<1>8. /\ new \in Supplier
      /\ \/ new.tier = sup.tier
         \/ /\ new.good = 0 /\ new.bad = 0
            /\ TIER_ORDER[new.tier] - TIER_ORDER[sup.tier] \in {-1, 1}
  BY <1>3, <1>4, <1>5, <1>6, <1>7 DEF streaks
<1> QED
  BY <1>8 DEF new

\* The monthly summary tells the move that compute_tier_decision made.
THEOREM SummaryTellsTheMove ==
  ASSUME NEW sup \in Supplier, NEW backorder \in Fraction, NEW onTime \in Fraction,
         NEW h \in History, NEW before \in History, NEW name,
         before.tier = sup.tier, h.tier = Decide(sup, backorder, onTime).tier,
         before # Missing
  PROVE  LET new == Decide(sup, backorder, onTime)
             row == SummaryRow(name, h, before, new)
         IN /\ row.direction = "Promoted" <=> TIER_ORDER[new.tier] = TIER_ORDER[sup.tier] + 1
            /\ row.direction = "Demoted" <=> TIER_ORDER[new.tier] = TIER_ORDER[sup.tier] - 1
<1> DEFINE new == Decide(sup, backorder, onTime)
<1>1. /\ new.tier \in Tiers /\ sup.tier \in Tiers
      /\ new.tier = sup.tier \/ TIER_ORDER[new.tier] - TIER_ORDER[sup.tier] \in {-1, 1}
  BY DecideMovesOneRank DEF Supplier
<1>2. Assigned(h, new) = new.tier /\ Assigned(before, new) = sup.tier
  BY <1>1, MissingAssumption DEF Assigned
<1> HIDE DEF new
<1>3. SummaryRow(name, h, before, new).direction = Direction(new.tier, sup.tier)
  BY <1>2 DEF SummaryRow
<1> QED
  BY <1>1, <1>3, MissingAssumption DEF Direction, TIER_ORDER, Tiers, new

\* A streak that moved a tier is over when the report is written: right after the
\* move the report tells that it came after 0 months, never after 3 or 2.
THEOREM ReasonForgetsTheStreak ==
  ASSUME NEW sup \in Supplier, NEW backorder \in Fraction, NEW onTime \in Fraction,
         NEW short \in BOOLEAN
  PROVE  LET new == Decide(sup, backorder, onTime)
         IN Reason(short, new.tier, sup.tier, new).months = 0
<1> DEFINE new == Decide(sup, backorder, onTime)
<1>1. new.tier = sup.tier \/ (new.good = 0 /\ new.bad = 0)
  BY DecideMovesOneRank
<1> HIDE DEF new
<1> QED
  BY <1>1 DEF Reason, new

\* In the summary, promotions told from enough data come before all other rows,
\* and rows with too little data after all others.
THEOREM PromotionsFirst ==
  ASSUME NEW a, NEW b, a.insufficient \in BOOLEAN, b.insufficient \in BOOLEAN,
         ~a.insufficient
  PROVE  /\ a.direction = "Promoted" /\ (b.insufficient \/ b.direction # "Promoted") => Precedes(a, b)
         /\ b.insufficient => Precedes(a, b)
BY DEF Precedes, Primary, Secondary

(* ----------------------------- ProductEdits ----------------------------- *)

\* EditIInv for one client and one product.
Follows(c, p) ==
  /\ copy[c].of = p =>
       /\ item[p].row # "absent"
       /\ copy[c].version <= item[p].version
       /\ copy[c].version = item[p].version => copy[c].barcode = item[p].barcode
  /\ holder[p] = c =>
       /\ item[p].row = "live"
       /\ copy[c].of = p /\ copy[c].version = item[p].version

\* EditIInv says of every client and every product that one follows the other.
LEMMA FollowsEverywhere ==
  EditIInv <=> EditTypeOK /\ \A c \in Clients, p \in Product : Follows(c, p)
BY DEF EditIInv, Follows

\* At first no client has a copy.
LEMMA EditIInvInit == EditInit => EditIInv
BY BarcodeAssumption DEF EditInit, EditIInv, EditTypeOK, Item, Copy, NoCopy

\* Each action of EditNext keeps the invariant.
LEMMA FetchKeeps ==
  ASSUME EditIInv, NEW p \in Product, NEW c \in Clients, Fetch(c, p)
  PROVE  EditIInv'
<1>1. /\ item[p] \in Item /\ item' = item /\ holder' = holder
      /\ copy' = [copy EXCEPT ![c] = [of |-> p, version |-> item[p].version, barcode |-> item[p].barcode]]
  BY DEF Fetch, EditIInv, EditTypeOK
<1>2. [of |-> p, version |-> item[p].version, barcode |-> item[p].barcode] \in Copy
  BY <1>1 DEF Item, Copy
<1>3. EditTypeOK'
  BY <1>1, <1>2 DEF EditIInv, EditTypeOK
<1>4. ASSUME NEW d \in Clients, NEW q \in Product
      PROVE  Follows(d, q)'
  <2>1. Follows(d, q)
    BY FollowsEverywhere
  <2>2. CASE d = c
    <3>1. copy'[c] = [of |-> p, version |-> item[p].version, barcode |-> item[p].barcode]
      BY <1>1 DEF EditIInv, EditTypeOK
    <3>2. item[p].row # "absent" /\ item[p].version \in Nat /\ holder[q] # c
      BY <1>1 DEF Fetch, NotUpdating, Item
    <3> QED
      BY <1>1, <2>2, <3>1, <3>2 DEF Follows
  <2>3. CASE d # c
    BY <1>1, <2>1, <2>3 DEF Follows, EditIInv, EditTypeOK
  <2> QED
    BY <2>2, <2>3
<1> QED
  BY <1>3, <1>4 DEF EditIInv, Follows

\* create_product: a new product has no earlier copies.
LEMMA CreateKeeps ==
  ASSUME EditIInv, NEW p \in Product, NEW c \in Clients,
         NEW barcode \in Barcodes \cup {Nil}, CreateProduct(c, p, barcode)
  PROVE  EditIInv'
<1> DEFINE new == [row |-> "live", version |-> 1, barcode |-> barcode]
           seen == [of |-> p, version |-> 1, barcode |-> barcode]
<1>1. /\ item' = [item EXCEPT ![p] = new] /\ holder' = holder
      /\ item \in [Product -> Item] /\ copy \in [Clients -> Copy]
      /\ item'[p] = new
  BY DEF CreateProduct, EditIInv, EditTypeOK
<1>2. copy' = [copy EXCEPT ![c] = seen]
  BY <1>1 DEF CreateProduct, Answered
<1>3. EditTypeOK'
  <2>1. new \in Item /\ seen \in Copy
    BY DEF Item, Copy
  <2> QED
    BY <1>1, <1>2, <2>1 DEF EditIInv, EditTypeOK
<1>4. \A d \in Clients : copy[d].of # p /\ holder[p] # d
  BY FollowsEverywhere DEF CreateProduct, Follows
<1>5. ASSUME NEW d \in Clients, NEW q \in Product
      PROVE  Follows(d, q)'
  <2>1. Follows(d, q)
    BY FollowsEverywhere
  <2>2. CASE d = c
    <3>1. copy'[d] = seen /\ holder[q] # d
      BY <1>1, <1>2, <2>2 DEF CreateProduct, NotUpdating
    <3> QED
      BY <1>1, <3>1 DEF Follows
  <2>3. CASE d # c
    <3>1. copy'[d] = copy[d]
      BY <1>1, <1>2, <2>3
    <3>2. CASE q = p
      BY <1>1, <1>4, <3>1, <3>2 DEF Follows
    <3>3. CASE q # p
      BY <1>1, <2>1, <3>1, <3>3 DEF Follows
    <3> QED
      BY <3>2, <3>3
  <2> QED
    BY <2>2, <2>3
<1> QED
  BY <1>3, <1>5 DEF EditIInv, Follows

\* update_product: copies of the version before fall behind.
LEMMA UpdateKeeps ==
  ASSUME EditIInv, NEW p \in Product, NEW c \in Clients,
         NEW barcode \in Barcodes \cup {Nil}, UpdateProduct(c, p, barcode)
  PROVE  EditIInv'
<1> DEFINE new == [row |-> item[p].row, version |-> item[p].version + 1, barcode |-> barcode]
           seen == [of |-> p, version |-> new.version, barcode |-> barcode]
<1>1. /\ item \in [Product -> Item] /\ copy \in [Clients -> Copy]
      /\ holder \in [Product -> Clients \cup {Nil}]
      /\ holder' = [holder EXCEPT ![p] = Nil] /\ holder[p] = c
  BY DEF UpdateProduct, EditIInv, EditTypeOK
<1>2. /\ item[p] \in Item /\ new \in Item /\ new.row = item[p].row
      /\ new.version = item[p].version + 1 /\ new.barcode = barcode
      /\ item[p].version \in Nat
  BY <1>1 DEF Item
<1>3. item' = [item EXCEPT ![p] = new]
  <2>1. [item[p] EXCEPT !.barcode = barcode, !.version = @ + 1] = new
    BY <1>2 DEF Item
  <2>2. item' = [item EXCEPT ![p] = [item[p] EXCEPT !.barcode = barcode, !.version = @ + 1]]
    BY <1>1 DEF UpdateProduct
  <2> QED
    BY <2>1, <2>2
<1> HIDE DEF new
<1>4. item'[p] = new /\ \A q \in Product \ {p} : item'[q] = item[q]
  BY <1>1, <1>3
<1>5. copy' = [copy EXCEPT ![c] = seen]
  BY <1>2, <1>4 DEF UpdateProduct, Answered
<1>6. EditTypeOK'
  <2>1. seen \in Copy
    BY <1>2 DEF Item, Copy
  <2> QED
    BY <1>1, <1>2, <1>3, <1>5, <2>1 DEF EditTypeOK
<1>7. ASSUME NEW d \in Clients, NEW q \in Product
      PROVE  Follows(d, q)'
  <2>1. Follows(d, q) /\ Follows(c, p) /\ Follows(d, p)
    BY FollowsEverywhere
  <2>2. Nil # d /\ holder'[p] = Nil /\ (q # p => holder'[q] = holder[q])
    BY <1>1, BarcodeAssumption
  <2>3. CASE d = c
    <3>1. copy'[d] = seen
      BY <1>1, <1>5, <2>3
    <3>2. holder'[q] # d
      BY <1>1, <2>1, <2>2, <2>3 DEF Follows
    <3>3. item[p].row = "live"
      BY <1>1, <2>1 DEF Follows
    <3> QED
      BY <1>2, <1>4, <3>1, <3>2, <3>3 DEF Follows
  <2>4. CASE d # c
    <3>1. copy'[d] = copy[d] /\ copy[d] \in Copy
      BY <1>1, <1>5, <2>4
    <3>2. CASE q = p
      BY <1>2, <1>4, <2>1, <2>2, <3>1, <3>2 DEF Follows, Copy
    <3>3. CASE q # p
      BY <1>4, <2>1, <2>2, <3>1, <3>3 DEF Follows
    <3> QED
      BY <3>2, <3>3
  <2> QED
    BY <2>3, <2>4
<1> QED
  BY <1>6, <1>7 DEF EditIInv, Follows

\* The lock is taken or let go.
LEMMA LockKeeps ==
  ASSUME EditIInv, NEW p \in Product, NEW c \in Clients, LockRow(c, p) \/ UpdateFails(c, p)
  PROVE  EditIInv'
<1> USE BarcodeAssumption
<1>1. CASE LockRow(c, p)
  BY <1>1 DEF LockRow, EditIInv, EditTypeOK
<1>2. CASE UpdateFails(c, p)
  BY <1>2 DEF UpdateFails, EditIInv, EditTypeOK
<1> QED
  BY <1>1, <1>2

\* delete_product: a row that a client holds is not deleted.
LEMMA DeleteKeeps ==
  ASSUME EditIInv, NEW p \in Product, DeleteProduct(p)
  PROVE  EditIInv'
<1>1. /\ item' = [item EXCEPT ![p].row = "deleted"] /\ copy' = copy /\ holder' = holder
      /\ item \in [Product -> Item] /\ holder[p] = Nil
  BY DEF DeleteProduct, EditIInv, EditTypeOK
<1>2. /\ item' \in [Product -> Item]
      /\ \A q \in Product : /\ item'[q].version = item[q].version
                            /\ item'[q].barcode = item[q].barcode
                            /\ item'[q].row = IF q = p THEN "deleted" ELSE item[q].row
  BY <1>1 DEF Item
<1> QED
  BY <1>1, <1>2, BarcodeAssumption DEF EditIInv, EditTypeOK

\* Every call of ProductService keeps the invariant.
LEMMA EditIInvStep == EditIInv /\ [EditNext]_editVars => EditIInv'
<1> SUFFICES ASSUME EditIInv, [EditNext]_editVars PROVE EditIInv'
  OBVIOUS
<1>1. CASE UNCHANGED editVars
  BY <1>1 DEF editVars, EditIInv, EditTypeOK
<1>2. CASE EditNext
  <2>1. PICK p \in Product :
          \/ DeleteProduct(p)
          \/ \E c \in Clients :
               \/ Fetch(c, p) \/ LockRow(c, p) \/ UpdateFails(c, p)
               \/ \E barcode \in Barcodes \cup {Nil} :
                    CreateProduct(c, p, barcode) \/ UpdateProduct(c, p, barcode)
    BY <1>2 DEF EditNext
  <2> QED
    BY <2>1, FetchKeeps, CreateKeeps, UpdateKeeps, LockKeeps, DeleteKeeps
<1> QED
  BY <1>1, <1>2

\* The products, the clients' copies and the locks keep their types.
THEOREM EditsTyped == EditSpec => []EditTypeOK
<1>1. EditIInv => EditTypeOK
  BY DEF EditIInv
<1> QED
  BY <1>1, EditIInvInit, EditIInvStep, PTL DEF EditSpec

\* update_product changes a product only for the client that holds its row, and
\* that client has seen it as it is.
THEOREM EditsBuildOnCopyAlways == EditSpec => EditsBuildOnCopy
<1> DEFINE Built ==
      \A p \in Product : item[p].row # "absent" /\ item'[p].barcode # item[p].barcode =>
        /\ item[p].row = "live"
        /\ \E c \in Clients :
             /\ holder[p] = c
             /\ copy[c] = [of |-> p, version |-> item[p].version, barcode |-> item[p].barcode]
<1>1. ASSUME EditIInv, [EditNext]_editVars PROVE [Built]_editVars
  <2> SUFFICES ASSUME EditNext PROVE Built
    BY <1>1
  <2> SUFFICES ASSUME NEW p \in Product, item[p].row # "absent", item'[p].barcode # item[p].barcode
               PROVE  /\ item[p].row = "live"
                      /\ \E c \in Clients :
                           /\ holder[p] = c
                           /\ copy[c] = [of |-> p, version |-> item[p].version,
                                         barcode |-> item[p].barcode]
    OBVIOUS
  <2>1. item \in [Product -> Item] /\ copy \in [Clients -> Copy]
    BY <1>1 DEF EditIInv, EditTypeOK
  <2>2. \E c \in Clients : holder[p] = c
    <3>1. \A q \in Product : ~DeleteProduct(q)
      BY <2>1 DEF DeleteProduct, Item
    <3>2. \A q \in Product, c \in Clients : ~Fetch(c, q) /\ ~LockRow(c, q) /\ ~UpdateFails(c, q)
      BY DEF Fetch, LockRow, UpdateFails
    <3>3. \A q \in Product, c \in Clients, b \in Barcodes \cup {Nil} : ~CreateProduct(c, q, b)
      BY <2>1 DEF CreateProduct
    <3>4. PICK q \in Product, c \in Clients, b \in Barcodes \cup {Nil} : UpdateProduct(c, q, b)
      BY <3>1, <3>2, <3>3 DEF EditNext
    <3>5. q = p
      BY <2>1, <3>4 DEF UpdateProduct
    <3> QED
      BY <3>4, <3>5 DEF UpdateProduct
  <2>3. PICK c \in Clients : holder[p] = c
    BY <2>2
  <2>4. Follows(c, p)
    BY <1>1, FollowsEverywhere
  <2>5. copy[c] = [of |-> copy[c].of, version |-> copy[c].version, barcode |-> copy[c].barcode]
    BY <2>1 DEF Copy
  <2> QED
    BY <2>3, <2>4, <2>5 DEF Follows
<1>2. EditSpec => [][Built]_editVars
  BY <1>1, EditIInvInit, EditIInvStep, PTL DEF EditSpec
<1> QED
  BY <1>2 DEF EditsBuildOnCopy

(* ------------------------------ LedgerPages ----------------------------- *)

\* A page is full of the first entries beyond the cursor: with an entry it holds
\* all that come before it.
LEMMA PageIsPrefix ==
  ASSUME PageTypeOK, NEW i \in Page, NEW j \in Beyond, j <= i
  PROVE  j \in Page
<1>1. entries \subseteq Ids /\ IsFiniteSet(Ids) /\ Ids \subseteq Int
  BY LimitAssumption, FS_Interval DEF PageTypeOK, Ids
<1>2. i \in Beyond /\ Cardinality(Upto(i)) <= Limit /\ i \in Int /\ j \in Int
  BY <1>1 DEF Page, Beyond
<1>3. Upto(j) \subseteq Upto(i) /\ Upto(i) \subseteq Ids /\ Upto(j) \subseteq Ids
  <2>1. Beyond \subseteq Ids /\ \A k \in Beyond : k \in Int
    BY <1>1 DEF Beyond
  <2>2. \A k \in Beyond : k <= j => k <= i
    BY <1>2, <2>1
  <2> QED
    BY <2>1, <2>2 DEF Upto
<1>4. /\ IsFiniteSet(Upto(i)) /\ IsFiniteSet(Upto(j))
      /\ Cardinality(Upto(j)) <= Cardinality(Upto(i))
  <2>1. IsFiniteSet(Upto(i))
    BY <1>1, <1>3, FS_Subset
  <2> QED
    BY <1>3, <2>1, FS_Subset
<1>5. Cardinality(Upto(j)) \in Nat /\ Cardinality(Upto(i)) \in Nat
  BY <1>4, FS_CardinalityType
<1> QED
  BY <1>2, <1>4, <1>5, LimitAssumption DEF Page

\* Before a walk no page was shown.
LEMMA PageIInvInit == PageInit => PageIInv
<1> SUFFICES ASSUME PageInit PROVE PageIInv
  OBVIOUS
<1>1. entries \subseteq Ids /\ begun = {} /\ cursor = 0 /\ walking = FALSE
  BY DEF PageInit
<1>2. shown \in [Ids -> Nat] /\ \A i \in Ids : shown[i] = 0
  BY DEF PageInit
<1>3. PageTypeOK
  <2>1. cursor \in 0 .. LastId
    BY <1>1, LimitAssumption
  <2> QED
    BY <1>1, <1>2, <2>1 DEF PageTypeOK
<1>4. WalkComplete
  BY <1>1, <1>2 DEF WalkComplete
<1> QED
  BY <1>1, <1>3, <1>4 DEF PageIInv

\* A new walk starts before the first entry with nothing shown.
LEMMA BeginKeeps == PageIInv /\ BeginWalk => PageIInv'
BY LimitAssumption DEF BeginWalk, PageIInv, PageTypeOK, WalkComplete, Ids

\* add_entry: an entry inserted meanwhile is none of those the walk began with.
LEMMA InsertKeeps ==
  ASSUME PageIInv, NEW i \in Ids, Insert(i)
  PROVE  PageIInv'
<1>1. /\ entries' \subseteq Ids /\ begun' \subseteq entries'
      /\ UNCHANGED <<cursor, walking, shown, begun>>
  BY DEF Insert, PageIInv, PageTypeOK
<1> QED
  BY <1>1 DEF PageIInv, PageTypeOK, WalkComplete

\* A page raises the count of its entries, which was 0; the new cursor is its end.
LEMMA ShowPageKeeps == PageIInv /\ ShowPage => PageIInv'
<1> SUFFICES ASSUME PageIInv, ShowPage PROVE PageIInv'
  OBVIOUS
<1>1. /\ entries \subseteq Ids /\ begun \subseteq entries
      /\ cursor \in 0 .. LastId /\ shown \in [Ids -> Nat] /\ Ids \subseteq Nat
      /\ entries' = entries /\ begun' = begun /\ walking
  BY LimitAssumption DEF PageIInv, PageTypeOK, ShowPage, Ids
<1>2. \A i \in Ids : (i > cursor => shown[i] = 0) /\ (i <= cursor /\ i \in begun => shown[i] = 1)
                     /\ shown[i] <= 1
  BY <1>1 DEF PageIInv, WalkComplete
<1>3. /\ shown' \in [Ids -> Nat]
      /\ \A i \in Ids : shown'[i] = IF i \in Page THEN shown[i] + 1 ELSE shown[i]
  BY <1>1 DEF ShowPage
<1>4. \A i \in Ids : i \in Beyond <=> i \in entries /\ i > cursor
  BY <1>1 DEF Beyond
<1>5. Page \subseteq Beyond /\ Beyond \subseteq Ids
  BY <1>1 DEF Page, Beyond
<1>6. \A i \in Ids : shown'[i] <= 1 /\ (i \in Page => shown'[i] = 1)
  BY <1>1, <1>2, <1>3, <1>4, <1>5
<1>7. CASE Page = Beyond
  <2>1. walking' = FALSE /\ cursor' = cursor
    BY <1>7 DEF ShowPage
  <2>2. \A i \in begun : shown'[i] = 1
    BY <1>1, <1>2, <1>3, <1>4, <1>5, <1>6, <1>7
  <2> QED
    BY <1>1, <1>3, <1>6, <2>1, <2>2 DEF PageIInv, PageTypeOK, WalkComplete
<1>8. CASE Page # Beyond
  <2>1. /\ walking' = TRUE
        /\ cursor' \in Page /\ Page \subseteq Upto(cursor')
    BY <1>8 DEF ShowPage
  <2>2. cursor' \in Ids /\ cursor' > cursor /\ cursor' \in 0 .. LastId
    BY <1>4, <1>5, <2>1, LimitAssumption DEF Ids
  <2>3. \A i \in Ids : i > cursor' => i \notin Page
    BY <1>1, <2>1, <2>2 DEF Upto
  <2>4. \A i \in Beyond : i <= cursor' => i \in Page
    BY <2>1, PageIsPrefix DEF PageIInv
  <2>5. \A i \in Ids : i > cursor' => shown'[i] = 0
    BY <1>1, <1>2, <1>3, <2>2, <2>3
  <2>6. \A i \in Ids : i <= cursor' /\ i \in begun => shown'[i] = 1
    BY <1>1, <1>2, <1>3, <1>4, <1>5, <1>6, <2>4
  <2> QED
    BY <1>1, <1>3, <1>6, <2>1, <2>2, <2>5, <2>6 DEF PageIInv, PageTypeOK, WalkComplete
<1> QED
  BY <1>7, <1>8

\* Every page and every entry keeps the invariant.
LEMMA PageIInvStep == PageIInv /\ [PageNext]_pageVars => PageIInv'
<1> SUFFICES ASSUME PageIInv, [PageNext]_pageVars PROVE PageIInv'
  OBVIOUS
<1>1. CASE UNCHANGED pageVars
  BY <1>1 DEF pageVars, PageIInv, PageTypeOK, WalkComplete
<1>2. CASE PageNext
  BY <1>2, BeginKeeps, InsertKeeps, ShowPageKeeps DEF PageNext
<1> QED
  BY <1>1, <1>2

\* get_page_with_cursor: whatever is inserted between two pages, a walk shows
\* every entry there was when it began, and none twice.
THEOREM WalkAlwaysComplete == PageSpec => []WalkComplete
<1>1. PageIInv => WalkComplete
  BY DEF PageIInv
<1> QED
  BY <1>1, PageIInvInit, PageIInvStep, PTL DEF PageSpec
=============================================================================
