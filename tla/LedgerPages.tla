---------------------------- MODULE LedgerPages ----------------------------
(***************************************************************************)
(* Reading the stock ledger page by page: get_page in                      *)
(* services/stock_ledger_service.py and get_page_with_cursor in            *)
(* repositories/stock_ledger_repository.py.                                *)
(*                                                                         *)
(* Pages are in the order of the entries' ids, which are random: receipts  *)
(* insert entries anywhere while a client walks through the pages.         *)
(***************************************************************************)
EXTENDS Integers, FiniteSets

CONSTANTS
  LastId,    \* ids are 1 .. LastId
  Limit      \* entries on a page

ASSUME LimitAssumption == LastId \in Nat /\ Limit \in Nat \ {0}

VARIABLES
  entries,   \* ids of the entries that pass the filter
  cursor,    \* the last id the client was told to go on from, 0 at first
  walking,   \* is there another page?
  shown,     \* how often an entry was on a page of this walk
  begun      \* history: the entries there were when the walk began

pageVars == <<entries, cursor, walking, shown, begun>>

-----------------------------------------------------------------------------
Ids == 1 .. LastId

PageTypeOK ==
  /\ entries \subseteq Ids /\ begun \subseteq entries
  /\ cursor \in 0 .. LastId /\ walking \in BOOLEAN
  /\ shown \in [Ids -> Nat]

PageInit ==
  /\ entries \in SUBSET Ids
  /\ cursor = 0 /\ walking = FALSE
  /\ shown = [i \in Ids |-> 0] /\ begun = {}

\* add_entry: an id nobody can foresee.  Entries are never deleted.
Insert(i) ==
  /\ i \notin entries
  /\ entries' = entries \cup {i}
  /\ UNCHANGED <<cursor, walking, shown, begun>>

\* The client starts over, with a first page.
BeginWalk ==
  /\ ~walking
  /\ walking' = TRUE /\ cursor' = 0
  /\ shown' = [i \in Ids |-> 0] /\ begun' = entries
  /\ UNCHANGED entries

\* The rows beyond the cursor, and as much of them as a page holds.
Beyond == {i \in entries : i > cursor}
Upto(i) == {j \in Beyond : j <= i}
Page == {i \in Beyond : Cardinality(Upto(i)) <= Limit}

\* There is a next page if there was one row more than the page holds; it goes
\* on from the last row of this one.
ShowPageMutant ==
  /\ walking
  /\ shown' = [i \in Ids |-> shown[i] + IF i \in Page THEN 1 ELSE 0]
  /\ walking' = (Page # Beyond)
  /\ cursor' \in IF Page = Beyond THEN {cursor} ELSE {i \in Beyond \ Page : Upto(i) \ Page = {i}}
  /\ UNCHANGED <<entries, begun>>
ShowPage ==
  /\ walking
  /\ shown' = [i \in Ids |-> shown[i] + IF i \in Page THEN 1 ELSE 0]
  /\ walking' = (Page # Beyond)
  /\ cursor' \in IF Page = Beyond THEN {cursor} ELSE {i \in Page : Page \subseteq Upto(i)}
  /\ UNCHANGED <<entries, begun>>

PageNext == BeginWalk \/ ShowPage \/ \E i \in Ids : Insert(i)

PageSpec == PageInit /\ [][PageNext]_pageVars

-----------------------------------------------------------------------------
\* get_page, whatever is inserted meanwhile: no entry is on two pages of a walk,
\* and at its end every entry there was at its beginning was on one.
WalkComplete ==
  /\ \A i \in Ids : shown[i] <= 1
  /\ ~walking => \A i \in begun : shown[i] = 1

\* The inductive invariant: the pages so far show what there was up to the
\* cursor, and nothing beyond it.
PageIInv ==
  /\ PageTypeOK
  /\ WalkComplete
  /\ walking => \A i \in Ids :
       /\ i > cursor => shown[i] = 0
       /\ i <= cursor /\ i \in begun => shown[i] = 1

=============================================================================
