--------------------------- MODULE POStateMachine ---------------------------
(***************************************************************************)
(* The purchase-order state machine of                                     *)
(* backend/app/services/po_state_machine.py: the table of legal            *)
(* transitions and the check every lifecycle handler makes before it       *)
(* writes a status.                                                        *)
(***************************************************************************)
EXTENDS Naturals

POStatus == {"draft", "submitted", "acknowledged", "shipped", "received",
             "closed", "cancelled"}

LEGAL_TRANSITIONS ==
  [ draft        |-> {"submitted", "cancelled"},
    submitted    |-> {"acknowledged", "cancelled"},
    acknowledged |-> {"shipped"},
    shipped      |-> {"received"},
    received     |-> {"closed"},
    closed       |-> {},
    cancelled    |-> {} ]

\* validate_transition returns (does not raise) exactly for these pairs.
LegalTransition(current, target) == target \in LEGAL_TRANSITIONS[current]

\* The statuses that count against a supplier's credit limit.
OpenStatus == {"submitted", "acknowledged", "shipped"}

=============================================================================
