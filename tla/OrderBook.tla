----------------------------- MODULE OrderBook -----------------------------
(***************************************************************************)
(* What the purchase order service promises of an order, whatever calls    *)
(* overlap: its content can be edited while it is a draft and is fixed     *)
(* from the moment it leaves that state, its status follows the state      *)
(* machine, a deleted draft never comes back.  PurchaseOrders is shown to  *)
(* implement this specification.                                           *)
(***************************************************************************)
EXTENDS POStateMachine

CONSTANTS Orders, Contents, Blank

VARIABLES
  phase,     \* absent, a status of the state machine, or deleted
  content    \* the supplier and the lines the order is for

book == <<phase, content>>

Init ==
  /\ phase = [o \in Orders |-> "absent"]
  /\ content = [o \in Orders |-> Blank]

\* An order enters the book as a draft, or as submitted when a workflow
\* places it.
Enter(o, at, c) ==
  /\ phase[o] = "absent"
  /\ phase' = [phase EXCEPT ![o] = at]
  /\ content' = [content EXCEPT ![o] = c]

Edit(o, c) ==
  /\ phase[o] = "draft"
  /\ content' = [content EXCEPT ![o] = c]
  /\ UNCHANGED phase

Move(o, to) ==
  /\ phase[o] \in POStatus
  /\ LegalTransition(phase[o], to)
  /\ phase' = [phase EXCEPT ![o] = to]
  /\ UNCHANGED content

Discard(o) ==
  /\ phase[o] = "draft"
  /\ phase' = [phase EXCEPT ![o] = "deleted"]
  /\ UNCHANGED content

Next ==
  \E o \in Orders :
    \/ \E at \in {"draft", "submitted"}, c \in Contents : Enter(o, at, c)
    \/ \E c \in Contents : Edit(o, c)
    \/ \E to \in POStatus : Move(o, to)
    \/ Discard(o)

Spec == Init /\ [][Next]_book

\* A placed order is never edited: its content stays what was submitted.
ContentFixed ==
  [][\A o \in Orders : phase[o] \notin {"absent", "draft"} => content'[o] = content[o]]_book

=============================================================================
