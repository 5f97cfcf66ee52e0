------------------------------ MODULE MCCalls ------------------------------
(* PONumbers and RequestSession in one instance: calls that wait, for rows and *)
(* index entries or for connections.  They share no state, so that each runs   *)
(* alone: what the other does in between cannot matter to it.                  *)
EXTENDS PONumbers, RequestSession

VARIABLE part

MCInit ==
  /\ part \in {"numbers", "session"}
  /\ Init /\ SessionInit

MCNext ==
  \/ part = "numbers" /\ Next /\ UNCHANGED <<part, sessionVars>>
  \/ part = "session" /\ SessionNext /\ UNCHANGED <<part, vars>>

MCSpec == MCInit /\ [][MCNext]_<<part, vars, sessionVars>> /\ Fairness /\ SessionFairness

=============================================================================
