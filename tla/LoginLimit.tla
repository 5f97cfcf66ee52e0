----------------------------- MODULE LoginLimit -----------------------------
(***************************************************************************)
(* The limit on failed logins: AuthService.login in                        *)
(* services/auth_service.py, for the logins from one address.              *)
(*                                                                         *)
(* A login reads the counter, later checks the password, and after a       *)
(* failure increments the counter.  Whoever increments it to 1 sets it     *)
(* again, to the 1 it got, to give it the time after which it expires.     *)
(* These are separate calls to the cache, and other logins come between.   *)
(***************************************************************************)
EXTENDS Cache, Integers, FiniteSets

CONSTANTS
  Logins,        \* logins under way at once
  Attempts,      \* auth_rate_limit_attempts
  LastFailure    \* bound: failures counted when reads of the counter fail

ASSUME AttemptsAssumption == Attempts \in Nat /\ Attempts > 1
ASSUME LoginsAssumption == IsFiniteSet(Logins) /\ Logins # {}

VARIABLES
  counter,   \* the key's value, or 0 when there is no key
  expires,   \* does the key expire?
  login,     \* where a login is
  failures   \* history: failures counted since the key came to be

limitVars == <<counter, expires, login, failures>>

-----------------------------------------------------------------------------
LimitTypeOK ==
  /\ reliable \in BOOLEAN
  /\ counter \in Nat /\ expires \in BOOLEAN
  /\ login \in [Logins -> {"idle", "verify", "expire"}]
  /\ failures \in Nat

LimitInit ==
  /\ counter = 0 /\ expires = FALSE
  /\ login = [c \in Logins |-> "idle"]
  /\ failures = 0

Goto(c, place) == login' = [login EXCEPT ![c] = place]

\* The counter is below the limit, or could not be read.
CheckMutant(c) ==
  /\ login[c] = "idle"
  /\ counter <= Attempts \/ (MayFail /\ failures < LastFailure)
  /\ Goto(c, "verify")
  /\ UNCHANGED <<reliable, counter, expires, failures>>
Check(c) ==
  /\ login[c] = "idle"
  /\ counter < Attempts \/ (MayFail /\ failures < LastFailure)
  /\ Goto(c, "verify")
  /\ UNCHANGED <<reliable, counter, expires, failures>>

\* The password is right, of an account that is active or is not; or the server
\* is stopped.
NotCounted(c) ==
  /\ login[c] = "verify"
  /\ Goto(c, "idle")
  /\ UNCHANGED <<reliable, counter, expires, failures>>

\* No such user, or a wrong password: the first failure has the key expire.
CountMutant(c) ==
  /\ login[c] = "verify"
  /\ counter' = counter + 1 /\ failures' = failures + 1
  /\ Goto(c, "idle")
  /\ UNCHANGED <<reliable, expires>>
Count(c) ==
  /\ login[c] = "verify"
  /\ counter' = counter + 1 /\ failures' = failures + 1
  /\ Goto(c, IF counter = 0 THEN "expire" ELSE "idle")
  /\ UNCHANGED <<reliable, expires>>

\* The key is written as 1, whatever was counted meanwhile.
SetExpiry(c) ==
  /\ login[c] = "expire"
  /\ counter' = 1 /\ expires' = TRUE
  /\ Goto(c, "idle")
  /\ UNCHANGED <<reliable, failures>>

\* The call to the cache fails, or the server is stopped before it.
ExpiryLost(c) ==
  /\ MayFail
  /\ login[c] = "expire"
  /\ Goto(c, "idle")
  /\ UNCHANGED <<reliable, counter, expires, failures>>

\* The key is gone, after its time or otherwise.
WindowEnds ==
  /\ counter > 0
  /\ expires \/ MayFail
  /\ counter' = 0 /\ expires' = FALSE
  /\ failures' = 0
  /\ UNCHANGED <<reliable, login>>

LimitNext ==
  \/ WindowEnds
  \/ \E c \in Logins :
       Check(c) \/ NotCounted(c) \/ Count(c) \/ SetExpiry(c) \/ ExpiryLost(c)

LimitSpec == CacheInit /\ LimitInit /\ [][LimitNext]_<<reliable, limitVars>>

\* A server goes on with a login, and Redis drops a key whose time is over.
LimitFairness ==
  /\ WF_limitVars(expires /\ WindowEnds)
  /\ \A c \in Logins : WF_limitVars(SetExpiry(c))

-----------------------------------------------------------------------------
\* auth_rate_limit_attempts: as long as the cache works, an address is blocked
\* for failures that happened, and fails at most so often in one window.  It is
\* twice the limit, as the first failure may set the counter back to 1 when
\* others have just reached the limit, and each login that was let in may fail.
LimitHolds ==
  reliable =>
    /\ counter <= failures
    /\ failures <= 2 * (Attempts + Cardinality(Logins) - 2)

\* As long as the cache works, an address that is blocked is let in again.
BlockEnds == (reliable /\ counter >= Attempts) ~> (counter < Attempts)

\* The inductive invariant: until the key is set to expire one login is about to
\* do that, and the logins let in may take the counter no further than the bound.
In(place) == {c \in Logins : login[c] = place}
LimitIInv ==
  /\ LimitTypeOK
  /\ reliable =>
       /\ counter <= failures
       /\ counter + Cardinality(In("verify")) <= Attempts + Cardinality(Logins) - 1
       /\ expires => counter > 0 /\ In("expire") = {}
       /\ counter = 0 => In("expire") = {} /\ failures = 0
       /\ counter > 0 /\ ~expires =>
            /\ \E c \in Logins : In("expire") = {c}
            /\ failures = counter
            /\ counter + Cardinality(In("verify")) <= Attempts + Cardinality(Logins) - 2
       /\ expires => failures - counter <= Attempts + Cardinality(Logins) - 3

=============================================================================
