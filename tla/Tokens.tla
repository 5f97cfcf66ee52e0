------------------------------- MODULE Tokens -------------------------------
(***************************************************************************)
(* The tokens of one user: core/security.py, AuthService.refresh and       *)
(* logout in services/auth_service.py, and get_current_user in             *)
(* core/dependencies.py.                                                   *)
(*                                                                         *)
(* A call decodes its token and looks for it among the revoked ones in the *)
(* cache; later it reads the user.  A key in the cache expires with its    *)
(* token; times are in seconds, and a token is good for all of its last.   *)
(* token_version is 0 for ever (nothing calls what increments it), so that *)
(* the versions compared are the same and left out.                        *)
(***************************************************************************)
EXTENDS Cache

CONSTANTS Token, TokenCalls, None

ASSUME TokenAssumption == None \notin Token

VARIABLES
  active,     \* is the user there, and active?
  kind,       \* of a token: access, refresh, or None before it is issued
  age,        \* valid, then last (second), then expired
  listed,     \* tokens with a key in the cache
  call,       \* where a call is, and with which token
  revoked,    \* history: tokens that were put into the cache, until they expire
  knew        \* history: calls whose token was not revoked when they looked
              \* it up, or was in its last second

tokenVars == <<active, kind, age, listed, call, revoked, knew>>

-----------------------------------------------------------------------------
Idle == [at |-> "idle", token |-> None]

TokenTypeOK ==
  /\ reliable \in BOOLEAN
  /\ active \in BOOLEAN
  /\ kind \in [Token -> {"access", "refresh", None}]
  /\ age \in [Token -> {"valid", "last", "expired"}]
  /\ listed \subseteq Token /\ revoked \subseteq Token
  /\ call \in [TokenCalls -> [at : {"looked", "granted", "revoking"}, token : Token] \cup {Idle}]
  /\ knew \subseteq TokenCalls

TokenInit ==
  /\ active = TRUE
  /\ kind = [t \in Token |-> None]
  /\ age = [t \in Token |-> "valid"]
  /\ listed = {} /\ revoked = {} /\ knew = {}
  /\ call = [c \in TokenCalls |-> Idle]

\* An administrator deactivates, activates or deletes the user.
SetActive ==
  /\ active' = ~active
  /\ UNCHANGED <<reliable, kind, age, listed, call, revoked, knew>>

\* A token grows older; no key outlives it.
Age(t) ==
  /\ kind[t] # None /\ age[t] # "expired"
  /\ age' = [age EXCEPT ![t] = IF @ = "valid" THEN "last" ELSE "expired"]
  /\ IF age[t] = "valid"
       THEN UNCHANGED <<listed, revoked>>
       ELSE listed' = listed \ {t} /\ revoked' = revoked \ {t}
  /\ UNCHANGED <<reliable, active, kind, call, knew>>

\* The key's time is over, which it is not before the token's last second; or
\* Redis restarts, or evicts the key.
KeyGoneMutant(t) ==
  /\ t \in listed
  /\ listed' = listed \ {t}
  /\ UNCHANGED <<reliable, active, kind, age, call, revoked, knew>>
KeyGone(t) ==
  /\ t \in listed
  /\ age[t] = "last" \/ MayFail
  /\ listed' = listed \ {t}
  /\ UNCHANGED <<reliable, active, kind, age, call, revoked, knew>>

-----------------------------------------------------------------------------
\* decode_token.
Good(t) == kind[t] # None /\ age[t] # "expired"

\* The end of AuthService.login: an access and a refresh token.
IssueBoth(a, r) ==
  /\ active
  /\ a # r /\ kind[a] = None /\ kind[r] = None
  /\ kind' = [kind EXCEPT ![a] = "access", ![r] = "refresh"]
  /\ UNCHANGED <<reliable, active, age, listed, call, revoked, knew>>

\* is_blacklisted: the token has no key, or the cache could not be asked.
LookUp(c, t) ==
  /\ call[c] = Idle
  /\ Good(t)
  /\ t \notin listed \/ MayFail
  /\ call' = [call EXCEPT ![c] = [at |-> "looked", token |-> t]]
  /\ knew' = IF t \notin revoked \/ age[t] = "last" THEN knew \cup {c} ELSE knew
  /\ UNCHANGED <<reliable, active, kind, age, listed, revoked>>

Done(c) == call' = [call EXCEPT ![c] = Idle] /\ knew' = knew \ {c}

\* refresh: a new access token; the refresh token stays.
Refresh(c, n) ==
  /\ call[c].at = "looked" /\ kind[call[c].token] = "refresh"
  /\ active
  /\ kind[n] = None
  /\ kind' = [kind EXCEPT ![n] = "access"]
  /\ Done(c)
  /\ UNCHANGED <<reliable, active, age, listed, revoked>>

\* get_current_user lets the call in.
Grant(c) ==
  /\ call[c].at = "looked" /\ kind[call[c].token] = "access"
  /\ active
  /\ call' = [call EXCEPT ![c].at = "granted"]
  /\ UNCHANGED <<reliable, active, kind, age, listed, revoked, knew>>

\* The user is gone or inactive, or a call that is not a logout ends.
End(c) ==
  /\ call[c].at = "granted" \/ (call[c].at = "looked" /\ ~active)
  /\ Done(c)
  /\ UNCHANGED <<reliable, active, kind, age, listed, revoked>>

\* blacklist_token: a key for the rest of the token's time.
Blacklist(t) ==
  \/ Good(t) /\ listed' = listed \cup {t} /\ revoked' = revoked \cup {t}
  \/ (~Good(t) \/ MayFail) /\ UNCHANGED <<listed, revoked>>

\* logout: the token of the call, then the one in its body, of either kind.
RevokeOwn(c, body) ==
  /\ call[c].at = "granted"
  /\ kind[body] # None
  /\ Blacklist(call[c].token)
  /\ call' = [call EXCEPT ![c] = [at |-> "revoking", token |-> body]]
  /\ UNCHANGED <<reliable, active, kind, age, knew>>

RevokeBody(c) ==
  /\ call[c].at = "revoking"
  /\ Blacklist(call[c].token)
  /\ Done(c)
  /\ UNCHANGED <<reliable, active, kind, age>>

TokenNext ==
  \/ SetActive
  \/ \E t \in Token : Age(t) \/ KeyGone(t) \/ \E r \in Token : IssueBoth(t, r)
  \/ \E c \in TokenCalls :
       \/ Grant(c) \/ End(c) \/ RevokeBody(c)
       \/ \E t \in Token : LookUp(c, t) \/ Refresh(c, t) \/ RevokeOwn(c, t)

TokenSpec == CacheInit /\ TokenInit /\ [][TokenNext]_<<reliable, tokenVars>>

-----------------------------------------------------------------------------
\* "Logout and blacklist both tokens" (routers/auth.py): as long as the cache
\* works, whoever is let in, or given a new token, presented a token that was not
\* revoked yet, or was in its last second.
RevokedRefused ==
  [][\A c \in TokenCalls : reliable /\ call[c].at = "looked" /\ active
                        /\ call'[c] # call[c] => c \in knew]_tokenVars

\* The inductive invariant: a revoked token has its key until its last second.
TokenIInv ==
  /\ TokenTypeOK
  /\ reliable =>
       /\ \A t \in revoked : age[t] = "valid" => t \in listed
       /\ \A c \in TokenCalls : call[c].at = "looked" => c \in knew

=============================================================================
