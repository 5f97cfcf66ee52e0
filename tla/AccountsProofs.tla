--------------------------- MODULE AccountsProofs ---------------------------
(***************************************************************************)
(* Proofs about Tokens, Users and LoginLimit, for any number of tokens,    *)
(* calls, users, requests and logins, and any limit; and about the session *)
(* in which an authenticated call works (RequestSession), for any number   *)
(* of calls, rows and connections.                                         *)
(***************************************************************************)
EXTENDS LoginLimit, Tokens, Users, RequestSession, FiniteSetTheorems, TLAPS

(* -------------------------------- Tokens -------------------------------- *)

\* Before any token is issued, none is revoked.
LEMMA TokenIInvInit == CacheInit /\ TokenInit => TokenIInv
BY TokenAssumption DEF CacheInit, TokenInit, TokenIInv, TokenTypeOK, Idle

\* The shape of a call's record, whether or not it has a token.
LEMMA CallShape ==
  ASSUME TokenTypeOK, NEW c \in TokenCalls
  PROVE  /\ call[c].at \in {"idle", "looked", "granted", "revoking"}
         /\ call[c].at # "idle" => call[c].token \in Token
BY DEF TokenTypeOK, Idle

\* A call moves on to a place that needs no token looked up, or ends.
LEMMA CallMoves ==
  ASSUME TokenTypeOK, NEW c \in TokenCalls, NEW to,
         to \in [at : {"looked", "granted", "revoking"}, token : Token] \cup {Idle},
         call' = [call EXCEPT ![c] = to]
  PROVE  /\ call' \in [TokenCalls -> [at : {"looked", "granted", "revoking"}, token : Token] \cup {Idle}]
         /\ \A d \in TokenCalls : call'[d] = IF d = c THEN to ELSE call[d]
BY DEF TokenTypeOK

\* Every call of login, refresh, logout and get_current_user keeps the
\* invariant.
LEMMA TokenIInvStep == TokenIInv /\ [TokenNext]_<<reliable, tokenVars>> => TokenIInv'
<1> SUFFICES ASSUME TokenIInv, [TokenNext]_<<reliable, tokenVars>> PROVE TokenIInv'
  OBVIOUS
<1> USE DEF TokenIInv
<1>1. CASE UNCHANGED <<reliable, tokenVars>>
  BY <1>1 DEF tokenVars, TokenTypeOK
<1>2. CASE SetActive
  BY <1>2 DEF SetActive, TokenTypeOK
<1>3. ASSUME NEW t \in Token, Age(t) PROVE TokenIInv'
  BY <1>3 DEF Age, TokenTypeOK
<1>4. ASSUME NEW t \in Token, KeyGone(t) PROVE TokenIInv'
  BY <1>4 DEF KeyGone, TokenTypeOK, MayFail
<1>5. ASSUME NEW t \in Token, NEW r \in Token, IssueBoth(t, r) PROVE TokenIInv'
  BY <1>5 DEF IssueBoth, TokenTypeOK
<1>6. ASSUME NEW c \in TokenCalls, NEW t \in Token, LookUp(c, t) PROVE TokenIInv'
  <2> DEFINE to == [at |-> "looked", token |-> t]
  <2>1. \A d \in TokenCalls : call'[d] = IF d = c THEN to ELSE call[d]
    BY <1>6, CallMoves DEF LookUp
  <2>2. TokenTypeOK'
    BY <1>6, CallMoves DEF LookUp, TokenTypeOK
  <2>3. reliable => t \notin revoked \/ age[t] = "last"
    <3>1. reliable => t \notin listed
      BY <1>6 DEF LookUp, MayFail
    <3>2. age[t] \in {"valid", "last"}
      BY <1>6 DEF LookUp, Good, TokenTypeOK
    <3> QED
      BY <3>1, <3>2
  <2> QED
    BY <1>6, <2>1, <2>2, <2>3 DEF LookUp
<1>7. ASSUME NEW c \in TokenCalls, NEW t \in Token, Refresh(c, t) PROVE TokenIInv'
  <2>1. \A d \in TokenCalls : call'[d] = IF d = c THEN Idle ELSE call[d]
    BY <1>7, CallMoves DEF Refresh, Done
  <2>2. TokenTypeOK'
    BY <1>7, CallMoves DEF Refresh, Done, TokenTypeOK
  <2> QED
    BY <1>7, <2>1, <2>2 DEF Refresh, Done, Idle
<1>8. ASSUME NEW c \in TokenCalls, Grant(c) PROVE TokenIInv'
  <2> DEFINE to == [at |-> "granted", token |-> call[c].token]
  <2>1. call' = [call EXCEPT ![c] = to] /\ call[c].token \in Token
    <3>1. call[c] \in [at : {"looked", "granted", "revoking"}, token : Token]
      BY <1>8 DEF Grant, TokenTypeOK, Idle
    <3>2. [call[c] EXCEPT !.at = "granted"] = to /\ call[c].token \in Token
      BY <3>1
    <3> QED
      BY <1>8, <3>2 DEF Grant
  <2>2. to \in [at : {"looked", "granted", "revoking"}, token : Token]
    BY <2>1
  <2> HIDE DEF to
  <2>3. \A d \in TokenCalls : call'[d] = IF d = c THEN to ELSE call[d]
    BY <2>1, <2>2, CallMoves
  <2>4. TokenTypeOK'
    BY <1>8, <2>1, <2>2, CallMoves DEF Grant, TokenTypeOK
  <2> QED
    BY <1>8, <2>3, <2>4 DEF Grant, to
<1>9. ASSUME NEW c \in TokenCalls, End(c) PROVE TokenIInv'
  <2>1. \A d \in TokenCalls : call'[d] = IF d = c THEN Idle ELSE call[d]
    BY <1>9, CallMoves DEF End, Done
  <2>2. TokenTypeOK'
    BY <1>9, CallMoves DEF End, Done, TokenTypeOK
  <2> QED
    BY <1>9, <2>1, <2>2 DEF End, Done, Idle
<1>10. ASSUME NEW c \in TokenCalls, NEW t \in Token, RevokeOwn(c, t) PROVE TokenIInv'
  <2> DEFINE to == [at |-> "revoking", token |-> t]
  <2>1. \A d \in TokenCalls : call'[d] = IF d = c THEN to ELSE call[d]
    BY <1>10, CallMoves DEF RevokeOwn
  <2>2. call[c].token \in Token
    BY <1>10, CallShape DEF RevokeOwn
  <2>3. TokenTypeOK'
    BY <1>10, <2>2, CallMoves DEF RevokeOwn, Blacklist, TokenTypeOK
  <2> QED
    BY <1>10, <2>1, <2>2, <2>3 DEF RevokeOwn, Blacklist
<1>11. ASSUME NEW c \in TokenCalls, RevokeBody(c) PROVE TokenIInv'
  <2>1. \A d \in TokenCalls : call'[d] = IF d = c THEN Idle ELSE call[d]
    BY <1>11, CallMoves DEF RevokeBody, Done
  <2>2. call[c].token \in Token
    BY <1>11, CallShape DEF RevokeBody
  <2>3. TokenTypeOK'
    BY <1>11, <2>2, CallMoves DEF RevokeBody, Done, Blacklist, TokenTypeOK
  <2> QED
    BY <1>11, <2>1, <2>2, <2>3 DEF RevokeBody, Done, Blacklist, Idle
<1> QED
  BY <1>1, <1>2, <1>3, <1>4, <1>5, <1>6, <1>7, <1>8, <1>9, <1>10, <1>11 DEF TokenNext

\* logout and get_current_user, as long as the cache works: a token that was
\* revoked lets nobody in and gives no new token, except in its last second.
THEOREM RevokedAlwaysRefused == TokenSpec => RevokedRefused
<1> DEFINE Refused ==
      \A c \in TokenCalls : reliable /\ call[c].at = "looked" /\ active
                         /\ call'[c] # call[c] => c \in knew
<1>1. TokenIInv => [Refused]_tokenVars
  BY DEF TokenIInv
<1>2. TokenSpec => [][Refused]_tokenVars
  BY <1>1, TokenIInvInit, TokenIInvStep, PTL DEF TokenSpec
<1> QED
  BY <1>2 DEF RevokedRefused

(* --------------------------------- Users -------------------------------- *)

Signing == [row |-> "live", admin |-> TRUE, active |-> TRUE]

\* At first no request is under way.
LEMMA UserIInvInit == UserInit => UserIInv
<1> SUFFICES ASSUME UserInit PROVE UserIInv
  OBVIOUS
<1>1. user \in [Emails -> Account]
  <2>1. Absent \in Account
    BY DEF Account, Absent
  <2> QED
    BY <2>1 DEF UserInit
<1>2. \A c \in Requests : request[c] = Waiting
  BY DEF UserInit
<1>3. UserTypeOK
  BY <1>1 DEF UserInit, UserTypeOK, Waiting
<1> QED
  BY <1>2, <1>3 DEF UserIInv, Waiting

\* When requests do not overlap, a request that is under way is the only one.
LEMMA OnlyRequest ==
  ASSUME UserIInv, ~overlap, NEW c \in Requests, NEW d \in Requests,
         request[c].at # "idle", request[d].at # "idle"
  PROVE  c = d
BY DEF UserIInv

\* A request that is answered leaves the others as they are; what the accounts
\* became matters to none.
LEMMA AnswerKeeps ==
  ASSUME UserIInv, NEW c \in Requests, request[c].at # "idle", AnswerRequest(c),
         overlap' = overlap, user' \in [Emails -> Account]
  PROVE  UserIInv'
<1>1. Waiting \in [at : {"idle", "authorised", "deleting"},
                   actor : Emails \cup {NoOne}, target : Emails \cup {NoOne}]
  BY DEF Waiting
<1>2. \A d \in Requests : request'[d] = IF d = c THEN Waiting ELSE request[d]
  BY DEF AnswerRequest, UserIInv, UserTypeOK
<1>3. UserTypeOK'
  BY <1>1 DEF AnswerRequest, UserIInv, UserTypeOK
<1>4. ~overlap => \A d \in Requests : request'[d].at = "idle"
  BY <1>2, OnlyRequest DEF Waiting
<1> QED
  BY <1>3, <1>4 DEF UserIInv

\* Every request of routers/users.py keeps the invariant.
LEMMA UserIInvStep == UserIInv /\ [UserNext]_userVars => UserIInv'
<1> SUFFICES ASSUME UserIInv, [UserNext]_userVars PROVE UserIInv'
  OBVIOUS
<1>1. CASE UNCHANGED userVars
  BY <1>1 DEF userVars, UserIInv, UserTypeOK
<1>2. ASSUME NEW c \in Requests, Refuse(c) PROVE UserIInv'
  BY <1>2, AnswerKeeps DEF Refuse, UserIInv, UserTypeOK
<1>3. ASSUME NEW c \in Requests, Delete(c) PROVE UserIInv'
  <2>1. user' \in [Emails -> Account]
    <3>1. \A u \in Emails : [user[u] EXCEPT !.row = "deleted"] \in Account
      BY DEF UserIInv, UserTypeOK, Account
    <3> QED
      BY <1>3, <3>1 DEF Delete, UserIInv, UserTypeOK
  <2> QED
    BY <1>3, <2>1, AnswerKeeps DEF Delete
<1>4. ASSUME NEW c \in Requests, NEW u \in Emails, Authorise(c, u) PROVE UserIInv'
  <2> DEFINE to == [at |-> "authorised", actor |-> u, target |-> NoOne]
  <2>1. \A d \in Requests : request'[d] = IF d = c THEN to ELSE request[d]
    BY <1>4 DEF Authorise, UserIInv, UserTypeOK
  <2>2. UserTypeOK'
    BY <1>4 DEF Authorise, UserIInv, UserTypeOK
  <2>3. ~overlap => \A d \in Requests : request[d].at = "idle"
    BY <1>4 DEF Authorise
  <2>4. user'[u] = Signing
    <3>1. user[u] \in Account /\ user[u].row = "live" /\ user[u].admin /\ user[u].active
      BY <1>4 DEF Authorise, Admin, UserIInv, UserTypeOK
    <3>2. user[u] = [row |-> user[u].row, admin |-> user[u].admin, active |-> user[u].active]
      BY <3>1 DEF Account
    <3>3. user[u].admin = TRUE /\ user[u].active = TRUE
      BY <3>1, Zenon DEF Account
    <3> QED
      BY <1>4, <3>1, <3>2, <3>3 DEF Authorise, Signing
  <2>5. u # NoOne
    BY NoOneAssumption
  <2> QED
    BY <1>4, <2>1, <2>2, <2>3, <2>4, <2>5 DEF Authorise, UserIInv, Signing
<1>5. ASSUME NEW c \in Requests, NEW u \in Emails, CheckDelete(c, u) PROVE UserIInv'
  <2> DEFINE to == [at |-> "deleting", actor |-> request[c].actor, target |-> u]
  <2>1. request' = [request EXCEPT ![c] = to]
    BY <1>5 DEF CheckDelete, UserIInv, UserTypeOK
  <2>2. \A d \in Requests : request'[d] = IF d = c THEN to ELSE request[d]
    BY <2>1 DEF UserIInv, UserTypeOK
  <2>3. UserTypeOK'
    BY <1>5, <2>1 DEF CheckDelete, UserIInv, UserTypeOK
  <2> QED
    BY <1>5, <2>2, <2>3 DEF CheckDelete, UserIInv
<1>6. ASSUME NEW c \in Requests, NEW u \in Emails, NEW admin \in BOOLEAN, NEW on \in BOOLEAN,
             CreateUser(c, u, admin, on)
      PROVE  UserIInv'
  <2>1. user' \in [Emails -> Account]
    BY <1>6 DEF CreateUser, UserIInv, UserTypeOK, Account
  <2> QED
    BY <1>6, <2>1, AnswerKeeps DEF CreateUser
<1>7. ASSUME NEW c \in Requests, NEW u \in Emails, NEW admin \in BOOLEAN, NEW on \in BOOLEAN,
             UpdateUser(c, u, admin, on)
      PROVE  UserIInv'
  <2>1. user' \in [Emails -> Account]
    BY <1>7 DEF UpdateUser, UserIInv, UserTypeOK, Account
  <2> QED
    BY <1>7, <2>1, AnswerKeeps DEF UpdateUser
<1> QED
  BY <1>1, <1>2, <1>3, <1>4, <1>5, <1>6, <1>7 DEF UserNext

\* delete_user, as long as requests do not overlap: a deletion leaves an
\* administrator who can sign in, whoever is deleted.
THEOREM DeletionAlwaysLeavesAnAdmin == UserSpec => DeletionLeavesAnAdmin
<1> DEFINE Left ==
      \A u \in Emails : ~overlap /\ user[u].row = "live" /\ user'[u].row = "deleted" =>
        \E a \in Emails : user'[a] = [row |-> "live", admin |-> TRUE, active |-> TRUE]
<1>1. ASSUME UserIInv, [UserNext]_userVars PROVE [Left]_userVars
  <2> SUFFICES ASSUME UserNext, NEW u \in Emails, ~overlap,
                      user[u].row = "live", user'[u].row = "deleted"
               PROVE  \E a \in Emails : user'[a] = [row |-> "live", admin |-> TRUE, active |-> TRUE]
    BY <1>1
  <2>1. user \in [Emails -> Account]
    BY <1>1 DEF UserIInv, UserTypeOK
  <2>2. \E c \in Requests : Delete(c)
    <3>1. \A c \in Requests : ~Refuse(c)
      BY DEF Refuse
    <3>2. \A c \in Requests, v \in Emails : ~Authorise(c, v) /\ ~CheckDelete(c, v)
      BY DEF Authorise, CheckDelete
    <3>3. \A c \in Requests, v \in Emails, b, d \in BOOLEAN : ~CreateUser(c, v, b, d)
      BY <2>1 DEF CreateUser
    <3>4. \A c \in Requests, v \in Emails, b, d \in BOOLEAN : ~UpdateUser(c, v, b, d)
      BY <2>1 DEF UpdateUser, Account
    <3> QED
      BY <3>1, <3>2, <3>3, <3>4 DEF UserNext
  <2>3. PICK c \in Requests : Delete(c)
    BY <2>2
  <2>4. /\ request[c].actor \in Emails
        /\ user[request[c].actor] = [row |-> "live", admin |-> TRUE, active |-> TRUE]
        /\ request[c].target # request[c].actor
    BY <1>1, <2>3 DEF UserIInv, Delete
  <2>5. user'[request[c].actor] = user[request[c].actor]
    BY <2>1, <2>3, <2>4 DEF Delete
  <2> QED
    BY <2>4, <2>5
<1>2. UserSpec => [][Left]_userVars
  BY <1>1, UserIInvInit, UserIInvStep, PTL DEF UserSpec
<1> QED
  BY <1>2 DEF DeletionLeavesAnAdmin

(* ------------------------------ LoginLimit ------------------------------ *)

\* The logins let in, and those of them that could be if c is not among them.
Verifying == Cardinality(In("verify"))

\* At most all the logins are let in, and all but one when c is not.
LEMMA VerifyingBounded ==
  ASSUME NEW c \in Logins
  PROVE  /\ IsFiniteSet(In("verify"))
         /\ Verifying \in Nat /\ Cardinality(Logins) \in Nat \ {0}
         /\ Verifying <= Cardinality(Logins)
         /\ login[c] # "verify" => Verifying <= Cardinality(Logins) - 1
<1> USE LoginsAssumption
<1>1. In("verify") \subseteq Logins
  BY DEF In
<1>2. /\ IsFiniteSet(In("verify")) /\ Verifying \in Nat /\ Cardinality(Logins) \in Nat
      /\ Verifying <= Cardinality(Logins)
  BY <1>1, FS_Subset, FS_CardinalityType DEF Verifying
<1>3. /\ IsFiniteSet(Logins \ {c}) /\ Cardinality(Logins \ {c}) = Cardinality(Logins) - 1
      /\ Cardinality(Logins \ {c}) \in Nat
  BY FS_RemoveElement, FS_CardinalityType
<1>4. ASSUME login[c] # "verify" PROVE Verifying <= Cardinality(Logins) - 1
  <2>1. In("verify") \subseteq Logins \ {c}
    BY <1>4 DEF In
  <2> QED
    BY <1>3, <2>1, FS_Subset DEF Verifying
<1> QED
  BY <1>2, <1>3, <1>4

\* What a login's move to another place does to the logins in the two places.
LEMMA LoginMoves ==
  ASSUME LimitTypeOK, NEW c \in Logins, NEW to \in {"idle", "verify", "expire"}, Goto(c, to)
  PROVE  /\ login' \in [Logins -> {"idle", "verify", "expire"}]
         /\ login[c] # "verify" /\ to = "verify" => Verifying' = Verifying + 1
         /\ login[c] = "verify" /\ to # "verify" => Verifying' = Verifying - 1
         /\ login[c] # "verify" /\ to # "verify" => Verifying' = Verifying
         /\ In("expire")' = IF to = "expire" THEN In("expire") \cup {c} ELSE In("expire") \ {c}
<1>1. /\ login' \in [Logins -> {"idle", "verify", "expire"}]
      /\ \A d \in Logins : login'[d] = IF d = c THEN to ELSE login[d]
  BY DEF Goto, LimitTypeOK
<1>2. In("expire")' = IF to = "expire" THEN In("expire") \cup {c} ELSE In("expire") \ {c}
  BY <1>1 DEF In
<1>3. In("verify")' = IF to = "verify" THEN In("verify") \cup {c} ELSE In("verify") \ {c}
  BY <1>1 DEF In
<1>4. c \in In("verify") <=> login[c] = "verify"
  BY DEF In
<1>5. IsFiniteSet(In("verify")) /\ Cardinality(In("verify")) \in Nat
  BY VerifyingBounded DEF Verifying
<1>6. /\ c \notin In("verify") => Cardinality(In("verify") \cup {c}) = Cardinality(In("verify")) + 1
      /\ c \in In("verify") => Cardinality(In("verify") \ {c}) = Cardinality(In("verify")) - 1
      /\ c \notin In("verify") => In("verify") \ {c} = In("verify")
  <2>1. c \notin In("verify") => Cardinality(In("verify") \cup {c}) = Cardinality(In("verify")) + 1
    BY <1>5, FS_AddElement, Zenon
  <2>2. c \in In("verify") => Cardinality(In("verify") \ {c}) = Cardinality(In("verify")) - 1
    BY <1>5, FS_RemoveElement, Zenon
  <2>3. c \notin In("verify") => In("verify") \ {c} = In("verify")
    OBVIOUS
  <2> QED
    BY <2>1, <2>2, <2>3
<1>7. Verifying' = Cardinality(In("verify")')
  BY DEF Verifying
<1> QED
  BY <1>1, <1>2, <1>3, <1>4, <1>6, <1>7 DEF Verifying

\* LimitIInv as arithmetic: n logins, of which v are let in.
Counted(n, v) ==
  /\ counter <= failures
  /\ counter + v <= Attempts + n - 1
  /\ expires => counter > 0 /\ In("expire") = {}
  /\ counter = 0 => In("expire") = {} /\ failures = 0
  /\ counter > 0 /\ ~expires =>
       /\ \E c \in Logins : In("expire") = {c}
       /\ failures = counter
       /\ counter + v <= Attempts + n - 2
  /\ expires => failures - counter <= Attempts + n - 3

\* LimitIInv is what Counted says of the logins there are.
LEMMA LimitIInvCounted ==
  LimitIInv <=> LimitTypeOK /\ (reliable => Counted(Cardinality(Logins), Verifying))
BY DEF LimitIInv, Counted, Verifying

\* At first there is no key and no login under way.
LEMMA LimitIInvInit == CacheInit /\ LimitInit => LimitIInv
<1> SUFFICES ASSUME CacheInit, LimitInit PROVE LimitIInv
  OBVIOUS
<1>1. LimitTypeOK
  BY DEF CacheInit, LimitInit, LimitTypeOK
<1>2. In("expire") = {} /\ In("verify") = {}
  BY DEF LimitInit, In
<1>3. Verifying = 0 /\ Cardinality(Logins) \in Nat
  BY <1>2, FS_EmptySet, LoginsAssumption, FS_CardinalityType DEF Verifying
<1> QED
  BY <1>1, <1>2, <1>3, LimitIInvCounted, AttemptsAssumption DEF Counted, LimitInit

\* Every step of AuthService.login keeps the invariant.
LEMMA LimitIInvStep == LimitIInv /\ [LimitNext]_<<reliable, limitVars>> => LimitIInv'
<1> SUFFICES ASSUME LimitIInv, [LimitNext]_<<reliable, limitVars>> PROVE LimitIInv'
  OBVIOUS
<1> DEFINE n == Cardinality(Logins)
<1>1. LimitTypeOK /\ (reliable => Counted(n, Verifying))
  BY LimitIInvCounted
<1>2. n \in Nat \ {0} /\ Verifying \in Nat /\ Verifying <= n /\ Attempts \in Nat /\ Attempts >= 2
  <2>1. PICK c \in Logins : TRUE
    BY LoginsAssumption
  <2> QED
    BY <2>1, VerifyingBounded, AttemptsAssumption
<1> SUFFICES /\ LimitTypeOK'
             /\ reliable' => Counted(n, Verifying)'
  BY DEF LimitIInv, Counted, Verifying
<1> HIDE DEF n
<1>3. CASE UNCHANGED <<reliable, limitVars>>
  BY <1>1, <1>3 DEF limitVars, LimitTypeOK, Counted, Verifying, In
<1>4. CASE WindowEnds
  <2>1. In("expire")' = In("expire") /\ Verifying' = Verifying
    BY <1>4 DEF WindowEnds, In, Verifying
  <2>2. LimitTypeOK'
    BY <1>1, <1>4 DEF WindowEnds, LimitTypeOK
  <2>3. reliable => expires /\ reliable'
    BY <1>4 DEF WindowEnds, MayFail
  <2> QED
    BY <1>1, <1>2, <1>4, <2>1, <2>2, <2>3 DEF WindowEnds, Counted
<1>5. ASSUME NEW c \in Logins, Check(c)
      PROVE  LimitTypeOK' /\ (reliable' => Counted(n, Verifying)')
  <2>1. /\ Verifying' = Verifying + 1
        /\ In("expire")' = In("expire") \ {c} /\ c \notin In("expire")
    BY <1>1, <1>5, LoginMoves DEF Check, In
  <2>2. LimitTypeOK'
    BY <1>1, <1>5, LoginMoves DEF Check, LimitTypeOK
  <2>3. Verifying + 1 <= n
    BY <1>2, <1>5, VerifyingBounded DEF Check, n
  <2>4. counter > 0 /\ ~expires /\ reliable => Verifying + 2 <= n
    <3>1. SUFFICES ASSUME counter > 0, ~expires, reliable PROVE Verifying + 2 <= n
      OBVIOUS
    <3>2. PICK d \in Logins : In("expire") = {d}
      BY <1>1, <3>1 DEF Counted
    <3>3. d # c /\ login[d] = "expire"
      BY <1>5, <3>2 DEF In, Check
    <3>4. login'[d] # "verify"
      BY <1>1, <1>5, <3>3 DEF Check, Goto, LimitTypeOK
    <3>5. Verifying' <= n - 1
      <4>1. IsFiniteSet(Logins \ {d}) /\ Cardinality(Logins \ {d}) = n - 1
        BY LoginsAssumption, FS_RemoveElement DEF n
      <4>2. In("verify")' \subseteq Logins \ {d}
        BY <3>4 DEF In
      <4>3. Cardinality(In("verify")') <= Cardinality(Logins \ {d})
        BY <4>1, <4>2, FS_Subset
      <4> QED
        BY <4>1, <4>3 DEF Verifying
    <3> QED
      BY <1>2, <2>1, <3>5
  <2>5. reliable' => reliable /\ counter < Attempts
    BY <1>5 DEF Check, MayFail
  <2> QED
    BY <1>1, <1>2, <1>5, <2>1, <2>2, <2>3, <2>4, <2>5 DEF Check, Counted, LimitTypeOK
<1>6. ASSUME NEW c \in Logins, NotCounted(c)
      PROVE  LimitTypeOK' /\ (reliable' => Counted(n, Verifying)')
  <2>1. /\ Verifying' = Verifying - 1
        /\ In("expire")' = In("expire") \ {c} /\ c \notin In("expire")
    BY <1>1, <1>6, LoginMoves DEF NotCounted, In
  <2>2. LimitTypeOK'
    BY <1>1, <1>6, LoginMoves DEF NotCounted, LimitTypeOK
  <2> QED
    BY <1>1, <1>2, <1>6, <2>1, <2>2 DEF NotCounted, Counted, LimitTypeOK
<1>7. ASSUME NEW c \in Logins, Count(c)
      PROVE  LimitTypeOK' /\ (reliable' => Counted(n, Verifying)')
  <2> DEFINE to == IF counter = 0 THEN "expire" ELSE "idle"
  <2>1. /\ Verifying' = Verifying - 1 /\ c \notin In("expire")
        /\ In("expire")' = IF counter = 0 THEN In("expire") \cup {c} ELSE In("expire")
        /\ login' \in [Logins -> {"idle", "verify", "expire"}]
    <3>1. to \in {"idle", "verify", "expire"} /\ to # "verify" /\ Goto(c, to) /\ login[c] = "verify"
      BY <1>7 DEF Count
    <3>2. c \notin In("expire")
      BY <3>1 DEF In
    <3>3. /\ Verifying' = Verifying - 1
          /\ login' \in [Logins -> {"idle", "verify", "expire"}]
          /\ In("expire")' = IF to = "expire" THEN In("expire") \cup {c} ELSE In("expire") \ {c}
      BY <1>1, <3>1, LoginMoves
    <3> QED
      BY <3>2, <3>3
  <2>2. LimitTypeOK'
    BY <1>1, <1>7, <2>1 DEF Count, LimitTypeOK
  <2> QED
    BY <1>1, <1>2, <1>7, <2>1, <2>2 DEF Count, Counted, LimitTypeOK
<1>8. ASSUME NEW c \in Logins, SetExpiry(c)
      PROVE  LimitTypeOK' /\ (reliable' => Counted(n, Verifying)')
  <2>1. Verifying' = Verifying /\ In("expire")' = In("expire") \ {c} /\ c \in In("expire")
    BY <1>1, <1>8, LoginMoves DEF SetExpiry, In
  <2>2. LimitTypeOK'
    BY <1>1, <1>8, LoginMoves DEF SetExpiry, LimitTypeOK
  <2>3. Verifying + 1 <= n
    BY <1>2, <1>8, VerifyingBounded DEF SetExpiry, n
  <2>4. reliable => /\ counter > 0 /\ ~expires /\ failures = counter
                    /\ counter + Verifying <= Attempts + n - 2
                    /\ In("expire") = {c}
    BY <1>1, <2>1 DEF Counted, LimitTypeOK
  <2> QED
    BY <1>1, <1>2, <1>8, <2>1, <2>2, <2>3, <2>4 DEF SetExpiry, Counted, LimitTypeOK
<1>9. ASSUME NEW c \in Logins, ExpiryLost(c)
      PROVE  LimitTypeOK' /\ (reliable' => Counted(n, Verifying)')
  BY <1>1, <1>9, LoginMoves DEF ExpiryLost, MayFail, LimitTypeOK
<1> QED
  BY <1>3, <1>4, <1>5, <1>6, <1>7, <1>8, <1>9 DEF LimitNext

\* AuthService.login, for any limit and any number of logins at once, as long as
\* the cache works: an address is blocked only for failures that happened, and
\* fails in one window no more often than LimitHolds says.
THEOREM LimitAlwaysHolds == LimitSpec => []LimitHolds
<1>1. ASSUME LimitIInv PROVE LimitHolds
  <2>1. PICK c \in Logins : TRUE
    BY LoginsAssumption
  <2>2. Cardinality(Logins) \in Nat \ {0} /\ Verifying \in Nat
    BY <2>1, VerifyingBounded
  <2>3. LimitTypeOK /\ (reliable => Counted(Cardinality(Logins), Verifying))
    BY <1>1, LimitIInvCounted
  <2> QED
    BY <2>2, <2>3, AttemptsAssumption DEF LimitHolds, Counted, LimitTypeOK
<1> QED
  BY <1>1, LimitIInvInit, LimitIInvStep, PTL DEF LimitSpec

(* ----------------------------- RequestSession --------------------------- *)

\* The inductive invariant: only an activity's block commits.
THEOREM SessionInvariant == SessionSpec => []SessionIInv
<1>1. SessionInit => SessionIInv
  BY DEF SessionInit, SessionIInv, SessionTypeOK, CallOK, AllOrNothing, Styles
<1>2. SessionIInv /\ [SessionNext]_sessionVars => SessionIInv'
  <2> SUFFICES ASSUME SessionIInv, [SessionNext]_sessionVars PROVE SessionIInv'
    OBVIOUS
  <2>0. CASE UNCHANGED sessionVars
    BY <2>0 DEF sessionVars, SessionIInv, SessionTypeOK, CallOK, AllOrNothing
  <2>i. SessionTypeOK /\ AllOrNothing /\ \A c \in Calls : CallOK(c)
    BY DEF SessionIInv
  <2>1. ASSUME NEW c \in Calls, NEW st \in Styles, Arrive(c, st) PROVE SessionIInv'
    BY <2>1, <2>i DEF Arrive, SessionIInv, SessionTypeOK, CallOK, AllOrNothing, Styles
  <2>2. ASSUME NEW c \in Calls, Authenticate(c) PROVE SessionIInv'
    BY <2>2, <2>i DEF Authenticate, SessionIInv, SessionTypeOK, CallOK, AllOrNothing, Styles
  <2>3. ASSUME NEW c \in Calls, Reject(c) \/ PoolTimeout(c) \/ BeginRefused(c) PROVE SessionIInv'
    BY <2>3, <2>i DEF Reject, PoolTimeout, BeginRefused, Fail, SessionIInv, SessionTypeOK, CallOK, AllOrNothing, Styles
  <2>4. ASSUME NEW c \in Calls, Begin(c) \/ BeginNested(c) PROVE SessionIInv'
    BY <2>4, <2>i DEF Begin, BeginNested, SessionIInv, SessionTypeOK, CallOK, AllOrNothing, Styles
  <2>5. ASSUME NEW c \in Calls, NEW r \in Rows, Flush(c, r) PROVE SessionIInv'
    <3>1. SessionTypeOK'
      BY <2>5, <2>i DEF Flush, SessionTypeOK
    <3>2. tx[c] # "none"
      BY <2>5, <2>i DEF Flush, CallOK, SessionTypeOK, Styles
    <3> QED
      BY <2>5, <2>i, <3>1, <3>2 DEF Flush, SessionIInv, SessionTypeOK, CallOK, AllOrNothing
  <2>6. ASSUME NEW c \in Calls, Leave(c) PROVE SessionIInv'
    BY <2>6, <2>i DEF Leave, SessionIInv, SessionTypeOK, CallOK, AllOrNothing, Styles
  <2>7. ASSUME NEW c \in Calls, Raise(c) PROVE SessionIInv'
    BY <2>7, <2>i DEF Raise, Fail, SessionIInv, SessionTypeOK, CallOK, AllOrNothing, Styles
  <2>8. ASSUME NEW c \in Calls, RetryBlock(c) PROVE SessionIInv'
    BY <2>8, <2>i DEF RetryBlock, SessionIInv, SessionTypeOK, CallOK, AllOrNothing, Styles
  <2>9. ASSUME NEW c \in Calls, Answer(c) \/ Close(c) PROVE SessionIInv'
    BY <2>9, <2>i DEF Answer, Close, SessionIInv, SessionTypeOK, CallOK, AllOrNothing, Styles
  <2>10. ASSUME NEW c \in Calls, CommitLost(c) PROVE SessionIInv'
    BY <2>10, <2>i DEF CommitLost, Fail, SessionIInv, SessionTypeOK, CallOK, AllOrNothing, Styles
  <2>11. ASSUME NEW c \in Calls, ReadBackFails(c) PROVE SessionIInv'
    BY <2>11, <2>i DEF ReadBackFails, Fail, SessionIInv, SessionTypeOK, CallOK, AllOrNothing, Styles
  <2> QED
    BY <2>0, <2>1, <2>2, <2>3, <2>4, <2>5, <2>6, <2>7, <2>8, <2>9, <2>10, <2>11 DEF SessionNext, SessionStep
<1> QED
  BY <1>1, <1>2, PTL DEF SessionSpec

\* Sessions, transactions and answers keep their types.
THEOREM SessionTyped == SessionSpec => []SessionTypeOK
<1>1. SessionIInv => SessionTypeOK
  BY DEF SessionIInv
<1> QED
  BY <1>1, SessionInvariant, PTL

\* A call, wherever it fails, even where its commit is reported lost, leaves all
\* of its rows behind or none, and an activity reported as done has left all.
THEOREM AllOrNothingStored == SessionSpec => []AllOrNothing
<1>1. SessionIInv => AllOrNothing
  BY DEF SessionIInv
<1> QED
  BY <1>1, SessionInvariant, PTL

\* No request to the API stores anything: its session has begun a transaction
\* before the service opens its block, and nobody commits that transaction.
THEOREM RequestsStoreNothing == SessionSpec => []OnlyActivitiesStore
<1>1. SessionIInv => OnlyActivitiesStore
  BY DEF SessionIInv, CallOK, OnlyActivitiesStore
<1> QED
  BY <1>1, SessionInvariant, PTL

=============================================================================
