------------------------------- MODULE Users -------------------------------
(***************************************************************************)
(* The accounts: services/user_service.py, called through routers/users.py *)
(* by administrators.  A user is known by the email, which is unique over  *)
(* all rows: that of a deleted user is never free again.                   *)
(*                                                                         *)
(* A call authenticates its caller, reads, and writes in the end; no row   *)
(* is locked before it is written.                                         *)
(***************************************************************************)
CONSTANTS Emails, Requests, NoOne

ASSUME NoOneAssumption == NoOne \notin Emails

VARIABLES
  overlap,   \* chosen once: do requests overlap?
  user,      \* rows: absent, live or deleted; role admin or not; is_active
  request    \* where a request is, its caller, and the user it is to delete

userVars == <<overlap, user, request>>

-----------------------------------------------------------------------------
Account == [row : {"absent", "live", "deleted"}, admin : BOOLEAN, active : BOOLEAN]
Absent  == [row |-> "absent", admin |-> FALSE, active |-> FALSE]
Waiting == [at |-> "idle", actor |-> NoOne, target |-> NoOne]
Admin(u) == user[u].row = "live" /\ user[u].admin

UserTypeOK ==
  /\ overlap \in BOOLEAN
  /\ user \in [Emails -> Account]
  /\ request \in [Requests -> [at : {"idle", "authorised", "deleting"},
                               actor : Emails \cup {NoOne}, target : Emails \cup {NoOne}]]

UserInit ==
  /\ overlap \in BOOLEAN
  /\ user \in [Emails -> {Absent} \cup {a \in Account : a.row = "live"}]
  /\ request = [c \in Requests |-> Waiting]

\* require_role(UserRole.ADMIN).
Authorise(c, a) ==
  /\ request[c].at = "idle"
  /\ overlap \/ \A other \in Requests : request[other].at = "idle"
  /\ Admin(a) /\ user[a].active
  /\ request' = [request EXCEPT ![c] = [at |-> "authorised", actor |-> a, target |-> NoOne]]
  /\ UNCHANGED <<overlap, user>>

AnswerRequest(c) == request' = [request EXCEPT ![c] = Waiting]

\* The request is refused, fails, or has read what it wanted.
Refuse(c) ==
  /\ request[c].at # "idle"
  /\ AnswerRequest(c)
  /\ UNCHANGED <<overlap, user>>

\* create_user: the check sees live rows only; the unique index refuses others.
CreateUser(c, u, admin, active) ==
  /\ request[c].at = "authorised"
  /\ user[u].row = "absent"
  /\ user' = [user EXCEPT ![u] = [row |-> "live", admin |-> admin, active |-> active]]
  /\ AnswerRequest(c)
  /\ UNCHANGED overlap

\* update_user: role, status or both, of anyone.
UpdateUser(c, u, admin, active) ==
  /\ request[c].at = "authorised"
  /\ user[u].row = "live"
  /\ user' = [user EXCEPT ![u] = [row |-> "live", admin |-> admin, active |-> active]]
  /\ AnswerRequest(c)
  /\ UNCHANGED overlap

\* delete_user, up to the write: count_admins counts active and inactive ones.
CheckDeleteMutant(c, u) ==
  /\ request[c].at = "authorised"
  /\ user[u].row = "live"
  /\ Admin(u) => \E other \in Emails \ {u} : Admin(other)
  /\ request' = [request EXCEPT ![c] = [at |-> "deleting", actor |-> @.actor, target |-> u]]
  /\ UNCHANGED <<overlap, user>>
CheckDelete(c, u) ==
  /\ request[c].at = "authorised"
  /\ user[u].row = "live" /\ u # request[c].actor
  /\ Admin(u) => \E other \in Emails \ {u} : Admin(other)
  /\ request' = [request EXCEPT ![c] = [at |-> "deleting", actor |-> @.actor, target |-> u]]
  /\ UNCHANGED <<overlap, user>>

\* soft_delete reads the row again.
Delete(c) ==
  /\ request[c].at = "deleting"
  /\ user[request[c].target].row = "live"
  /\ user' = [user EXCEPT ![request[c].target].row = "deleted"]
  /\ AnswerRequest(c)
  /\ UNCHANGED overlap

UserNext ==
  \E c \in Requests :
    \/ Refuse(c) \/ Delete(c)
    \/ \E u \in Emails :
         \/ Authorise(c, u) \/ CheckDelete(c, u)
         \/ \E admin, active \in BOOLEAN :
              CreateUser(c, u, admin, active) \/ UpdateUser(c, u, admin, active)

UserSpec == UserInit /\ [][UserNext]_userVars

-----------------------------------------------------------------------------
\* "Cannot delete the last admin user": as long as requests do not overlap, a
\* deletion leaves an administrator who can sign in, not only one who is counted.
\* (Overlapping, two administrators can delete each other.)
DeletionLeavesAnAdmin ==
  [][\A u \in Emails : ~overlap /\ user[u].row = "live" /\ user'[u].row = "deleted" =>
       \E a \in Emails : user'[a] = [row |-> "live", admin |-> TRUE, active |-> TRUE]]_userVars

\* The inductive invariant: requests one at a time, whose caller is as authorised.
UserIInv ==
  /\ UserTypeOK
  /\ ~overlap =>
       /\ \A c, other \in Requests :
            request[c].at # "idle" /\ request[other].at # "idle" => c = other
       /\ \A c \in Requests : request[c].at # "idle" =>
            /\ request[c].actor \in Emails
            /\ user[request[c].actor] = [row |-> "live", admin |-> TRUE, active |-> TRUE]
            /\ request[c].target # request[c].actor

=============================================================================
