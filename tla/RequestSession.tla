--------------------------- MODULE RequestSession ---------------------------
(***************************************************************************)
(* The database session of a call: db/session.py, core/dependencies.py and *)
(* the three ways services open a transaction block in it.                 *)
(*                                                                         *)
(* get_current_user and the service share the request's session.  A        *)
(* session begins a transaction by itself at its first statement, holds a  *)
(* connection of the pool as long as the transaction lasts, and rolls back *)
(* when it is closed.  Activities of the Temporal worker open sessions of  *)
(* their own.                                                              *)
(***************************************************************************)
EXTENDS FiniteSetsExt, Integers

CONSTANTS
  Calls,         \* requests to the API and runs of activities
  Rows,          \* the rows a call writes
  Connections    \* pool_size + max_overflow

ASSUME ConnectionsAssumption == Connections \in Nat \ {0}
ASSUME RowsAssumption == Rows # {}

VARIABLES
  style,    \* how the call opens its block, "none" before it arrives
  phase,
  tx,       \* none, auto (begun by a statement) or owned (session.begin())
  work,     \* rows flushed and not committed
  retried,  \* calls in their second and last attempt
  stored,   \* rows of each call that are committed
  answer

sessionVars == <<style, phase, tx, work, retried, stored, answer>>

-----------------------------------------------------------------------------
\* begin:    async with session.begin()
\* nested:   session.begin_nested() if session.in_transaction() else session.begin()
\* activity: async with AsyncSessionLocal() as session, session.begin()
Styles == {"begin", "nested", "activity"}

SessionTypeOK ==
  /\ style \in [Calls -> Styles \cup {"none"}]
  /\ phase \in [Calls -> {"new", "auth", "service", "block", "left", "done", "closed"}]
  /\ tx \in [Calls -> {"none", "auto", "owned"}]
  /\ work \in [Calls -> SUBSET Rows]
  /\ retried \subseteq Calls
  /\ stored \in [Calls -> SUBSET Rows]
  /\ answer \in [Calls -> {"none", "ok", "error"}]

\* A session without a transaction can take a connection.
Free == Cardinality({c \in Calls : tx[c] # "none"}) < Connections

SessionInit ==
  /\ style = [c \in Calls |-> "none"]
  /\ phase = [c \in Calls |-> "new"]
  /\ tx = [c \in Calls |-> "none"]
  /\ work = [c \in Calls |-> {}]
  /\ retried = {}
  /\ stored = [c \in Calls |-> {}]
  /\ answer = [c \in Calls |-> "none"]

\* The call raises: the dependency closes the session next.
Fail(c) ==
  /\ phase' = [phase EXCEPT ![c] = "done"]
  /\ answer' = [answer EXCEPT ![c] = "error"]

\* A request is routed to its endpoint, or the worker runs an activity.
Arrive(c, st) ==
  /\ phase[c] = "new"
  /\ style' = [style EXCEPT ![c] = st]
  /\ phase' = [phase EXCEPT ![c] = IF st = "activity" THEN "service" ELSE "auth"]
  /\ UNCHANGED <<tx, work, retried, stored, answer>>

\* get_current_user reads the user: the session begins a transaction.
AuthenticateMutant(c) ==
  /\ phase[c] = "auth"
  /\ Free
  /\ phase' = [phase EXCEPT ![c] = "service"]
  /\ UNCHANGED <<style, tx, work, retried, stored, answer>>
Authenticate(c) ==
  /\ phase[c] = "auth"
  /\ Free
  /\ tx' = [tx EXCEPT ![c] = "auto"]
  /\ phase' = [phase EXCEPT ![c] = "service"]
  /\ UNCHANGED <<style, work, retried, stored, answer>>

\* The token is refused, or the user or the role.
Reject(c) ==
  /\ phase[c] = "auth"
  /\ Fail(c)
  /\ UNCHANGED <<style, tx, work, retried, stored>>

\* No connection becomes free within pool_timeout.
PoolTimeout(c) ==
  /\ phase[c] \in {"auth", "service"}
  /\ tx[c] = "none" /\ ~Free
  /\ Fail(c)
  /\ UNCHANGED <<style, tx, work, retried, stored>>

\* session.begin() on a session that has no transaction yet.
Begin(c) ==
  /\ phase[c] = "service"
  /\ tx[c] = "none" /\ Free
  /\ tx' = [tx EXCEPT ![c] = "owned"]
  /\ phase' = [phase EXCEPT ![c] = "block"]
  /\ UNCHANGED <<style, work, retried, stored, answer>>

\* "A transaction is already begun on this Session."
BeginRefused(c) ==
  /\ phase[c] = "service"
  /\ style[c] = "begin" /\ tx[c] # "none"
  /\ Fail(c)
  /\ UNCHANGED <<style, tx, work, retried, stored>>

\* session.begin_nested(): a savepoint within the transaction there is.
BeginNested(c) ==
  /\ phase[c] = "service"
  /\ style[c] = "nested" /\ tx[c] # "none"
  /\ phase' = [phase EXCEPT ![c] = "block"]
  /\ UNCHANGED <<style, tx, work, retried, stored, answer>>

Flush(c, r) ==
  /\ phase[c] = "block"
  /\ r \notin work[c]
  /\ work' = [work EXCEPT ![c] = @ \cup {r}]
  /\ UNCHANGED <<style, phase, tx, retried, stored, answer>>

\* The block ends: an owned transaction is committed, a savepoint released.
Leave(c) ==
  /\ phase[c] = "block"
  /\ work[c] = Rows
  /\ phase' = [phase EXCEPT ![c] = "left"]
  /\ IF tx[c] = "owned"
     THEN /\ stored' = [stored EXCEPT ![c] = work[c]]
          /\ work' = [work EXCEPT ![c] = {}]
          /\ tx' = [tx EXCEPT ![c] = "none"]
     ELSE UNCHANGED <<stored, work, tx>>
  /\ UNCHANGED <<style, retried, answer>>

\* The owned transaction commits, but the connection or the worker is lost before
\* the caller learns of it.
CommitLost(c) ==
  /\ phase[c] = "block"
  /\ work[c] = Rows /\ tx[c] = "owned"
  /\ stored' = [stored EXCEPT ![c] = work[c]]
  /\ work' = [work EXCEPT ![c] = {}]
  /\ tx' = [tx EXCEPT ![c] = "none"]
  /\ Fail(c)
  /\ UNCHANGED <<style, retried>>

\* The block raises: back to the savepoint, or to before the transaction.
RaiseMutant(c) ==
  /\ phase[c] = "block"
  /\ Fail(c)
  /\ work' = [work EXCEPT ![c] = {}]
  /\ stored' = [stored EXCEPT ![c] = IF tx[c] = "owned" THEN work[c] ELSE @]
  /\ tx' = [tx EXCEPT ![c] = IF @ = "owned" THEN "none" ELSE @]
  /\ UNCHANGED <<style, retried>>
Raise(c) ==
  /\ phase[c] = "block"
  /\ Fail(c)
  /\ work' = [work EXCEPT ![c] = {}]
  /\ tx' = [tx EXCEPT ![c] = IF @ = "owned" THEN "none" ELSE @]
  /\ UNCHANGED <<style, retried, stored>>

\* create_purchase_order enters a new block after an IntegrityError.
RetryBlock(c) ==
  /\ phase[c] = "block"
  /\ style[c] = "nested" /\ c \notin retried
  /\ retried' = retried \cup {c}
  /\ work' = [work EXCEPT ![c] = {}]
  /\ tx' = [tx EXCEPT ![c] = IF @ = "owned" THEN "none" ELSE @]
  /\ phase' = [phase EXCEPT ![c] = "service"]
  /\ UNCHANGED <<style, stored, answer>>

\* After the block: the order or the receipt just written is not read back, or
\* the call fails in another way before its answer.
ReadBackFails(c) ==
  /\ phase[c] = "left"
  /\ Fail(c)
  /\ UNCHANGED <<style, tx, work, retried, stored>>

\* What the service read back in its transaction goes out as the answer.
Answer(c) ==
  /\ phase[c] = "left"
  /\ phase' = [phase EXCEPT ![c] = "done"]
  /\ answer' = [answer EXCEPT ![c] = "ok"]
  /\ UNCHANGED <<style, tx, work, retried, stored>>

\* get_db leaves its block: the session is closed, without a commit.
CloseMutant(c) ==
  /\ phase[c] = "done"
  /\ phase' = [phase EXCEPT ![c] = "closed"]
  /\ work' = [work EXCEPT ![c] = {}]
  /\ UNCHANGED <<style, tx, retried, stored, answer>>
Close(c) ==
  /\ phase[c] = "done"
  /\ phase' = [phase EXCEPT ![c] = "closed"]
  /\ work' = [work EXCEPT ![c] = {}]
  /\ tx' = [tx EXCEPT ![c] = "none"]
  /\ UNCHANGED <<style, retried, stored, answer>>

SessionStep(c) ==
  \/ Authenticate(c) \/ Begin(c) \/ BeginRefused(c) \/ BeginNested(c)
  \/ \E r \in Rows : Flush(c, r)
  \/ Leave(c) \/ Answer(c) \/ Close(c)

SessionNext == \E c \in Calls :
  \/ \E st \in Styles : Arrive(c, st)
  \/ SessionStep(c)
  \/ Reject(c) \/ PoolTimeout(c)
  \/ Raise(c) \/ RetryBlock(c) \/ CommitLost(c) \/ ReadBackFails(c)

SessionSpec == SessionInit /\ [][SessionNext]_sessionVars

\* A call that can go on does; who waits for a connection queues for it.
SessionFairness == \A c \in Calls : SF_sessionVars(SessionStep(c))

-----------------------------------------------------------------------------
\* Wherever a call fails, before, in or after its block, at its first attempt or
\* the second, it has stored all of its rows or none; and what an activity
\* reports as done is stored.
AllOrNothing ==
  \A c \in Calls :
    /\ stored[c] \in {{}, Rows}
    /\ style[c] = "activity" /\ answer[c] = "ok" => stored[c] = Rows

\* As get_db never commits and get_current_user has begun the transaction, only
\* the worker's activities store anything.
OnlyActivitiesStore == \A c \in Calls : stored[c] # {} => style[c] = "activity"

\* The inductive invariant: a block is entered in a transaction of its own only
\* by an activity, what is flushed belongs to a transaction, and what is stored
\* was stored at the end of such a block.
CallOK(c) ==
  /\ phase[c] = "new" => tx[c] = "none" /\ stored[c] = {}
  /\ style[c] = "none" => phase[c] = "new"
  /\ style[c] \in {"begin", "nested"} =>
       /\ tx[c] # "owned"
       /\ phase[c] \in {"service", "block", "left"} => tx[c] = "auto"
  /\ phase[c] = "block" => tx[c] # "none"
  /\ tx[c] = "none" => work[c] = {}
  /\ answer[c] # "none" => phase[c] \in {"done", "closed"}
  /\ style[c] = "activity" =>
       /\ phase[c] = "block" => tx[c] = "owned"
       /\ phase[c] = "left" => stored[c] = Rows
  /\ stored[c] # {} => style[c] = "activity" /\ phase[c] \in {"left", "done", "closed"}
SessionIInv == SessionTypeOK /\ AllOrNothing /\ \A c \in Calls : CallOK(c)

\* Every call that arrives ends with its connection back in the pool.
ConnectionsReturn == \A c \in Calls : phase[c] # "new" ~> phase[c] = "closed" /\ tx[c] = "none"

\* "Services own all business rules and transaction boundaries": what a call
\* reports as done is committed when its session is gone.
AnsweredIsStored ==
  \A c \in Calls : phase[c] = "closed" /\ answer[c] = "ok" => stored[c] = Rows

=============================================================================
