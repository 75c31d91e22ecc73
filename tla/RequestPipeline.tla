---------------------------- MODULE RequestPipeline ----------------------------
(***************************************************************************)
(* The life of an administrator's request (buy, sell or deposit): the      *)
(* token, the pooled connection, the role, the service's transaction, the  *)
(* handler of what it raises, and the answer.  The body of a transaction   *)
(* is what BuyDeposit and SellExecution model; here it locks one row (and  *)
(* a deposit, which shares it with others, as if it did not), and commits  *)
(* or raises.  Requests carry nothing that tells a repeat from a new one.  *)
(***************************************************************************)
EXTENDS Integers, FiniteSets

CONSTANTS
    Client,          \* each sends one request, and repeats of it
    Depositor,       \* clients whose request is a deposit; the others buy or sell
    Row,             \* rows a transaction may lock
    Capacity,        \* pool_size + max_overflow
    Refusal,         \* which of DomainError the services raise
    MaxRetries,      \* bound: MaxRetries[c] repeats of c
    None

\* The exceptions of the application.
DomainError == {"InvalidAllocationError", "InsufficientFundsError",
                "ResourceNotFoundError", "SellValidationError"}

ASSUME ConstantsAssumption ==
    /\ Capacity \in Nat \ {0} /\ MaxRetries \in [Client -> Nat]
    /\ Depositor \subseteq Client /\ None \notin Client
    /\ Refusal \subseteq DomainError

VARIABLES
    pc,
    role,            \* role[c]: of c's profile; "OTHER" also without an active one
    row,             \* row[c]: what c's transaction locks
    leases,          \* connections out of the pool: <<client, session>>
    lock,            \* lock[r]: the client whose transaction has r locked
    raised,          \* raised[c]: the exception on its way to a handler
    status,          \* status[c]: of the response
    applied,         \* applied[c]: how many of c's transactions committed
    lost,            \* lost[c]: during how many commits the connection broke
    unheard,         \* unheard[c]: how many answers of 200 did not reach c
    retries

client == <<role, row>>
told   == <<status, lost, unheard, retries>>
vars   == <<pc, client, leases, lock, raised, applied, told>>

\* What else is raised: faults, and what FastAPI answers by itself.
OtherError == {"UnboundLocalError", "DBAPIError", "TimeoutError"}
HttpError  == {"HTTPException", "RequestValidationError"}

\* register_exception_handlers; what has no handler is a server error.  400 stands
\* for all that say the request was refused (400, 401, 403, 404, 422).
StatusOf(e) ==
    IF e \in HttpError \cup DomainError THEN 400 ELSE 500

InTransaction == {"service", "body", "commit", "except"}
Phases == {"token", "checkout", "role", "respond", "close", "answered"} \cup InTransaction

Init ==
    /\ pc = [c \in Client |-> "token"]
    /\ role \in [Client -> {"ADMIN", "OTHER"}]
    /\ row \in [Client -> Row]
    /\ leases = {}
    /\ lock = [r \in Row |-> None]
    /\ raised = [c \in Client |-> "none"]
    /\ status = [c \in Client |-> 0]
    /\ applied = [c \in Client |-> 0]
    /\ lost = [c \in Client |-> 0]
    /\ unheard = [c \in Client |-> 0]
    /\ retries = [c \in Client |-> 0]

Goto(c, from, to) ==
    /\ pc[c] = from
    /\ pc' = [pc EXCEPT ![c] = to]

Raise(c, e) == raised' = [raised EXCEPT ![c] = e]

Unlocked(c) == [r \in Row |-> IF lock[r] = c THEN None ELSE lock[r]]

Returned(c) == {l \in leases : l[1] # c}

HasFreeConnection == Cardinality(leases) < Capacity

-------------------------------------------------------------------------------
(* get_current_user, require_admin *)

\* A body that is no JSON, missing credentials and a token that is not valid are
\* refused before the session has a connection.
Authenticate(c) ==
    /\ \/ Goto(c, "token", "checkout") /\ UNCHANGED raised
       \/ Goto(c, "token", "close") /\ \E e \in HttpError : Raise(c, e)
    /\ UNCHANGED <<client, leases, lock, applied, told>>

\* The first statement of the session takes a connection, which stays with it
\* until its transaction ends.
Checkout(c) ==
    /\ HasFreeConnection
    /\ Goto(c, "checkout", "role")
    /\ leases' = leases \cup {<<c, "request">>}
    /\ UNCHANGED <<client, lock, raised, applied, told>>

\* The pool raises when none is returned within its timeout.
CheckoutTimesOut(c) ==
    /\ ~HasFreeConnection
    /\ Goto(c, "checkout", "close")
    /\ Raise(c, "TimeoutError")
    /\ UNCHANGED <<client, leases, lock, applied, told>>

\* What the schema refuses is answered when the dependencies have run.
ReadRole(c) ==
    /\ \/ role[c] = "ADMIN" /\ Goto(c, "role", "service") /\ UNCHANGED raised
       \/ role[c] = "ADMIN" /\ Goto(c, "role", "close") /\ Raise(c, "RequestValidationError")
       \/ role[c] # "ADMIN" /\ Goto(c, "role", "close") /\ Raise(c, "HTTPException")
    /\ UNCHANGED <<client, leases, lock, applied, told>>

-------------------------------------------------------------------------------
(* The service *)

\* Mutant: the service opens a session of its own.
LockRow_OwnSession(c) ==
    /\ HasFreeConnection
    /\ lock[row[c]] = None
    /\ Goto(c, "service", "body")
    /\ leases' = leases \cup {<<c, "service">>}
    /\ lock' = [lock EXCEPT ![row[c]] = c]
    /\ UNCHANGED <<client, raised, applied, told>>

\* The session is the one of the dependencies: no second connection is taken.
LockRow(c) ==
    /\ lock[row[c]] = None
    /\ Goto(c, "service", "body")
    /\ lock' = [lock EXCEPT ![row[c]] = c]
    /\ UNCHANGED <<client, leases, raised, applied, told>>

\* A validation, a lookup, or a fault of the code, before or after the lock.
Fail(c) ==
    /\ pc[c] \in {"service", "body"}
    /\ pc' = [pc EXCEPT ![c] = "except"]
    /\ \E e \in Refusal \cup {"UnboundLocalError"} : Raise(c, e)
    /\ UNCHANGED <<client, leases, lock, applied, told>>

Finish(c) ==
    /\ Goto(c, "body", "commit")
    /\ UNCHANGED <<client, leases, lock, raised, applied, told>>

\* A buy and a sell have built their response by then; a deposit builds it next.
\* The end of a transaction returns the connection.
Commit(c) ==
    /\ Goto(c, "commit", IF c \in Depositor THEN "respond" ELSE "close")
    /\ applied' = [applied EXCEPT ![c] = @ + 1]
    /\ lock' = Unlocked(c)
    /\ leases' = Returned(c)
    /\ UNCHANGED <<client, raised, told>>

\* Mutant: the session expires its objects on commit, the default, so that reading
\* transaction.id is a statement, which raises where nothing awaits it.
Respond_Expired(c) ==
    /\ Goto(c, "respond", "except")
    /\ Raise(c, "MissingGreenlet")
    /\ UNCHANGED <<client, leases, lock, applied, told>>

\* record_deposit builds its response after the commit, inside the try, and nothing
\* there can raise: the user and the amount were validated as the types the response
\* declares, the balance is the Decimal of a sum, and the transaction's id is still
\* loaded, as the session has expire_on_commit=False.
Respond(c) ==
    /\ Goto(c, "respond", "close")
    /\ UNCHANGED <<client, leases, lock, raised, applied, told>>

\* Mutant: except Exception: rollback, without raise.
Rollback_Swallows(c) ==
    /\ Goto(c, "except", "close")
    /\ raised' = [raised EXCEPT ![c] = "none"]
    /\ lock' = Unlocked(c)
    /\ leases' = Returned(c)
    /\ UNCHANGED <<client, applied, told>>

\* except Exception: rollback; raise
Rollback(c) ==
    /\ Goto(c, "except", "close")
    /\ lock' = Unlocked(c)
    /\ leases' = Returned(c)
    /\ UNCHANGED <<client, raised, applied, told>>

Answer(c) ==
    /\ Goto(c, "close", "answered")
    /\ status' = [status EXCEPT ![c] = IF raised[c] = "none" THEN 200 ELSE StatusOf(raised[c])]
    /\ Raise(c, "none")
    /\ UNCHANGED <<client, lock, applied, lost, unheard, retries>>

\* Mutant: the session is not closed when the route raises.
Close_OnSuccess(c) ==
    Answer(c) /\ leases' = IF raised[c] = "none" THEN Returned(c) ELSE leases

\* The end of get_db_session returns the connection of a request that has begun no
\* transaction of a service; a handler makes the answer.
Close(c) == Answer(c) /\ leases' = Returned(c)

-------------------------------------------------------------------------------
(* Faults, and the client *)

\* The server drops the connection: it aborts the transaction, the next
\* statement raises, and rolling back the broken session releases nothing more.
LoseConnection(c) ==
    /\ pc[c] \in {"role", "service", "body"}
    /\ pc' = [pc EXCEPT ![c] = IF pc[c] = "role" THEN "close" ELSE "except"]
    /\ Raise(c, "DBAPIError")
    /\ lock' = Unlocked(c)
    /\ UNCHANGED <<client, leases, applied, told>>

\* The connection drops during the commit, which the server may have completed.
LoseCommit(c) ==
    /\ Goto(c, "commit", "except")
    /\ Raise(c, "DBAPIError")
    /\ \E done \in 0..1 : applied' = [applied EXCEPT ![c] = @ + done]
    /\ lost' = [lost EXCEPT ![c] = @ + 1]
    /\ lock' = Unlocked(c)
    /\ UNCHANGED <<client, leases, status, unheard, retries>>

\* A client sends its request again after an error, or when the answer, whatever it
\* was, has not reached it.  A client takes 200 for what it is.
Retry(c) ==
    /\ retries[c] < MaxRetries[c]
    /\ Goto(c, "answered", "token")
    /\ retries' = [retries EXCEPT ![c] = @ + 1]
    /\ unheard' = [unheard EXCEPT ![c] = IF status[c] = 200 THEN @ + 1 ELSE @]
    /\ status' = [status EXCEPT ![c] = 0]
    /\ UNCHANGED <<client, leases, lock, raised, applied, lost>>

Step(c) ==
    \/ Authenticate(c) \/ Checkout(c) \/ ReadRole(c)
    \/ LockRow(c) \/ Finish(c) \/ Commit(c) \/ Respond(c)
    \/ Rollback(c) \/ Close(c)

Fault(c) == CheckoutTimesOut(c) \/ LoseConnection(c) \/ LoseCommit(c)

Next ==
    \/ \E c \in Client : Step(c) \/ Fail(c) \/ Fault(c) \/ Retry(c)
    \/ (\A c \in Client : pc[c] = "answered") /\ UNCHANGED vars

Spec == Init /\ [][Next]_vars

\* A handler that can take its next step does.  Nothing relies on a failure, a
\* fault or the timeout of the pool to end a wait.
FairSpec == Spec /\ \A c \in Client : WF_vars(Step(c))

-------------------------------------------------------------------------------
(* Properties *)

\* The types of the variables.
TypeOK ==
    /\ pc \in [Client -> Phases]
    /\ role \in [Client -> {"ADMIN", "OTHER"}]
    /\ row \in [Client -> Row]
    /\ leases \subseteq Client \X {"request"}
    /\ lock \in [Row -> Client \cup {None}]
    /\ raised \in [Client -> {"none"} \cup Refusal \cup OtherError \cup HttpError]
    /\ status \in [Client -> {0, 200, 400, 500}]
    /\ applied \in [Client -> Nat] /\ lost \in [Client -> Nat]
    /\ unheard \in [Client -> Nat] /\ retries \in [Client -> Nat]

\* "Sessions are automatically closed after request completion." (session.py:44):
\* an answered request has no connection and no lock, and whoever holds a lock has
\* its connection, so that none waits for a connection while others wait for it.
NothingOutlivesItsRequest ==
    /\ \A l \in leases : pc[l[1]] # "answered"
    /\ \A r \in Row : lock[r] # None =>
          pc[lock[r]] \in InTransaction /\ <<lock[r], "request">> \in leases

\* How often c's request has been answered 200, if its latest answer is in.
Confirmed(c) == unheard[c] + (IF status[c] = 200 THEN 1 ELSE 0)

\* An answer says what is stored: there is a committed transaction for every 200,
\* and there are no others but those during whose commit the connection broke.
AnswerMatchesOutcome ==
    \A c \in Client : pc[c] = "answered" =>
        Confirmed(c) <= applied[c] /\ applied[c] <= Confirmed(c) + lost[c]

\* A client that repeats its request is charged or credited again, but at most once
\* for each commit it was not told of: the connection broke during it, or its answer
\* did not arrive.  Whatever else was answered can be repeated.
RepeatsNeedLostCommits == \A c \in Client : applied[c] <= 1 + lost[c] + unheard[c]

\* What the application refuses is the client's error: 500 is left to faults.
RefusalsAreExplained ==
    [][\A c \in Client :
          pc[c] = "close" /\ pc'[c] = "answered" =>
              (status'[c] = 500 <=> raised[c] \in OtherError)]_vars

\* "Administrative access required" (permissions.py:60): nothing is committed, or
\* locked, for anybody else.
OnlyAdministratorsWork ==
    /\ \A c \in Client : applied[c] > 0 => role[c] = "ADMIN"
    /\ \A r \in Row : lock[r] # None => role[lock[r]] = "ADMIN"

\* Every request is answered, however few connections there are.
EveryRequestAnswered == \A c \in Client : pc[c] # "answered" ~> pc[c] = "answered"
===============================================================================
