---------------------------- MODULE ProfileUpdates ----------------------------
(***************************************************************************)
(* ProfileService.update_current_user_profile: concurrent updates of the   *)
(* display names of users, each in a database session of its own.          *)
(***************************************************************************)
EXTENDS Naturals

CONSTANTS
    User, Name,
    Session,       \* one update request each
    HasProfile,    \* users with a row in profiles
    None

ASSUME ConstantsAssumption ==
    /\ HasProfile \subseteq User
    /\ None \notin Session \cup Name

VARIABLES
    stored,        \* stored[u]: the committed full_name
    rowLock,       \* rowLock[u]: session with an uncommitted UPDATE of u's row
    pc,            \* pc[s]: the statement session s runs next
    req,           \* req[s]: the user and the name of the request
    loaded,        \* loaded[s]: full_name as the session has read it
    answer         \* answer[s]: full_name of the response

vars == <<stored, rowLock, pc, req, loaded, answer>>

Terminal == {"answered", "rejected", "crashed"}
Running  == {"load", "flush", "refresh", "close", "missing"}

Init ==
    /\ stored \in [User -> Name]
    /\ rowLock = [u \in User |-> None]
    /\ pc = [s \in Session |-> "idle"]
    /\ \E u \in User : req = [s \in Session |-> [user |-> u, name |-> stored[u]]]
    /\ loaded = [s \in Session |-> None]
    /\ answer = [s \in Session |-> None]

Goto(s, from, to) ==
    /\ pc[s] = from
    /\ pc' = [pc EXCEPT ![s] = to]

Submit(s, u, name) ==
    /\ Goto(s, "idle", "load")
    /\ req' = [req EXCEPT ![s] = [user |-> u, name |-> name]]
    /\ UNCHANGED <<stored, rowLock, loaded, answer>>

\* get_by_id; a missing profile raises ResourceNotFoundError.
Load(s) ==
    /\ Goto(s, "load", IF req[s].user \in HasProfile THEN "flush" ELSE "missing")
    /\ loaded' = [loaded EXCEPT ![s] = stored[req[s].user]]
    /\ UNCHANGED <<stored, rowLock, req, answer>>

\* Mutant: the flush is left to the refresh, as if autoflush were on.
Flush_Skipped(s) ==
    /\ Goto(s, "flush", "refresh")
    /\ UNCHANGED <<stored, rowLock, req, loaded, answer>>

\* A changed name is written by an UPDATE, which waits for that of another
\* session; an unchanged one writes nothing.
Flush(s) ==
    LET u == req[s].user
    IN  /\ Goto(s, "flush", "refresh")
        /\ \/ /\ loaded[s] = req[s].name
              /\ UNCHANGED rowLock
           \/ /\ loaded[s] # req[s].name
              /\ rowLock[u] = None
              /\ rowLock' = [rowLock EXCEPT ![u] = s]
        /\ UNCHANGED <<stored, req, loaded, answer>>

\* The row is read again: the session's own version if it has written one.
Refresh(s) ==
    LET u == req[s].user
    IN  /\ Goto(s, "refresh", "close")
        /\ answer' = [answer EXCEPT ![s] = IF rowLock[u] = s THEN req[s].name
                                                             ELSE stored[u]]
        /\ UNCHANGED <<stored, rowLock, req, loaded>>

\* The transaction of session s ends without a commit.
Abandon(s) ==
    rowLock' = [u \in User |-> IF rowLock[u] = s THEN None ELSE rowLock[u]]

\* Mutant: the session goes back to the pool with its transaction open.
Close_LeavesTransaction(s) ==
    /\ \/ Goto(s, "close", "answered")
       \/ Goto(s, "missing", "rejected")
    /\ UNCHANGED <<stored, rowLock, req, loaded, answer>>

\* get_db_session leaves its `async with': nothing has committed, so closing
\* the session rolls the transaction back.
Close(s) ==
    /\ \/ Goto(s, "close", "answered")
       \/ Goto(s, "missing", "rejected")
    /\ Abandon(s)
    /\ UNCHANGED <<stored, req, loaded, answer>>

Crash(s) ==
    /\ pc[s] \in Running
    /\ pc' = [pc EXCEPT ![s] = "crashed"]
    /\ Abandon(s)
    /\ UNCHANGED <<stored, req, loaded, answer>>

Step(s) == Load(s) \/ Flush(s) \/ Refresh(s) \/ Close(s)

Quiescent ==
    /\ \A s \in Session : pc[s] \in Terminal
    /\ UNCHANGED vars

Next ==
    \/ \E s \in Session :
          \/ \E u \in User, name \in Name : Submit(s, u, name)
          \/ Step(s)
          \/ Crash(s)
    \/ Quiescent

Spec == Init /\ [][Next]_vars

\* A handler that can take its next statement eventually does.
FairSpec == Spec /\ \A s \in Session : WF_vars(Step(s))

-------------------------------------------------------------------------------
(* Properties *)

\* The types of the variables; only a session between its flush and its close
\* holds a row, that of its user.
TypeOK ==
    /\ stored \in [User -> Name]
    /\ rowLock \in [User -> Session \cup {None}]
    /\ pc \in [Session -> {"idle"} \cup Running \cup Terminal]
    /\ req \in [Session -> [user : User, name : Name]]
    /\ loaded \in [Session -> Name \cup {None}]
    /\ answer \in [Session -> Name \cup {None}]
    /\ \A u \in User, s \in Session :
          rowLock[u] = s => pc[s] \in {"refresh", "close"} /\ req[s].user = u

\* "Updated profile payload" (profile_service.py:79): the answer carries the name
\* asked for, whatever other sessions do to the row; the refresh between the
\* assignment and the answer does not lose it.
AnswersAsAsked ==
    \A s \in Session : pc[s] \in {"close", "answered"} => answer[s] = req[s].name

\* Every update ends; none waits for ever for the row of another.
EveryRequestEnds ==
    \A s \in Session : pc[s] \in Running ~> pc[s] \in Terminal

\* "Update authenticated user profile" (profile_service.py:69): when an update
\* has been answered and its session is closed, the row has the new name.
UpdateIsStored ==
    [][\A s \in Session :
          pc[s] = "close" /\ pc'[s] = "answered" =>
              stored'[req[s].user] = req[s].name]_vars
===============================================================================
