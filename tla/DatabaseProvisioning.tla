------------------------- MODULE DatabaseProvisioning -------------------------
(***************************************************************************)
(* Provisioning on first use: GraphDriver.ensure_database and the two      *)
(* tables behind it (engine/graph/driver.py:177-259).                      *)
(*                                                                         *)
(* ensure_database runs without an await up to the wait for the task, so   *)
(* looking up the tables and creating the task is one atomic step.  A task *)
(* finishes, its done callback and the waiters are then run by the event   *)
(* loop in the order they were registered: the callback first, and any     *)
(* other ready caller may come before it.                                  *)
(*                                                                         *)
(* Databases are the domain databases; the built-in ones return at once.   *)
(* Task identifiers stand for asyncio.Task objects and are reused once     *)
(* nothing refers to them.                                                 *)
(***************************************************************************)
EXTENDS Integers, FiniteSets

CONSTANTS
  Callers,    \* request tasks that run execute_query / execute_write
  Databases,  \* domain databases
  Tasks,      \* identities of provisioning tasks
  NoTask

ASSUME TasksAssumption == IsFiniteSet(Tasks) /\ NoTask \notin Tasks

VARIABLES
  ensured,   \* _ensured_databases
  slot,      \* _provisioning: the task of each database, or NoTask
  status,    \* per task: fresh, running, or its result
  creates,   \* per task: the database its CREATE names
  callback,  \* tasks whose done callback has not run yet
  phase,     \* per caller: where in execute_query it stands
  target,    \* per caller: the database of its query
  awaits,    \* per caller: the task it awaits or awaited, or NoTask
  told,      \* per caller: the result ensure_database gave it
  exists     \* the server's databases

vars == <<ensured, slot, status, creates, callback, phase, target, awaits, told, exists>>
callerVars == <<phase, target, awaits, told>>
taskVars == <<ensured, slot, status, creates, callback, exists>>

Phases == {"idle", "waiting", "query", "cancelled"}

TypeOK ==
  /\ ensured \in SUBSET Databases
  /\ slot \in [Databases -> Tasks \cup {NoTask}]
  /\ status \in [Tasks -> {"fresh", "running", "succeeded", "failed"}]
  /\ creates \in [Tasks -> Databases]
  /\ callback \in SUBSET Tasks
  /\ phase \in [Callers -> Phases]
  /\ target \in [Callers -> Databases]
  /\ awaits \in [Callers -> Tasks \cup {NoTask}]
  /\ told \in [Callers -> BOOLEAN]
  /\ exists \in SUBSET Databases

\* target and creates have no meaning before the first call: any value will do.
Init ==
  /\ ensured = {}
  /\ slot = [d \in Databases |-> NoTask]
  /\ status = [t \in Tasks |-> "fresh"]
  /\ \E d \in Databases : /\ creates = [t \in Tasks |-> d]
                         /\ target = [c \in Callers |-> d]
  /\ callback = {}
  /\ phase = [c \in Callers |-> "idle"]
  /\ awaits = [c \in Callers |-> NoTask]
  /\ told = [c \in Callers |-> FALSE]
  /\ exists \in SUBSET Databases

Done(t) == status[t] \in {"succeeded", "failed"}
Live == {t \in Tasks : status[t] = "running"}

\* A task object nothing refers to any more.
Unused(t) ==
  /\ status[t] # "running"
  /\ t \notin callback
  /\ \A d \in Databases : slot[d] # t
  /\ \A c \in Callers : awaits[c] # t

Arrive(c, d, ph, t) ==
  /\ phase[c] \in {"idle", "cancelled"}
  /\ phase' = [phase EXCEPT ![c] = ph]
  /\ target' = [target EXCEPT ![c] = d]
  /\ awaits' = [awaits EXCEPT ![c] = t]

(***************************************************************************)
(* ensure_database(d): known, in flight, or a new CREATE.                  *)
(***************************************************************************)
KnownToExist(c, d) ==
  /\ d \in ensured
  /\ Arrive(c, d, "query", NoTask)
  /\ told' = [told EXCEPT ![c] = TRUE]
  /\ UNCHANGED taskVars

\* Mutant: a caller that finds a CREATE in flight does not wait for it.
JoinSkipsWait(c, d) ==
  /\ d \notin ensured
  /\ slot[d] \in Live
  /\ Arrive(c, d, "query", slot[d])
  /\ UNCHANGED <<taskVars, told>>

JoinCreate(c, d) ==
  /\ d \notin ensured
  /\ slot[d] \in Live
  /\ Arrive(c, d, "waiting", slot[d])
  /\ UNCHANGED <<taskVars, told>>

\* create_task, registered under the name before the first wait.
NewTask(c, d) ==
  /\ \E t \in Tasks :
       /\ Unused(t)
       /\ status' = [status EXCEPT ![t] = "running"]
       /\ creates' = [creates EXCEPT ![t] = d]
       /\ slot' = [slot EXCEPT ![d] = t]
       /\ callback' = callback \cup {t}
       /\ Arrive(c, d, "waiting", t)
  /\ UNCHANGED <<ensured, told, exists>>

\* Mutant: the table of ensured databases is not consulted.
StartCreateAgain(c, d) == slot[d] \notin Live /\ NewTask(c, d)

StartCreate(c, d) ==
  /\ d \notin ensured
  /\ slot[d] \notin Live
  /\ NewTask(c, d)

(***************************************************************************)
(* _provision_database: the CREATE succeeds, or any Exception is turned    *)
(* into False -- also when the server did create the database and only the *)
(* answer was lost.                                                        *)
(***************************************************************************)
CreateSucceeds(t) ==
  /\ status[t] = "running"
  /\ status' = [status EXCEPT ![t] = "succeeded"]
  /\ ensured' = ensured \cup {creates[t]}
  /\ exists' = exists \cup {creates[t]}
  /\ UNCHANGED <<slot, creates, callback, callerVars>>

CreateFails(t) ==
  /\ status[t] = "running"
  /\ status' = [status EXCEPT ![t] = "failed"]
  /\ exists' \in {exists, exists \cup {creates[t]}}
  /\ UNCHANGED <<ensured, slot, creates, callback, callerVars>>

\* _forget_provisioning removes the entry only if it is still this task.
Forget(t) ==
  /\ t \in callback /\ Done(t)
  /\ callback' = callback \ {t}
  /\ slot' = [slot EXCEPT ![creates[t]] = IF @ = t THEN NoTask ELSE @]
  /\ UNCHANGED <<ensured, status, creates, exists, callerVars>>

\* The shielded wait ends: the waiter gets the task's result and goes on to
\* its query, whatever that result is.
Resume(c) ==
  /\ phase[c] = "waiting"
  /\ Done(awaits[c]) /\ awaits[c] \notin callback
  /\ phase' = [phase EXCEPT ![c] = "query"]
  /\ told' = [told EXCEPT ![c] = status[awaits[c]] = "succeeded"]
  /\ UNCHANGED <<taskVars, target, awaits>>

\* Mutant: without the shield, cancelling a waiter cancels the task.
CancelUnshielded(c) ==
  /\ phase[c] = "waiting"
  /\ phase' = [phase EXCEPT ![c] = "cancelled"]
  /\ awaits' = [awaits EXCEPT ![c] = NoTask]
  /\ status' = [status EXCEPT ![awaits[c]] = IF @ = "running" THEN "cancelled" ELSE @]
  /\ UNCHANGED <<ensured, slot, creates, callback, exists, target, told>>

\* The request is cancelled while it waits; the task goes on.
Cancel(c) ==
  /\ phase[c] = "waiting"
  /\ phase' = [phase EXCEPT ![c] = "cancelled"]
  /\ awaits' = [awaits EXCEPT ![c] = NoTask]
  /\ UNCHANGED <<taskVars, target, told>>

\* The query is over (its own outcome is the breaker's business).
QueryReturns(c) ==
  /\ phase[c] = "query"
  /\ phase' = [phase EXCEPT ![c] = "idle"]
  /\ awaits' = [awaits EXCEPT ![c] = NoTask]
  /\ UNCHANGED <<taskVars, target, told>>

Next ==
  \/ \E c \in Callers, d \in Databases :
       KnownToExist(c, d) \/ JoinCreate(c, d) \/ StartCreate(c, d)
  \/ \E c \in Callers : Resume(c) \/ Cancel(c) \/ QueryReturns(c)
  \/ \E t \in Tasks : CreateSucceeds(t) \/ CreateFails(t) \/ Forget(t)

Spec == Init /\ [][Next]_vars

(***************************************************************************)
(* Fairness: the CREATE ends (the driver's own timeouts), and the event    *)
(* loop runs every callback and every resumable task.  Nothing is assumed  *)
(* of clients: they need neither call, nor stay, nor go.                   *)
(***************************************************************************)
Fairness ==
  /\ \A t \in Tasks : WF_vars(CreateSucceeds(t) \/ CreateFails(t)) /\ WF_vars(Forget(t))
  /\ \A c \in Callers : WF_vars(Resume(c)) /\ WF_vars(QueryReturns(c))

FairSpec == Spec /\ Fairness
-----------------------------------------------------------------------------
InFlight(d) == {t \in Tasks : status[t] = "running" /\ creates[t] = d}

(***************************************************************************)
(* At most one CREATE per database is in flight, also when a finished task *)
(* is still registered, a retry replaces it and its late callback runs.    *)
(***************************************************************************)
OneCreateInFlight == \A d \in Databases : Cardinality(InFlight(d)) <= 1

(***************************************************************************)
(* A running CREATE is the registered one, so every caller can find it: no *)
(* task is orphaned by a callback that removes the wrong entry.            *)
(***************************************************************************)
RunningIsRegistered ==
  \A t \in Tasks : status[t] = "running" => slot[creates[t]] = t /\ t \in callback

(***************************************************************************)
(* A database marked as ensured does exist on the server.                  *)
(***************************************************************************)
EnsuredExists == ensured \subseteq exists

(***************************************************************************)
(* A query starts only after the CREATE its caller waited for is over, and *)
(* a caller that was told True queries a database that exists.             *)
(***************************************************************************)
QueryAfterProvisioning ==
  \A c \in Callers : phase[c] = "query" =>
    /\ awaits[c] # NoTask => Done(awaits[c]) /\ creates[awaits[c]] = target[c]
    /\ told[c] => target[c] \in exists
    /\ ~told[c] => awaits[c] # NoTask /\ status[awaits[c]] = "failed"

(***************************************************************************)
(* Every waiter is answered unless it is itself cancelled: cancelling one  *)
(* request never takes the CREATE away from the others.                    *)
(***************************************************************************)
EveryWaiterAnswered ==
  \A c \in Callers : phase[c] = "waiting" ~> phase[c] \in {"query", "cancelled"}

(***************************************************************************)
(* The tables implement the contract of ensure_database.                   *)
(***************************************************************************)
Contract == INSTANCE ProvisioningContract WITH
  known <- ensured,
  inflight <- [d \in Databases |-> Cardinality(InFlight(d))]

ImplementsContract == Contract!Spec
=============================================================================
