--------------------- MODULE DatabaseProvisioning_proofs ---------------------
(***************************************************************************)
(* Proofs about DatabaseProvisioning, for any callers, databases and       *)
(* finite set of task identities.                                          *)
(***************************************************************************)
EXTENDS DatabaseProvisioning, FiniteSetTheorems, TLAPS

(***************************************************************************)
(* The inductive invariant.  RunningIsRegistered is what makes the CREATE  *)
(* unique: two running tasks for a database would both be its entry.  It   *)
(* needs SlotsNameTheirTask (an entry belongs to a task for that name),    *)
(* and a CREATE in flight must not be for an ensured database, or its      *)
(* start would have been refused.                                          *)
(***************************************************************************)
SlotsNameTheirTask ==
  \A d \in Databases : slot[d] # NoTask => creates[slot[d]] = d

RunningNotEnsured == \A t \in Live : creates[t] \notin ensured

WaitersHaveTasks ==
  \A c \in Callers : phase[c] = "waiting" =>
    /\ awaits[c] \in Tasks
    /\ status[awaits[c]] # "fresh"
    /\ creates[awaits[c]] = target[c]

SucceededExists == \A t \in Tasks : status[t] = "succeeded" => creates[t] \in exists

IInv ==
  /\ TypeOK
  /\ RunningIsRegistered
  /\ SlotsNameTheirTask
  /\ RunningNotEnsured
  /\ EnsuredExists
  /\ SucceededExists
  /\ WaitersHaveTasks
  /\ QueryAfterProvisioning

USE TasksAssumption

\* The empty tables satisfy the invariant (GraphDriver.__init__).
LEMMA InitEstablishesInv == Init => IInv
<1> SUFFICES ASSUME Init PROVE IInv
  OBVIOUS
<1>1. TypeOK
  BY DEF Init, TypeOK, Phases
<1>2. /\ RunningIsRegistered /\ SlotsNameTheirTask /\ RunningNotEnsured
      /\ EnsuredExists /\ SucceededExists /\ WaitersHaveTasks /\ QueryAfterProvisioning
  BY DEF Init, RunningIsRegistered, SlotsNameTheirTask, RunningNotEnsured, Live,
         EnsuredExists, SucceededExists, WaitersHaveTasks, QueryAfterProvisioning
<1>3. QED
  BY <1>1, <1>2 DEF IInv

(***************************************************************************)
(* A caller arrives and touches no table.                                  *)
(***************************************************************************)
LEMMA KnownKeepsInv ==
  ASSUME IInv, NEW c \in Callers, NEW d \in Databases, KnownToExist(c, d)
  PROVE  IInv'
<1>1. TypeOK'
  BY DEF IInv, TypeOK, KnownToExist, Arrive, Phases, taskVars
<1>2. /\ RunningIsRegistered' /\ SlotsNameTheirTask' /\ RunningNotEnsured'
      /\ EnsuredExists' /\ SucceededExists'
  BY DEF IInv, KnownToExist, taskVars, RunningIsRegistered, SlotsNameTheirTask,
         RunningNotEnsured, Live, EnsuredExists, SucceededExists
<1>3. WaitersHaveTasks' /\ QueryAfterProvisioning'
  BY DEF IInv, TypeOK, KnownToExist, Arrive, taskVars, WaitersHaveTasks,
         QueryAfterProvisioning, EnsuredExists, Done
<1>4. QED
  BY <1>1, <1>2, <1>3 DEF IInv

\* Waiting for a CREATE in flight keeps the invariant (ensure_database).
LEMMA JoinKeepsInv ==
  ASSUME IInv, NEW c \in Callers, NEW d \in Databases, JoinCreate(c, d)
  PROVE  IInv'
<1>1. slot[d] \in Tasks /\ status[slot[d]] = "running" /\ creates[slot[d]] = d
  BY DEF IInv, JoinCreate, Live, SlotsNameTheirTask
<1>2. TypeOK'
  BY <1>1 DEF IInv, TypeOK, JoinCreate, Arrive, Phases, taskVars
<1>3. /\ RunningIsRegistered' /\ SlotsNameTheirTask' /\ RunningNotEnsured'
      /\ EnsuredExists' /\ SucceededExists'
  BY DEF IInv, JoinCreate, taskVars, RunningIsRegistered, SlotsNameTheirTask,
         RunningNotEnsured, Live, EnsuredExists, SucceededExists
<1>4. WaitersHaveTasks' /\ QueryAfterProvisioning'
  BY <1>1 DEF IInv, TypeOK, JoinCreate, Arrive, taskVars, WaitersHaveTasks,
              QueryAfterProvisioning, Done
<1>5. QED
  BY <1>2, <1>3, <1>4 DEF IInv

(***************************************************************************)
(* A new task: no other running task names d, or it would be d's entry.    *)
(***************************************************************************)
LEMMA StartKeepsInv ==
  ASSUME IInv, NEW c \in Callers, NEW d \in Databases, StartCreate(c, d)
  PROVE  IInv'
<1>1. PICK t \in Tasks :
        /\ Unused(t)
        /\ status' = [status EXCEPT ![t] = "running"]
        /\ creates' = [creates EXCEPT ![t] = d]
        /\ slot' = [slot EXCEPT ![d] = t]
        /\ callback' = callback \cup {t}
        /\ Arrive(c, d, "waiting", t)
  BY DEF StartCreate, NewTask
<1>2. UNCHANGED <<ensured, told, exists>> /\ d \notin ensured /\ slot[d] \notin Live
  BY DEF StartCreate, NewTask
<1>3. /\ status[t] # "running" /\ t \notin callback
      /\ \A e \in Databases : slot[e] # t
      /\ \A b \in Callers : awaits[b] # t
  BY <1>1 DEF Unused
<1>4. TypeOK'
  BY <1>1, <1>2 DEF IInv, TypeOK, Arrive, Phases
<1>5. RunningIsRegistered'
  <2> SUFFICES ASSUME NEW u \in Tasks, status'[u] = "running"
               PROVE  slot'[creates'[u]] = u /\ u \in callback'
    BY DEF RunningIsRegistered
  <2>1. CASE u = t
    BY <1>1, <2>1 DEF IInv, TypeOK
  <2>2. CASE u # t
    <3>1. status[u] = "running" /\ creates'[u] = creates[u]
      BY <1>1, <2>2 DEF IInv, TypeOK
    <3>2. slot[creates[u]] = u /\ u \in callback
      BY <3>1 DEF IInv, RunningIsRegistered
    <3>3. creates[u] # d
      BY <1>2, <3>1, <3>2 DEF Live
    <3>4. QED
      BY <1>1, <3>1, <3>2, <3>3 DEF IInv, TypeOK
  <2>3. QED
    BY <2>1, <2>2
<1>6. SlotsNameTheirTask'
  BY <1>1, <1>3 DEF IInv, TypeOK, SlotsNameTheirTask
<1>7. RunningNotEnsured'
  BY <1>1, <1>2 DEF IInv, TypeOK, RunningNotEnsured, Live
<1>8. EnsuredExists' /\ SucceededExists'
  BY <1>1, <1>2 DEF IInv, TypeOK, EnsuredExists, SucceededExists
<1>9. WaitersHaveTasks'
  BY <1>1, <1>3 DEF IInv, TypeOK, WaitersHaveTasks, Arrive
<1>10. QueryAfterProvisioning'
  BY <1>1, <1>2, <1>3 DEF IInv, TypeOK, QueryAfterProvisioning, Arrive, Done
<1>11. QED
  BY <1>4, <1>5, <1>6, <1>7, <1>8, <1>9, <1>10 DEF IInv

(***************************************************************************)
(* The CREATE ends.                                                        *)
(***************************************************************************)
LEMMA SucceedsKeepsInv ==
  ASSUME IInv, NEW t \in Tasks, CreateSucceeds(t)
  PROVE  IInv'
<1>1. TypeOK'
  BY DEF IInv, TypeOK, CreateSucceeds, callerVars
<1>2. RunningIsRegistered' /\ SlotsNameTheirTask'
  BY DEF IInv, TypeOK, CreateSucceeds, callerVars, RunningIsRegistered, SlotsNameTheirTask
<1>3. RunningNotEnsured'
  <2> SUFFICES ASSUME NEW u \in Tasks, status'[u] = "running"
               PROVE  creates'[u] \notin ensured'
    BY DEF RunningNotEnsured, Live
  <2>1. u # t /\ status[u] = "running" /\ status[t] = "running"
    BY DEF IInv, TypeOK, CreateSucceeds
  <2>2. creates[u] # creates[t]
    BY <2>1 DEF IInv, RunningIsRegistered
  <2>3. QED
    BY <2>1, <2>2 DEF IInv, RunningNotEnsured, Live, CreateSucceeds
<1>4. EnsuredExists' /\ SucceededExists'
  BY DEF IInv, TypeOK, CreateSucceeds, EnsuredExists, SucceededExists
<1>5. WaitersHaveTasks' /\ QueryAfterProvisioning'
  BY DEF IInv, TypeOK, CreateSucceeds, callerVars, WaitersHaveTasks,
         QueryAfterProvisioning, Done
<1>6. QED
  BY <1>1, <1>2, <1>3, <1>4, <1>5 DEF IInv

\* A failing CREATE keeps the invariant (_provision_database).
LEMMA FailsKeepsInv ==
  ASSUME IInv, NEW t \in Tasks, CreateFails(t)
  PROVE  IInv'
<1>1. TypeOK'
  BY DEF IInv, TypeOK, CreateFails, callerVars
<1>2. RunningIsRegistered' /\ SlotsNameTheirTask' /\ RunningNotEnsured'
  BY DEF IInv, TypeOK, CreateFails, RunningIsRegistered, SlotsNameTheirTask,
         RunningNotEnsured, Live
<1>3. EnsuredExists' /\ SucceededExists'
  BY DEF IInv, TypeOK, CreateFails, EnsuredExists, SucceededExists
<1>4. WaitersHaveTasks' /\ QueryAfterProvisioning'
  BY DEF IInv, TypeOK, CreateFails, callerVars, WaitersHaveTasks,
         QueryAfterProvisioning, Done
<1>5. QED
  BY <1>1, <1>2, <1>3, <1>4 DEF IInv

(***************************************************************************)
(* The done callback clears the entry only of a task that is over.         *)
(***************************************************************************)
LEMMA ForgetKeepsInv ==
  ASSUME IInv, NEW t \in Tasks, Forget(t)
  PROVE  IInv'
<1>1. TypeOK'
  BY DEF IInv, TypeOK, Forget, callerVars
<1>2. RunningIsRegistered'
  BY DEF IInv, TypeOK, Forget, Done, RunningIsRegistered
<1>3. SlotsNameTheirTask' /\ RunningNotEnsured' /\ EnsuredExists' /\ SucceededExists'
  BY DEF IInv, TypeOK, Forget, SlotsNameTheirTask, RunningNotEnsured, Live,
         EnsuredExists, SucceededExists
<1>4. WaitersHaveTasks' /\ QueryAfterProvisioning'
  BY DEF IInv, Forget, callerVars, WaitersHaveTasks, QueryAfterProvisioning, Done
<1>5. QED
  BY <1>1, <1>2, <1>3, <1>4 DEF IInv

(***************************************************************************)
(* The waiter's own steps.                                                 *)
(***************************************************************************)
LEMMA CallerStepsKeepInv ==
  ASSUME IInv, NEW c \in Callers, Resume(c) \/ Cancel(c) \/ QueryReturns(c)
  PROVE  IInv'
<1>1. UNCHANGED taskVars
  BY DEF Resume, Cancel, QueryReturns
<1>2. TypeOK'
  BY <1>1 DEF IInv, TypeOK, Resume, Cancel, QueryReturns, Phases, taskVars
<1>3. /\ RunningIsRegistered' /\ SlotsNameTheirTask' /\ RunningNotEnsured'
      /\ EnsuredExists' /\ SucceededExists'
  BY <1>1 DEF IInv, taskVars, RunningIsRegistered, SlotsNameTheirTask,
              RunningNotEnsured, Live, EnsuredExists, SucceededExists
<1>4. WaitersHaveTasks'
  BY <1>1 DEF IInv, TypeOK, Resume, Cancel, QueryReturns, taskVars, WaitersHaveTasks
<1>5. QueryAfterProvisioning'
  <2>1. CASE Resume(c)
    <3>1. /\ awaits[c] \in Tasks /\ Done(awaits[c]) /\ creates[awaits[c]] = target[c]
          /\ phase' = [phase EXCEPT ![c] = "query"]
          /\ told' = [told EXCEPT ![c] = status[awaits[c]] = "succeeded"]
          /\ UNCHANGED <<target, awaits>>
      BY <2>1 DEF IInv, Resume, WaitersHaveTasks
    <3>2. ASSUME NEW b \in Callers, b # c, phase'[b] = "query"
          PROVE  /\ awaits'[b] # NoTask => Done(awaits[b])' /\ creates'[awaits'[b]] = target'[b]
                 /\ told'[b] => target'[b] \in exists'
                 /\ ~told'[b] => awaits'[b] # NoTask /\ status'[awaits'[b]] = "failed"
      <4>1. phase[b] = "query" /\ told'[b] = told[b]
        BY <3>1, <3>2 DEF IInv, TypeOK
      <4>2. QED
        BY <1>1, <3>1, <4>1 DEF IInv, QueryAfterProvisioning, taskVars, Done
    <3>3. /\ Done(awaits[c])' /\ creates'[awaits'[c]] = target'[c]
          /\ told'[c] => target'[c] \in exists'
          /\ ~told'[c] => awaits'[c] # NoTask /\ status'[awaits'[c]] = "failed"
      <4>1. told'[c] <=> status[awaits[c]] = "succeeded"
        BY <3>1 DEF IInv, TypeOK
      <4>2. QED
        BY <1>1, <3>1, <4>1 DEF IInv, SucceededExists, taskVars, Done
    <3>4. QED
      BY <3>2, <3>3 DEF QueryAfterProvisioning, Done
  <2>2. CASE Cancel(c) \/ QueryReturns(c)
    BY <1>1, <2>2 DEF IInv, TypeOK, Cancel, QueryReturns, taskVars,
                      QueryAfterProvisioning, Done
  <2>3. QED
    BY <2>1, <2>2
<1>6. QED
  BY <1>2, <1>3, <1>4, <1>5 DEF IInv

\* Every step keeps the invariant.
LEMMA NextKeepsInv == IInv /\ [Next]_vars => IInv'
<1> SUFFICES ASSUME IInv, [Next]_vars PROVE IInv'
  OBVIOUS
<1>1. CASE \E c \in Callers, d \in Databases :
             KnownToExist(c, d) \/ JoinCreate(c, d) \/ StartCreate(c, d)
  BY <1>1, KnownKeepsInv, JoinKeepsInv, StartKeepsInv
<1>2. CASE \E c \in Callers : Resume(c) \/ Cancel(c) \/ QueryReturns(c)
  BY <1>2, CallerStepsKeepInv
<1>3. CASE \E t \in Tasks : CreateSucceeds(t) \/ CreateFails(t) \/ Forget(t)
  BY <1>3, SucceedsKeepsInv, FailsKeepsInv, ForgetKeepsInv
<1>4. CASE UNCHANGED vars
  BY <1>4 DEF IInv, TypeOK, RunningIsRegistered, SlotsNameTheirTask, RunningNotEnsured,
              Live, EnsuredExists, SucceededExists, WaitersHaveTasks,
              QueryAfterProvisioning, Done, vars
<1>5. QED
  BY <1>1, <1>2, <1>3, <1>4 DEF Next

\* The tables of the driver and its tasks agree at all times.
THEOREM InductiveInvariant == Spec => []IInv
BY InitEstablishesInv, NextKeepsInv, PTL DEF Spec

(***************************************************************************)
(* Type correctness.                                                       *)
(***************************************************************************)
THEOREM TypeCorrect == Spec => []TypeOK
<1>1. IInv => TypeOK
  BY DEF IInv
<1>2. QED
  BY <1>1, InductiveInvariant, PTL

(***************************************************************************)
(* The set of running CREATEs of a database has at most one element.       *)
(***************************************************************************)
LEMMA InFlightIsEntry ==
  ASSUME IInv, NEW d \in Databases, NEW t \in InFlight(d)
  PROVE  InFlight(d) = {t}
BY DEF IInv, RunningIsRegistered, InFlight

\* The number of CREATEs in flight is zero or one.
LEMMA InFlightCount ==
  ASSUME IInv, NEW d \in Databases
  PROVE  Cardinality(InFlight(d)) = IF InFlight(d) = {} THEN 0 ELSE 1
<1>1. CASE InFlight(d) = {}
  BY <1>1, FS_EmptySet
<1>2. CASE InFlight(d) # {}
  <2>1. PICK t : t \in InFlight(d)
    BY <1>2
  <2>2. Cardinality({t}) = 1
    BY FS_Singleton
  <2>3. QED
    BY <1>2, <2>1, <2>2, InFlightIsEntry
<1>3. QED
  BY <1>1, <1>2

(***************************************************************************)
(* At most one CREATE per database is in flight, for any number of         *)
(* concurrent requests, retries and late done callbacks.                   *)
(***************************************************************************)
THEOREM SingleCreate == Spec => []OneCreateInFlight
<1>1. IInv => OneCreateInFlight
  BY InFlightCount DEF OneCreateInFlight
<1>2. QED
  BY <1>1, InductiveInvariant, PTL

(***************************************************************************)
(* A running CREATE is always the one registered under its name.           *)
(***************************************************************************)
THEOREM NoOrphanedCreate == Spec => []RunningIsRegistered
<1>1. IInv => RunningIsRegistered
  BY DEF IInv
<1>2. QED
  BY <1>1, InductiveInvariant, PTL

(***************************************************************************)
(* What is marked as ensured exists on the server.                         *)
(***************************************************************************)
THEOREM EnsuredIsTrue == Spec => []EnsuredExists
<1>1. IInv => EnsuredExists
  BY DEF IInv
<1>2. QED
  BY <1>1, InductiveInvariant, PTL

(***************************************************************************)
(* No query overtakes the CREATE its caller waited for.                    *)
(***************************************************************************)
THEOREM QueriesWait == Spec => []QueryAfterProvisioning
<1>1. IInv => QueryAfterProvisioning
  BY DEF IInv
<1>2. QED
  BY <1>1, InductiveInvariant, PTL

(***************************************************************************)
(* Refinement: each step of the tables is a step of the contract for one   *)
(* database, or leaves the contract's state unchanged.                     *)
(***************************************************************************)
Flights == [d \in Databases |-> Cardinality(InFlight(d))]

\* A step that leaves the tasks alone leaves the CREATEs in flight alone.
LEMMA SameFlights ==
  ASSUME UNCHANGED <<status, creates>>
  PROVE  UNCHANGED Flights
BY DEF Flights, InFlight

\* The empty tables are an initial state of the contract.
LEMMA InitRefines == Init => Contract!Init
<1> SUFFICES ASSUME Init PROVE Contract!Init
  OBVIOUS
<1>1. \A d \in Databases : InFlight(d) = {}
  BY DEF Init, InFlight
<1>2. \A d \in Databases : Cardinality(InFlight(d)) = 0
  BY <1>1, FS_EmptySet
<1>3. QED
  BY <1>2 DEF Init, Contract!Init

(***************************************************************************)
(* Starting or ending the CREATE of one database changes that count only.  *)
(***************************************************************************)
LEMMA StartRefines ==
  ASSUME IInv, IInv', NEW c \in Callers, NEW d \in Databases, StartCreate(c, d)
  PROVE  Contract!Begin(d)
<1>1. PICK t \in Tasks :
        /\ Unused(t)
        /\ status' = [status EXCEPT ![t] = "running"]
        /\ creates' = [creates EXCEPT ![t] = d]
  BY DEF StartCreate, NewTask
<1>2. InFlight(d) = {}
  BY DEF IInv, InFlight, RunningIsRegistered, StartCreate, Live
<1>3. t \in InFlight(d)'
  BY <1>1 DEF IInv, TypeOK, InFlight
<1>4. \A e \in Databases \ {d} : InFlight(e)' = InFlight(e)
  BY <1>1 DEF IInv, TypeOK, InFlight, Unused
<1>5. Cardinality(InFlight(d)) = 0
  BY <1>2, FS_EmptySet
<1>6. InFlight(d)' = {t}
  BY <1>3 DEF IInv, RunningIsRegistered, InFlight
<1>7. Cardinality(InFlight(d)') = 1
  BY <1>6, FS_Singleton
<1>8. Flights' = [Flights EXCEPT ![d] = 1]
  BY <1>4, <1>7 DEF Flights
<1>9. QED
  BY <1>5, <1>8 DEF Flights, Contract!Begin, StartCreate, NewTask

\* The end of a CREATE is a Commit or an Abort of the contract.
LEMMA EndRefines ==
  ASSUME IInv, NEW t \in Tasks, CreateSucceeds(t) \/ CreateFails(t)
  PROVE  Contract!Commit(creates[t]) \/ Contract!Abort(creates[t])
<1> DEFINE d == creates[t]
<1>1. d \in Databases /\ t \in InFlight(d)
  BY DEF IInv, TypeOK, InFlight, CreateSucceeds, CreateFails
<1>2. InFlight(d) = {t}
  BY <1>1, InFlightIsEntry
<1>3. status'[t] # "running" /\ \A u \in Tasks \ {t} : status'[u] = status[u]
  BY DEF IInv, TypeOK, CreateSucceeds, CreateFails
<1>4. creates' = creates
  BY DEF CreateSucceeds, CreateFails
<1>5. InFlight(d)' = {} /\ \A e \in Databases \ {d} : InFlight(e)' = InFlight(e)
  BY <1>2, <1>3, <1>4 DEF InFlight
<1>6. Cardinality(InFlight(d)) = 1 /\ Cardinality(InFlight(d)') = 0
  BY <1>2, <1>5, FS_Singleton, FS_EmptySet
<1>7. Flights' = [Flights EXCEPT ![d] = 0]
  BY <1>4, <1>5, <1>6 DEF Flights
<1>8. CASE CreateSucceeds(t)
  BY <1>1, <1>6, <1>7, <1>8 DEF Flights, Contract!Commit, CreateSucceeds
<1>9. CASE CreateFails(t)
  BY <1>1, <1>6, <1>7, <1>9 DEF Flights, Contract!Abort, CreateFails
<1>10. QED
  BY <1>8, <1>9

\* Every step of the tables is a step of the contract or a stutter.
LEMMA NextRefines == IInv /\ IInv' /\ [Next]_vars => [Contract!Next]_(Contract!contractVars)
<1> SUFFICES ASSUME IInv, IInv', [Next]_vars
             PROVE  Contract!Next \/ UNCHANGED <<ensured, Flights>>
  BY DEF Contract!contractVars, Flights
<1>1. CASE \E c \in Callers, d \in Databases : StartCreate(c, d)
  BY <1>1, StartRefines DEF Contract!Next
<1>2. CASE \E t \in Tasks : CreateSucceeds(t) \/ CreateFails(t)
  <2>1. PICK t \in Tasks : CreateSucceeds(t) \/ CreateFails(t)
    BY <1>2
  <2>2. creates[t] \in Databases
    BY DEF IInv, TypeOK
  <2>3. QED
    BY <2>1, <2>2, EndRefines DEF Contract!Next
<1>3. CASE \/ \E c \in Callers, d \in Databases : KnownToExist(c, d) \/ JoinCreate(c, d)
           \/ \E c \in Callers : Resume(c) \/ Cancel(c) \/ QueryReturns(c)
           \/ \E t \in Tasks : Forget(t)
           \/ UNCHANGED vars
  <2>1. UNCHANGED <<ensured, status, creates>>
    BY <1>3 DEF KnownToExist, JoinCreate, Resume, Cancel, QueryReturns, Forget,
                taskVars, vars
  <2>2. QED
    BY <2>1, SameFlights
<1>4. QED
  BY <1>1, <1>2, <1>3 DEF Next

(***************************************************************************)
(* ensure_database implements its contract.                                *)
(***************************************************************************)
THEOREM Refinement == Spec => ImplementsContract
BY InitRefines, NextRefines, InductiveInvariant, PTL DEF Spec, ImplementsContract, Contract!Spec
=============================================================================
