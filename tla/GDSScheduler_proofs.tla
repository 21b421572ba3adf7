------------------------- MODULE GDSScheduler_proofs -------------------------
(***************************************************************************)
(* Theorems about GDSScheduler and their proofs.                           *)
(***************************************************************************)
EXTENDS GDSScheduler, WellFoundedInduction, TLAPS

(***************************************************************************)
(* The inductive invariant.  InFlight: an execution in flight has a job    *)
(* and a scheduler, an idle slot has neither.  RivalsKnown: executions of  *)
(* one job that overlap are all marked as spoiled.                         *)
(***************************************************************************)
InFlight ==
  \A r \in Runs :
    IF pc[r] = "idle" THEN job[r] = None /\ sched[r] = None
    ELSE job[r] \in Jobs /\ sched[r] \in Schedulers

RivalsKnown == \A r, k \in Busy : r # k /\ job[r] = job[k] => r \in spoiled

IInv == TypeOK /\ InFlight /\ RivalsKnown /\ NoOrphans /\ AloneSucceeds

(***************************************************************************)
(* A history grows by one record and stays within its bound.               *)
(***************************************************************************)
LEMMA PushBounded ==
  ASSUME NEW h \in Seq(Record), Len(h) <= MaxHistory, NEW record \in Record
  PROVE  Push(h, record) \in Seq(Record) /\ Len(Push(h, record)) <= MaxHistory
<1>1. CASE Len(h) < MaxHistory
  BY <1>1, GDSAssumption DEF Push
<1>2. CASE ~(Len(h) < MaxHistory)
  <2>1. Len(h) = MaxHistory /\ h # <<>>
    BY <1>2, GDSAssumption
  <2>2. Tail(h) \in Seq(Record) /\ Len(Tail(h)) = Len(h) - 1
    BY <2>1
  <2>3. Append(Tail(h), record) \in Seq(Record) /\ Len(Append(Tail(h), record)) = Len(h)
    BY <2>2
  <2>4. QED
    BY <1>2, <2>1, <2>3 DEF Push
<1>3. QED
  BY <1>1, <1>2

(***************************************************************************)
(* What the end of a stability run may change: the execution is over and   *)
(* recorded, or it starts again with its pre-cleanup.                      *)
(***************************************************************************)
TypesOfRuns ==
  /\ pc \in [Runs -> {"idle", "pre_drop", "project", "write", "drop", "unwind", "query"}]
  /\ job \in [Runs -> Jobs \cup {None}]
  /\ sched \in [Runs -> Schedulers \cup {None}]
  /\ byCron \in [Runs -> BOOLEAN]
  /\ left \in [Runs -> Nat]
  /\ good \in [Runs -> BOOLEAN]
  /\ won \in [Runs -> BOOLEAN]
  /\ history \in [Schedulers -> Seq(Record)]
  /\ \A s \in Schedulers : Len(history[s]) <= MaxHistory

Ended(r) ==
  /\ TypesOfRuns'
  /\ \/ pc'[r] = "idle" /\ job'[r] = None /\ sched'[r] = None
     \/ pc'[r] = "pre_drop" /\ job'[r] = job[r] /\ sched'[r] = sched[r]
  /\ \A k \in Runs \ {r} :
       pc'[k] = pc[k] /\ job'[k] = job[k] /\ sched'[k] = sched[k] /\ good'[k] = good[k]

\* An execution that is over leaves its slot.
LEMMA VacateEnds ==
  ASSUME TypesOfRuns, NEW r \in Runs, Vacate(r), history' \in [Schedulers -> Seq(Record)],
         \A s \in Schedulers : Len(history'[s]) <= MaxHistory
  PROVE  Ended(r)
<1>1. TypesOfRuns'
  <2>1. /\ pc' \in [Runs -> {"idle", "pre_drop", "project", "write", "drop", "unwind", "query"}]
        /\ job' \in [Runs -> Jobs \cup {None}]
        /\ sched' \in [Runs -> Schedulers \cup {None}]
    BY DEF Vacate, TypesOfRuns
  <2>2. left' \in [Runs -> Nat]
    BY DEF Vacate, TypesOfRuns
  <2>3. byCron' \in [Runs -> BOOLEAN] /\ good' \in [Runs -> BOOLEAN] /\ won' \in [Runs -> BOOLEAN]
    BY DEF Vacate, TypesOfRuns
  <2>4. QED
    BY <2>1, <2>2, <2>3 DEF TypesOfRuns
<1>2. pc'[r] = "idle" /\ job'[r] = None /\ sched'[r] = None
  BY DEF Vacate, TypesOfRuns
<1>3. \A k \in Runs \ {r} :
        pc'[k] = pc[k] /\ job'[k] = job[k] /\ sched'[k] = sched[k] /\ good'[k] = good[k]
  BY DEF Vacate, TypesOfRuns
<1>4. QED
  BY <1>1, <1>2, <1>3 DEF Ended

\* execute_job ends: the run is idle again and its record is in the history.
LEMMA FinishEnds ==
  ASSUME TypesOfRuns, NEW r \in Runs, job[r] \in Jobs, sched[r] \in Schedulers,
         NEW ok \in BOOLEAN, Finish(r, ok)
  PROVE  Ended(r)
<1>1. [job |-> job[r], ok |-> ok] \in Record
  BY DEF Record
<1>2. Push(history[sched[r]], [job |-> job[r], ok |-> ok]) \in Seq(Record)
      /\ Len(Push(history[sched[r]], [job |-> job[r], ok |-> ok])) <= MaxHistory
  BY <1>1, PushBounded DEF TypesOfRuns
<1>3. history' \in [Schedulers -> Seq(Record)] /\ \A s \in Schedulers : Len(history'[s]) <= MaxHistory
  BY <1>2 DEF Finish, TypesOfRuns
<1>4. QED
  BY <1>3, VacateEnds DEF Finish

\* A stability run that ends is followed by the next one, or by the end of the job.
LEMMA RunEnds ==
  ASSUME TypesOfRuns, NEW r \in Runs, job[r] \in Jobs, sched[r] \in Schedulers,
         NEW ok \in BOOLEAN, EndStabilityRun(r, ok)
  PROVE  Ended(r)
<1>1. CASE left[r] > 1
  <2>1. NextStabilityRun(r, ok)
    BY <1>1 DEF EndStabilityRun
  <2>2. left' \in [Runs -> Nat]
    BY <1>1, <2>1 DEF NextStabilityRun, TypesOfRuns
  <2>3. won' \in [Runs -> BOOLEAN]
    BY <2>1 DEF NextStabilityRun, TypesOfRuns
  <2>4. QED
    BY <2>1, <2>2, <2>3 DEF NextStabilityRun, Ended, TypesOfRuns
<1>2. CASE ~(left[r] > 1)
  <2>1. Finish(r, won[r] \/ ok)
    BY <1>2 DEF EndStabilityRun
  <2>2. (won[r] \/ ok) \in BOOLEAN
    OBVIOUS
  <2>3. QED
    BY <2>1, <2>2, FinishEnds
<1>3. QED
  BY <1>1, <1>2

(***************************************************************************)
(* Every step of an execution r either ends it or moves it to its next     *)
(* query; it touches no projection but that of its job.                    *)
(***************************************************************************)
Moved(r) ==
  /\ TypesOfRuns'
  /\ pc'[r] # "idle" /\ UNCHANGED <<job, sched>>
  /\ \A k \in Runs \ {r} : pc'[k] = pc[k] /\ good'[k] = good[k]

StepEffect(r) ==
  /\ Ended(r) \/ Moved(r)
  /\ graph' \in [Jobs -> Runs \cup {None, Left}]
  /\ \A j \in Jobs \ {job[r]} : graph'[j] = graph[j]
  /\ spoiled' = spoiled \/ spoiled' = spoiled \cup {r}
  /\ alive' = alive

\* What every step of a run does to the variables of that run and of the others.
LEMMA StepShape ==
  ASSUME IInv, NEW r \in Runs, Step(r) \/ Cancel(r)
  PROVE  pc[r] # "idle" /\ StepEffect(r)
<1> USE DEF IInv, TypeOK
<1>1. pc[r] # "idle"
  BY DEF Step, Answered, Failed, PreDrop, Project, NameTaken, Write, GraphGone, Drop, Query,
         PreDropFails, ProjectFails, WriteFails, DropFails, QueryFails, Unwind, Cancel,
         CancelOutsideTry, CancelInTry
<1>2. job[r] \in Jobs /\ sched[r] \in Schedulers
  BY <1>1 DEF InFlight
<1>3. TypesOfRuns
  BY DEF TypesOfRuns
<1>4. CASE PreDrop(r)
  BY <1>2, <1>4 DEF PreDrop, Goes, Owner, StepEffect, Moved, TypesOfRuns
<1>5. CASE PreDropFails(r)
  BY <1>2, <1>3, <1>5, RunEnds DEF PreDropFails, Owner, StepEffect
<1>6. CASE Project(r)
  BY <1>2, <1>6 DEF Project, Goes, Owner, StepEffect, Moved, TypesOfRuns
<1>7. CASE ProjectFails(r)
  BY <1>2, <1>7 DEF ProjectFails, Goes, Owner, StepEffect, Moved, TypesOfRuns
<1>8. CASE NameTaken(r)
  BY <1>2, <1>8 DEF NameTaken, Goes, StepEffect, Moved, TypesOfRuns
<1>9. CASE Write(r)
  BY <1>2, <1>9 DEF Write, Goes, StepEffect, Moved, TypesOfRuns
<1>10. CASE GraphGone(r)
  BY <1>2, <1>10 DEF GraphGone, Goes, StepEffect, Moved, TypesOfRuns
<1>11. CASE WriteFails(r)
  BY <1>2, <1>11 DEF WriteFails, Goes, StepEffect, Moved, TypesOfRuns
<1>12. CASE Drop(r)
  <2>1. Ended(r)
    BY <1>2, <1>3, <1>12, RunEnds DEF Drop
  <2>2. QED
    BY <1>2, <1>12, <2>1 DEF Drop, Owner, StepEffect
<1>13. CASE DropFails(r)
  <2>1. Ended(r)
    BY <1>2, <1>3, <1>13, RunEnds DEF DropFails
  <2>2. QED
    BY <1>2, <1>13, <2>1 DEF DropFails, NotDropped, StepEffect
<1>14. CASE Query(r)
  BY <1>2, <1>3, <1>14, FinishEnds DEF Query, StepEffect
<1>15. CASE QueryFails(r)
  BY <1>2, <1>3, <1>15, FinishEnds DEF QueryFails, StepEffect
<1>16. CASE Unwind(r)
  <2>1. Ended(r)
    BY <1>3, <1>16, VacateEnds DEF Unwind, TypesOfRuns
  <2>2. QED
    BY <1>2, <1>16, <2>1 DEF Unwind, NotDropped, Owner, StepEffect
<1>17. CASE Cancel(r) /\ CancelOutsideTry(r)
  <2>1. Ended(r)
    BY <1>3, <1>17, VacateEnds DEF Cancel, CancelOutsideTry, TypesOfRuns
  <2>2. QED
    BY <1>2, <1>17, <2>1 DEF Cancel, CancelOutsideTry, NotDropped, Owner, StepEffect
<1>18. CASE Cancel(r) /\ CancelInTry(r)
  <2>1. Moved(r)
    BY <1>18 DEF Cancel, CancelInTry, Goes, Moved, TypesOfRuns
  <2>2. QED
    BY <1>2, <1>18, <2>1 DEF Cancel, CancelInTry, Owner, StepEffect
<1>19. QED
  BY <1>1, <1>4, <1>5, <1>6, <1>7, <1>8, <1>9, <1>10, <1>11, <1>12, <1>13, <1>14, <1>15, <1>16,
     <1>17, <1>18
     DEF Step, Answered, Failed, Cancel

\* Every step keeps the types.
LEMMA TypeStep == IInv /\ [Next]_vars => TypeOK'
<1> SUFFICES ASSUME IInv, [Next]_vars PROVE TypeOK'
  OBVIOUS
<1> USE DEF IInv, TypeOK
<1>1. ASSUME NEW r \in Runs, NEW j \in Jobs, NEW s \in Schedulers, NEW cron \in BOOLEAN,
             Start(r, j, s, cron), alive' \in SUBSET Schedulers
      PROVE TypeOK'
  <2>1. MostRuns(j) \in Nat
    BY GDSAssumption DEF MostRuns
  <2>2. left' \in [Runs -> Nat] /\ byCron' \in [Runs -> BOOLEAN]
    BY <1>1, <2>1 DEF Start
  <2>3. spoiled' \in SUBSET Runs
    BY <1>1 DEF Start, Rivals, Busy
  <2>4. QED
    BY <1>1, <2>2, <2>3 DEF Start
<1>2. ASSUME NEW r \in Runs, Step(r) \/ Cancel(r) PROVE TypeOK'
  <2>1. StepEffect(r)
    BY <1>2, StepShape
  <2>2. TypesOfRuns'
    BY <2>1 DEF StepEffect, Ended, Moved
  <2>3. QED
    BY <2>1, <2>2 DEF StepEffect, TypesOfRuns
<1>3. CASE AskStatus
  BY <1>3 DEF AskStatus, runVars, Schedulers
<1>4. CASE Restart
  <2>1. graph' \in [Jobs -> Runs \cup {None, Left}]
    BY <1>4 DEF Restart
  <2>2. history' \in [Schedulers -> Seq(Record)] /\ \A s \in Schedulers : Len(history'[s]) <= MaxHistory
    BY <1>4, GDSAssumption DEF Restart
  <2>3. byCron' \in [Runs -> BOOLEAN] /\ good' \in [Runs -> BOOLEAN] /\ won' \in [Runs -> BOOLEAN]
    BY <1>4 DEF Restart
  <2>4. QED
    BY <1>4, <2>1, <2>2, <2>3 DEF Restart, Schedulers
<1>5. CASE UNCHANGED vars
  BY <1>5 DEF vars, runVars
<1>6. ASSUME NEW r \in Runs, NEW j \in Jobs, Trigger(r, j) PROVE TypeOK'
  BY <1>1, <1>6 DEF Trigger, Schedulers
<1>7. ASSUME NEW r \in Runs, NEW j \in Jobs, NEW s \in Schedulers, CronStart(r, j, s) PROVE TypeOK'
  BY <1>1, <1>7 DEF CronStart
<1>8. QED
  BY <1>2, <1>3, <1>4, <1>5, <1>6, <1>7 DEF Next

\* Every step keeps what is known of runs in flight and of their rivals.
LEMMA FlightStep == IInv /\ [Next]_vars => InFlight' /\ RivalsKnown'
<1> SUFFICES ASSUME IInv, [Next]_vars PROVE InFlight' /\ RivalsKnown'
  OBVIOUS
<1> USE DEF IInv, TypeOK, InFlight, RivalsKnown, Busy
<1>1. ASSUME NEW r \in Runs, NEW j \in Jobs, NEW s \in Schedulers, NEW cron \in BOOLEAN,
             Start(r, j, s, cron)
      PROVE InFlight' /\ RivalsKnown'
  <2>1. /\ pc'[r] # "idle" /\ job'[r] = j /\ sched'[r] = s
        /\ \A k \in Runs \ {r} : pc'[k] = pc[k] /\ job'[k] = job[k] /\ sched'[k] = sched[k]
    BY <1>1 DEF Start
  <2>2. /\ \A k \in Runs \ {r} : k \in spoiled => k \in spoiled'
        /\ \A k \in Runs \ {r} : pc[k] # "idle" /\ job[k] = j => k \in spoiled' /\ r \in spoiled'
    BY <1>1 DEF Start, Rivals
  <2>3. QED
    BY <2>1, <2>2
<1>2. ASSUME NEW r \in Runs, Step(r) \/ Cancel(r) PROVE InFlight' /\ RivalsKnown'
  <2>1. pc[r] # "idle" /\ StepEffect(r)
    BY <1>2, StepShape
  <2>2. \A k \in Runs : pc'[k] # "idle" => pc[k] # "idle" /\ job'[k] = job[k] /\ sched'[k] = sched[k]
    BY <2>1 DEF StepEffect, Ended, Moved
  <2>3. \A k \in Runs : pc'[k] = "idle" => job'[k] = None /\ sched'[k] = None
    BY <2>1 DEF StepEffect, Ended, Moved
  <2>4. QED
    BY <2>1, <2>2, <2>3 DEF StepEffect
<1>3. CASE AskStatus
  BY <1>3 DEF AskStatus, runVars
<1>4. CASE Restart
  BY <1>4 DEF Restart
<1>5. CASE UNCHANGED vars
  BY <1>5 DEF vars, runVars
<1>6. ASSUME NEW r \in Runs, NEW j \in Jobs, Trigger(r, j) PROVE InFlight' /\ RivalsKnown'
  BY <1>1, <1>6 DEF Trigger, Schedulers
<1>7. ASSUME NEW r \in Runs, NEW j \in Jobs, NEW s \in Schedulers, CronStart(r, j, s)
      PROVE InFlight' /\ RivalsKnown'
  BY <1>1, <1>7 DEF CronStart
<1>8. QED
  BY <1>2, <1>3, <1>4, <1>5, <1>6, <1>7 DEF Next

(***************************************************************************)
(* The catalog.  A rival that touches the projection of an execution has   *)
(* spoiled it, and an execution that ends leaves no projection in its name.*)
(***************************************************************************)
LEMMA CatalogStep == IInv /\ [Next]_vars => NoOrphans' /\ AloneSucceeds'
<1> SUFFICES ASSUME IInv, [Next]_vars PROVE NoOrphans' /\ AloneSucceeds'
  OBVIOUS
<1> USE DEF IInv, TypeOK, NoOrphans, AloneSucceeds
<1>0. None \notin Runs /\ Left \notin Runs /\ None # Left /\ None \notin Jobs
  BY GDSAssumption
<1>1. ASSUME NEW r \in Runs, NEW j \in Jobs, NEW s \in Schedulers, NEW cron \in BOOLEAN,
             Start(r, j, s, cron)
      PROVE NoOrphans' /\ AloneSucceeds'
  <2>1. /\ pc[r] = "idle" /\ pc'[r] \in {"pre_drop", "query"} /\ UNCHANGED <<graph, good>>
        /\ \A k \in Runs \ {r} : pc'[k] = pc[k] /\ job'[k] = job[k]
        /\ \A k \in Runs \ {r} : k \in spoiled => k \in spoiled'
    BY <1>1 DEF Start
  <2>2. NoOrphans'
    BY <2>1
  <2>3. AloneSucceeds'
    <3> SUFFICES ASSUME NEW k \in Runs \ spoiled'
                 PROVE /\ pc'[k] = "project" => graph'[job'[k]] = None
                       /\ pc'[k] = "write" => graph'[job'[k]] = k
                       /\ pc'[k] = "drop" => good'[k]
      OBVIOUS
    <3>1. CASE k = r
      BY <2>1, <3>1
    <3>2. CASE k # r
      <4>1. k \in Runs \ spoiled /\ pc'[k] = pc[k] /\ job'[k] = job[k]
        BY <2>1, <3>2
      <4>2. QED
        BY <2>1, <4>1
    <3>3. QED
      BY <3>1, <3>2
  <2>4. QED
    BY <2>2, <2>3
<1>2. ASSUME NEW r \in Runs, Step(r) \/ Cancel(r) PROVE NoOrphans' /\ AloneSucceeds'
  <2>1. pc[r] # "idle" /\ StepEffect(r)
    BY <1>2, StepShape
  <2>2. job[r] \in Jobs
    BY <2>1 DEF InFlight
  <2>3. /\ \A k \in Runs \ {r} : pc'[k] = pc[k] /\ job'[k] = job[k] /\ good'[k] = good[k]
        /\ spoiled \subseteq spoiled'
        /\ \A j \in Jobs \ {job[r]} : graph'[j] = graph[j]
    BY <2>1 DEF StepEffect, Ended, Moved
  <2>4. \A k \in Runs \ {r} : pc[k] # "idle" /\ k \notin spoiled => job[k] \in Jobs \ {job[r]}
    BY <2>1 DEF RivalsKnown, InFlight, Busy
  <2>5. \A k \in Runs \ {r} : k \notin spoiled' =>
          /\ pc'[k] = "project" => graph'[job'[k]] = None
          /\ pc'[k] = "write" => graph'[job'[k]] = k
          /\ pc'[k] = "drop" => good'[k]
    BY <2>3, <2>4
  <2>6. /\ graph'[job[r]] \in Runs => graph'[job[r]] \in {graph[job[r]], r}
        /\ graph'[job[r]] = r => pc'[r] \in {"write", "drop", "unwind"} /\ job'[r] = job[r]
        /\ r \notin spoiled' =>
             /\ pc'[r] = "project" => graph'[job'[r]] = None
             /\ pc'[r] = "write" => graph'[job'[r]] = r
             /\ pc'[r] = "drop" => good'[r]
    <3>1. CASE PreDrop(r)
      BY <1>0, <2>2, <3>1 DEF PreDrop, Goes, Owner
    <3>2. CASE PreDropFails(r)
      <4>1. pc'[r] \in {"idle", "pre_drop"} /\ r \in spoiled'
        BY <2>1, <3>2 DEF PreDropFails, StepEffect, Ended, Moved, EndStabilityRun, NextStabilityRun, Finish, Vacate
      <4>2. graph'[job[r]] \in {graph[job[r]], None} /\ graph[job[r]] # r
        BY <2>2, <3>2 DEF PreDropFails, Owner
      <4>3. QED
        BY <1>0, <4>1, <4>2
    <3>3. CASE Project(r)
      BY <1>0, <2>2, <3>3 DEF Project, Goes, Owner
    <3>4. CASE ProjectFails(r)
      BY <1>0, <2>2, <3>4 DEF ProjectFails, Goes, Owner
    <3>5. CASE NameTaken(r)
      BY <1>0, <2>2, <3>5 DEF NameTaken, Goes
    <3>6. CASE Write(r)
      BY <1>0, <2>2, <3>6 DEF Write, Goes
    <3>7. CASE GraphGone(r)
      BY <1>0, <2>2, <3>7 DEF GraphGone, Goes
    <3>8. CASE WriteFails(r)
      BY <1>0, <2>2, <3>8 DEF WriteFails, Goes
    <3>9. CASE Drop(r)
      <4>1. pc'[r] \in {"idle", "pre_drop"}
        BY <3>9 DEF Drop, EndStabilityRun, NextStabilityRun, Finish, Vacate
      <4>2. graph'[job[r]] = None
        BY <2>2, <3>9 DEF Drop, Owner
      <4>3. QED
        BY <1>0, <4>1, <4>2
    <3>10. CASE DropFails(r)
      <4>1. pc'[r] \in {"idle", "pre_drop"}
        BY <3>10 DEF DropFails, EndStabilityRun, NextStabilityRun, Finish, Vacate
      <4>2. graph'[job[r]] = IF graph[job[r]] = r THEN Left ELSE graph[job[r]]
        BY <2>2, <3>10 DEF DropFails, NotDropped
      <4>3. QED
        BY <1>0, <4>1, <4>2
    <3>11. CASE Query(r) \/ QueryFails(r)
      <4>1. pc'[r] = "idle" /\ graph' = graph /\ pc[r] = "query"
        BY <3>11 DEF Query, QueryFails, Finish, Vacate
      <4>2. QED
        BY <2>2, <4>1
    <3>12. CASE Unwind(r) \/ CancelOutsideTry(r)
      <4>1. pc'[r] = "idle"
        BY <3>12 DEF Unwind, CancelOutsideTry, Vacate
      <4>2. graph'[job[r]] \in {graph[job[r]], None, Left} /\ graph'[job[r]] # r
        <5>1. CASE pc[r] \in {"pre_drop", "query"}
          <6>1. graph[job[r]] # r
            BY <2>2, <5>1
          <6>2. graph'[job[r]] \in {graph[job[r]], None}
            BY <2>2, <3>12, <5>1 DEF Unwind, CancelOutsideTry, Owner
          <6>3. QED
            BY <1>0, <6>1, <6>2
        <5>2. CASE pc[r] \notin {"pre_drop", "query"}
          <6>1. NotDropped(r) \/ Owner(job[r], None)
            BY <3>12, <5>2 DEF Unwind, CancelOutsideTry
          <6>2. QED
            BY <1>0, <2>2, <6>1 DEF NotDropped, Owner
        <5>3. QED
          BY <5>1, <5>2
      <4>3. QED
        BY <1>0, <4>1, <4>2
    <3>13. CASE CancelInTry(r)
      <4>1. pc'[r] = "unwind" /\ job' = job
        BY <3>13 DEF CancelInTry, Goes
      <4>2. graph'[job[r]] \in {graph[job[r]], r}
        BY <2>2, <3>13 DEF CancelInTry, Owner
      <4>3. QED
        BY <4>1, <4>2
    <3>14. QED
      BY <1>2, <3>1, <3>2, <3>3, <3>4, <3>5, <3>6, <3>7, <3>8, <3>9, <3>10, <3>11, <3>12, <3>13
         DEF Step, Answered, Failed, Cancel
  <2>7. NoOrphans'
    <3> SUFFICES ASSUME NEW j \in Jobs, graph'[j] \in Runs
                 PROVE job'[graph'[j]] = j /\ pc'[graph'[j]] \in {"write", "drop", "unwind"}
      OBVIOUS
    <3>1. CASE j # job[r]
      <4>1. graph'[j] = graph[j] /\ graph[j] # r
        BY <2>3, <3>1
      <4>2. QED
        BY <2>3, <4>1
    <3>2. CASE j = job[r] /\ graph'[j] = r
      BY <2>6, <3>2
    <3>3. CASE j = job[r] /\ graph'[j] # r
      BY <2>3, <2>6, <3>3
    <3>4. QED
      BY <3>1, <3>2, <3>3
  <2>8. AloneSucceeds'
    <3> SUFFICES ASSUME NEW k \in Runs \ spoiled'
                 PROVE /\ pc'[k] = "project" => graph'[job'[k]] = None
                       /\ pc'[k] = "write" => graph'[job'[k]] = k
                       /\ pc'[k] = "drop" => good'[k]
      OBVIOUS
    <3>1. QED
      BY <2>5, <2>6
  <2>9. QED
    BY <2>7, <2>8
<1>3. CASE AskStatus
  BY <1>3 DEF AskStatus, runVars
<1>4. CASE Restart
  BY <1>0, <1>4 DEF Restart
<1>5. CASE UNCHANGED vars
  BY <1>5 DEF vars, runVars
<1>6. ASSUME NEW r \in Runs, NEW j \in Jobs, Trigger(r, j) PROVE NoOrphans' /\ AloneSucceeds'
  BY <1>1, <1>6 DEF Trigger, Schedulers
<1>7. ASSUME NEW r \in Runs, NEW j \in Jobs, NEW s \in Schedulers, CronStart(r, j, s)
      PROVE NoOrphans' /\ AloneSucceeds'
  BY <1>1, <1>7 DEF CronStart
<1>8. QED
  BY <1>2, <1>3, <1>4, <1>5, <1>6, <1>7 DEF Next

(***************************************************************************)
(* The inductive invariant holds in every reachable state.                 *)
(***************************************************************************)
THEOREM Invariance == Spec => []IInv
<1>1. Init => IInv
  BY GDSAssumption DEF Init, IInv, TypeOK, InFlight, RivalsKnown, NoOrphans, AloneSucceeds, Busy,
     Schedulers
<1>2. IInv /\ [Next]_vars => IInv'
  BY TypeStep, FlightStep, CatalogStep DEF IInv
<1>3. QED
  BY <1>1, <1>2, PTL DEF Spec

(***************************************************************************)
(* Executions, catalog and histories keep their types, and a history never *)
(* exceeds its bound.                                                      *)
(***************************************************************************)
THEOREM TypeCorrect == Spec => []TypeOK
  BY Invariance, PTL DEF IInv

(***************************************************************************)
(* Without a failing drop or a restart no projection outlives the          *)
(* execution that made it.                                                 *)
(***************************************************************************)
THEOREM NoProjectionLeaks == Spec => []NoOrphans
  BY Invariance, PTL DEF IInv

(***************************************************************************)
(* An undisturbed execution succeeds, whatever it found in the catalog.    *)
(***************************************************************************)
THEOREM UndisturbedSucceeds == Spec => []AloneSucceeds
  BY Invariance, PTL DEF IInv

(***************************************************************************)
(* gds_health.  HealthOf is Health of one history; Told is what a record   *)
(* makes it say.                                                           *)
(***************************************************************************)
Told(ok) == IF ok THEN "success" ELSE "failed"

Records(h, j) == {i \in DOMAIN h : h[i].job = j}

IsNewest(h, j, i) == i \in Records(h, j) /\ \A k \in Records(h, j) : k <= i

HealthOf(h, j) ==
  IF Records(h, j) = {} THEN "never_run"
  ELSE IF h[CHOOSE i \in Records(h, j) : \A k \in Records(h, j) : k <= i].ok
       THEN "success" ELSE "failed"

\* A history with a record of the job has a newest one: the search backwards
\* through the deque ends at it.
LEMMA NewestExists ==
  ASSUME NEW h \in Seq(Record), NEW j, Records(h, j) # {}
  PROVE  \E i \in Records(h, j) : IsNewest(h, j, i)
<1> DEFINE Above == {n \in Nat : \A k \in Records(h, j) : k <= n}
<1>1. Records(h, j) \subseteq 1..Len(h) /\ Len(h) \in Nat
  BY DEF Records
<1>2. Len(h) \in Above
  BY <1>1
<1>3. PICK m \in Above : \A n \in Above : <<n, m>> \notin OpToRel(<, Nat)
  BY <1>2, NatLessThanWellFounded, WFMin
<1>4. m \in Nat /\ \A k \in Records(h, j) : k \in Nat \ {0} /\ k <= m
  <2>1. m \in Nat /\ \A k \in Records(h, j) : k <= m
    BY <1>3
  <2>2. QED
    BY <1>1, <2>1
<1>5. m \in Records(h, j)
  <2> SUFFICES ASSUME m \notin Records(h, j) PROVE FALSE
    OBVIOUS
  <2>1. \A k \in Records(h, j) : k # m
    OBVIOUS
  <2>2. \A k \in Records(h, j) : k <= m - 1
    BY <1>4, <2>1
  <2>3. m \in Nat \ {0}
    BY <1>4, <2>2
  <2>4. m - 1 \in Above
    BY <2>2, <2>3
  <2>5. <<m - 1, m>> \in OpToRel(<, Nat)
    BY <2>3 DEF OpToRel
  <2>6. QED
    BY <1>3, <2>4, <2>5
<1>6. QED
  BY <1>4, <1>5 DEF IsNewest

\* What gds_health says is what the newest record of the job tells.
LEMMA HealthByNewest ==
  ASSUME NEW h \in Seq(Record), NEW j, NEW i, IsNewest(h, j, i)
  PROVE  HealthOf(h, j) = Told(h[i].ok)
<1> DEFINE c == CHOOSE n \in Records(h, j) : \A k \in Records(h, j) : k <= n
<1>1. c \in Records(h, j) /\ \A k \in Records(h, j) : k <= c
  BY DEF IsNewest
<1>2. Records(h, j) \subseteq Nat
  BY DEF Records
<1>3. c = i
  BY <1>1, <1>2 DEF IsNewest
<1>4. HealthOf(h, j) = Told(h[c].ok)
  BY <1>1 DEF HealthOf, Told
<1>5. QED
  BY <1>3, <1>4

\* Every record but the first of a full history stays, in the same order, and
\* the new one comes last.
LEMMA PushShape ==
  ASSUME NEW h \in Seq(Record), Len(h) <= MaxHistory, NEW record \in Record
  PROVE  \E dropped \in {0, 1} :
           /\ Len(Push(h, record)) = Len(h) + 1 - dropped
           /\ dropped <= Len(h)
           /\ \A i \in 1..(Len(h) - dropped) : Push(h, record)[i] = h[i + dropped]
           /\ Push(h, record)[Len(Push(h, record))] = record
<1>1. CASE Len(h) < MaxHistory
  BY <1>1 DEF Push
<1>2. CASE ~(Len(h) < MaxHistory)
  <2>1. Len(h) = MaxHistory /\ h # <<>> /\ Push(h, record) = Append(Tail(h), record)
    BY <1>2, GDSAssumption DEF Push
  <2>2. /\ Tail(h) \in Seq(Record) /\ Len(Tail(h)) = Len(h) - 1
        /\ \A i \in 1..(Len(h) - 1) : Tail(h)[i] = h[i + 1]
    BY <2>1
  <2>3. /\ Len(Append(Tail(h), record)) = Len(h)
        /\ \A i \in 1..(Len(h) - 1) : Append(Tail(h), record)[i] = Tail(h)[i]
        /\ Append(Tail(h), record)[Len(h)] = record
    BY <2>2
  <2>4. QED
    BY <2>1, <2>2, <2>3, GDSAssumption
<1>3. QED
  BY <1>1, <1>2

\* gds_health tells the outcome that was recorded last, however full the
\* history was.
LEMMA HealthOfPushed ==
  ASSUME NEW h \in Seq(Record), Len(h) <= MaxHistory, NEW record \in Record
  PROVE  HealthOf(Push(h, record), record.job) = Told(record.ok)
<1> DEFINE p == Push(h, record)
<1>1. p \in Seq(Record) /\ Len(p) \in Nat \ {0} /\ p[Len(p)] = record
  <2>1. p \in Seq(Record)
    BY PushBounded
  <2>2. \E dropped \in {0, 1} :
          Len(p) = Len(h) + 1 - dropped /\ dropped <= Len(h) /\ p[Len(p)] = record
    BY PushShape
  <2>3. Len(p) \in Nat \ {0}
    BY <2>2
  <2>4. QED
    BY <2>1, <2>2, <2>3
<1> HIDE DEF p
<1>2. IsNewest(p, record.job, Len(p))
  BY <1>1 DEF IsNewest, Records
<1>3. HealthOf(p, record.job) = Told(p[Len(p)].ok)
  BY <1>1, <1>2, HealthByNewest
<1>4. p[Len(p)].ok = record.ok
  BY <1>1
<1>5. QED
  BY <1>3, <1>4, Zenon DEF p

\* For the other jobs it says what it said, or that they never ran.
LEMMA HealthOfOthers ==
  ASSUME NEW h \in Seq(Record), Len(h) <= MaxHistory, NEW record \in Record,
         NEW j, j # record.job
  PROVE  HealthOf(Push(h, record), j) \in {HealthOf(h, j), "never_run"}
<1> DEFINE p == Push(h, record)
<1>1. p \in Seq(Record)
  BY PushBounded
<1>2. PICK dropped \in {0, 1} :
        /\ Len(p) = Len(h) + 1 - dropped /\ dropped <= Len(h)
        /\ \A i \in 1..(Len(h) - dropped) : p[i] = h[i + dropped]
        /\ p[Len(p)] = record
  BY PushShape
<1>3. CASE Records(p, j) = {}
  BY <1>3 DEF HealthOf
<1>4. CASE Records(p, j) # {}
  <2>1. PICK i \in Records(p, j) : IsNewest(p, j, i)
    BY <1>1, <1>4, NewestExists
  <2>2. i \in 1..(Len(h) - dropped) /\ p[i] = h[i + dropped]
    BY <1>1, <1>2, <2>1 DEF Records
  <2>3. i + dropped \in Records(h, j)
    BY <2>1, <2>2 DEF Records
  <2>4. ASSUME NEW k \in Records(h, j) PROVE k <= i + dropped
    <3>1. k \in 1..Len(h) /\ h[k].job = j
      BY DEF Records
    <3>2. CASE k <= dropped
      BY <2>2, <3>1, <3>2
    <3>3. CASE k > dropped
      <4>1. k - dropped \in 1..(Len(h) - dropped) /\ p[k - dropped] = h[k]
        BY <1>2, <3>1, <3>3
      <4>2. k - dropped \in Records(p, j)
        BY <1>1, <1>2, <3>1, <4>1 DEF Records
      <4>3. QED
        BY <2>1, <2>2, <3>1, <4>2 DEF IsNewest
    <3>4. QED
      BY <3>1, <3>2, <3>3
  <2>5. IsNewest(h, j, i + dropped)
    BY <2>3, <2>4 DEF IsNewest
  <2>6. HealthOf(p, j) = Told(p[i].ok) /\ HealthOf(h, j) = Told(h[i + dropped].ok)
    BY <1>1, <2>1, <2>5, HealthByNewest
  <2>7. QED
    BY <2>2, <2>6
<1>5. QED
  BY <1>3, <1>4

(***************************************************************************)
(* A Louvain job never waits for the one query of the other algorithms.    *)
(***************************************************************************)
PlainQueries == \A r \in Runs : pc[r] = "query" => job[r] \notin Louvain

LEMMA PlainStep == IInv /\ PlainQueries /\ [Next]_vars => PlainQueries'
<1> SUFFICES ASSUME IInv, PlainQueries, [Next]_vars PROVE PlainQueries'
  OBVIOUS
<1> USE DEF PlainQueries
<1>0. pc \in [Runs -> {"idle", "pre_drop", "project", "write", "drop", "unwind", "query"}]
      /\ job \in [Runs -> Jobs \cup {None}]
  BY DEF IInv, TypeOK
<1>1. ASSUME NEW r \in Runs, NEW j \in Jobs, NEW s \in Schedulers, NEW cron \in BOOLEAN,
             Start(r, j, s, cron)
      PROVE PlainQueries'
  BY <1>0, <1>1 DEF Start
<1>2. ASSUME NEW r \in Runs, Step(r) \/ Cancel(r) PROVE PlainQueries'
  <2>1. StepEffect(r)
    BY <1>2, StepShape
  <2>2. \A k \in Runs \ {r} : pc'[k] = pc[k] /\ job'[k] = job[k]
    BY <2>1 DEF StepEffect, Ended, Moved
  <2>3. pc'[r] # "query"
    BY <1>0, <1>2 DEF Step, Answered, Failed, PreDrop, Project, NameTaken, Write, GraphGone, Drop,
       Query, PreDropFails, ProjectFails, WriteFails, DropFails, QueryFails, Goes,
       EndStabilityRun, NextStabilityRun, Finish, Vacate, Unwind, Cancel, CancelOutsideTry,
       CancelInTry
  <2>4. QED
    BY <2>2, <2>3
<1>3. CASE AskStatus
  BY <1>3 DEF AskStatus, runVars
<1>4. CASE Restart
  BY <1>4 DEF Restart
<1>5. CASE UNCHANGED vars
  BY <1>5 DEF vars, runVars
<1>6. ASSUME NEW r \in Runs, NEW j \in Jobs, Trigger(r, j) PROVE PlainQueries'
  BY <1>1, <1>6 DEF Trigger, Schedulers
<1>7. ASSUME NEW r \in Runs, NEW j \in Jobs, NEW s \in Schedulers, CronStart(r, j, s)
      PROVE PlainQueries'
  BY <1>1, <1>7 DEF CronStart
<1>8. QED
  BY <1>2, <1>3, <1>4, <1>5, <1>6, <1>7 DEF Next

(***************************************************************************)
(* What a step makes gds_health say of a job: HealthFollowsRuns, for one   *)
(* step that is no restart.                                                *)
(***************************************************************************)
Unrecorded(r) == Cancel(r) \/ Unwind(r)

Endings(j) ==
  {r \in Busy : job[r] = j /\ sched[r] = "admin" /\ pc'[r] = "idle" /\ ~Unrecorded(r)}

Follows(j) ==
  \/ Endings(j) = {} /\ Health(j)' \in {Health(j), "never_run"}
  \/ \E r \in Endings(j) : Health(j)' \in Outcomes(r)

\* Health is HealthOf of the history of the admin actions' scheduler.
LEMMA HealthIsOfHistory ==
  \A j : /\ Health(j) = HealthOf(history["admin"], j)
         /\ Health(j)' = HealthOf(history'["admin"], j)
BY DEF Health, HealthOf, Records

\* A step that ends no execution, or cancels one, and records nothing changes
\* nothing in what gds_health says.
LEMMA NothingEnds ==
  ASSUME UNCHANGED history, \A r \in Busy : pc'[r] # "idle" \/ Unrecorded(r)
  PROVE  \A j \in Jobs : Follows(j)
<1> TAKE j \in Jobs
<1>1. Endings(j) = {}
  BY DEF Endings
<1>2. Health(j)' = Health(j)
  BY HealthIsOfHistory
<1>3. QED
  BY <1>1, <1>2 DEF Follows

\* An execution that ends is recorded for its job and scheduler, and for them only.
LEMMA FinishFollows ==
  ASSUME TypesOfRuns, NEW r \in Runs, pc[r] # "idle", job[r] \in Jobs, sched[r] \in Schedulers,
         NEW ok \in BOOLEAN, Finish(r, ok), Told(ok) \in Outcomes(r), ~Unrecorded(r)
  PROVE  \A j \in Jobs : Follows(j)
<1> TAKE j \in Jobs
<1> DEFINE record == [job |-> job[r], ok |-> ok]
           told == history["admin"]
<1>1. record \in Record /\ record.job = job[r] /\ record.ok = ok
  BY DEF Record
<1>2. /\ history'[sched[r]] = Push(history[sched[r]], record)
      /\ sched[r] # "admin" => told' = told
  BY DEF Finish, TypesOfRuns, Schedulers
<1>3. \A k \in Runs : pc'[k] = IF k = r THEN "idle" ELSE pc[k]
  BY DEF Finish, Vacate, TypesOfRuns
<1>4. told \in Seq(Record) /\ Len(told) <= MaxHistory
  BY DEF TypesOfRuns, Schedulers
<1> HIDE DEF record
<1>5. CASE sched[r] = "admin" /\ j = job[r]
  <2>1. r \in Endings(j)
    BY <1>3, <1>5 DEF Endings, Busy
  <2>2. HealthOf(told', j) = Told(ok)
    BY <1>1, <1>2, <1>4, <1>5, HealthOfPushed
  <2>3. QED
    BY <2>1, <2>2, HealthIsOfHistory DEF Follows
<1>6. CASE ~(sched[r] = "admin" /\ j = job[r])
  <2>1. Endings(j) = {}
    BY <1>3, <1>6 DEF Endings, Busy
  <2>2. CASE sched[r] = "admin"
    <3>1. HealthOf(told', j) \in {HealthOf(told, j), "never_run"}
      BY <1>1, <1>2, <1>4, <1>6, <2>2, HealthOfOthers
    <3>2. QED
      BY <2>1, <3>1, HealthIsOfHistory DEF Follows
  <2>3. CASE sched[r] # "admin"
    BY <1>2, <2>1, <2>3, HealthIsOfHistory DEF Follows
  <2>4. QED
    BY <2>2, <2>3
<1>7. QED
  BY <1>5, <1>6

\* A stability run that ends is followed by another, or its job has succeeded
\* if one of its stability runs did.
LEMMA RunFollows ==
  ASSUME TypesOfRuns, NEW r \in Runs, pc[r] # "idle", job[r] \in Jobs, sched[r] \in Schedulers,
         NEW ok \in BOOLEAN, EndStabilityRun(r, ok), Told(won[r] \/ ok) \in Outcomes(r),
         ~Unrecorded(r)
  PROVE  \A j \in Jobs : Follows(j)
<1>1. CASE left[r] > 1
  <2>1. NextStabilityRun(r, ok)
    BY <1>1 DEF EndStabilityRun
  <2>2. UNCHANGED history /\ \A k \in Busy : pc'[k] # "idle"
    BY <2>1 DEF NextStabilityRun, TypesOfRuns, Busy
  <2>3. QED
    BY <2>2, NothingEnds
<1>2. CASE ~(left[r] > 1)
  <2>1. Finish(r, won[r] \/ ok) /\ (won[r] \/ ok) \in BOOLEAN
    BY <1>2 DEF EndStabilityRun
  <2>2. QED
    BY <2>1, FinishFollows
<1>3. QED
  BY <1>1, <1>2

\* So does every step of an execution, and its cancellation.
LEMMA StepFollows ==
  ASSUME IInv, PlainQueries, NEW r \in Runs, Step(r) \/ Cancel(r)
  PROVE  \A j \in Jobs : Follows(j)
<1>1. pc[r] # "idle" /\ StepEffect(r)
  BY StepShape
<1>2. job[r] \in Jobs /\ sched[r] \in Schedulers
  BY <1>1 DEF IInv, InFlight
<1>3. TypesOfRuns /\ good[r] \in BOOLEAN /\ won[r] \in BOOLEAN
  BY DEF IInv, TypeOK, TypesOfRuns
<1>4. CASE Unrecorded(r)
  <2>1. UNCHANGED history
    BY <1>4 DEF Unrecorded, Cancel, Unwind
  <2>2. \A k \in Runs \ {r} : pc'[k] = pc[k]
    BY <1>1 DEF StepEffect, Ended, Moved
  <2>3. QED
    BY <1>4, <2>1, <2>2, NothingEnds DEF Busy
<1>5. CASE PreDropFails(r) /\ ~Unrecorded(r)
  <2>1. Told(won[r] \/ FALSE) \in Outcomes(r)
    BY <1>3, <1>5 DEF PreDropFails, Told, Outcomes
  <2>2. QED
    BY <1>1, <1>2, <1>3, <1>5, <2>1, RunFollows DEF PreDropFails
<1>6. CASE (Drop(r) \/ DropFails(r)) /\ ~Unrecorded(r)
  <2>1. Told(won[r] \/ good[r]) \in Outcomes(r)
    BY <1>3, <1>6 DEF Drop, DropFails, Told, Outcomes
  <2>2. QED
    BY <1>1, <1>2, <1>3, <1>6, <2>1, RunFollows DEF Drop, DropFails
<1>7. CASE (Query(r) \/ QueryFails(r)) /\ ~Unrecorded(r)
  <2>1. \A ok \in BOOLEAN : Told(ok) \in Outcomes(r)
    BY <1>7 DEF Query, QueryFails, Told, Outcomes, PlainQueries
  <2>2. PICK ok \in BOOLEAN : Finish(r, ok)
    BY <1>7 DEF Query, QueryFails
  <2>3. QED
    BY <1>1, <1>2, <1>3, <1>7, <2>1, <2>2, FinishFollows
<1>8. CASE PreDrop(r) \/ Project(r) \/ NameTaken(r) \/ Write(r) \/ GraphGone(r)
           \/ ProjectFails(r) \/ WriteFails(r)
  <2>1. PICK step \in {"project", "write", "drop"} : Goes(r, step) /\ UNCHANGED history
    BY <1>8 DEF PreDrop, Project, NameTaken, Write, GraphGone, ProjectFails, WriteFails
  <2>2. \A k \in Busy : pc'[k] # "idle"
    BY <1>3, <2>1 DEF Goes, TypesOfRuns, Busy
  <2>3. QED
    BY <2>1, <2>2, NothingEnds
<1>9. QED
  BY <1>4, <1>5, <1>6, <1>7, <1>8 DEF Step, Answered, Failed, Unrecorded

\* No step but a restart leaves gds_health behind.
LEMMA NextFollows ==
  IInv /\ PlainQueries /\ [Next]_vars => Restart \/ \A j \in Jobs : Follows(j)
<1> SUFFICES ASSUME IInv, PlainQueries, [Next]_vars, ~Restart PROVE \A j \in Jobs : Follows(j)
  OBVIOUS
<1>0. pc \in [Runs -> {"idle", "pre_drop", "project", "write", "drop", "unwind", "query"}]
  BY DEF IInv, TypeOK
<1>1. ASSUME NEW r \in Runs, NEW j \in Jobs, NEW s \in Schedulers, NEW cron \in BOOLEAN,
             Start(r, j, s, cron)
      PROVE UNCHANGED history /\ \A k \in Busy : pc'[k] # "idle"
  BY <1>0, <1>1 DEF Start, Busy
<1>2. CASE AskStatus \/ UNCHANGED vars
  <2>1. UNCHANGED history /\ \A k \in Busy : pc'[k] # "idle"
    BY <1>2 DEF AskStatus, vars, runVars, Busy
  <2>2. QED
    BY <2>1, NothingEnds
<1>3. CASE \E r \in Runs, j \in Jobs : Trigger(r, j)
  <2>1. UNCHANGED history /\ \A k \in Busy : pc'[k] # "idle"
    BY <1>1, <1>3 DEF Trigger, Schedulers
  <2>2. QED
    BY <2>1, NothingEnds
<1>4. CASE \E r \in Runs, j \in Jobs, s \in Schedulers : CronStart(r, j, s)
  <2>1. UNCHANGED history /\ \A k \in Busy : pc'[k] # "idle"
    BY <1>1, <1>4 DEF CronStart
  <2>2. QED
    BY <2>1, NothingEnds
<1>5. CASE \E r \in Runs : Step(r) \/ Cancel(r)
  BY <1>5, StepFollows
<1>6. QED
  BY <1>2, <1>3, <1>4, <1>5 DEF Next

(***************************************************************************)
(* gds_health tells the outcome of the execution of the admin actions'     *)
(* scheduler that ended last, for any number of jobs and executions and    *)
(* any bound of the history; it never shows an older outcome, and never    *)
(* that of another job, of boot's scheduler or of a cancelled execution.   *)
(***************************************************************************)
THEOREM HealthIsCurrent == Spec => HealthFollowsRuns
<1>1. Init => PlainQueries
  BY DEF Init, PlainQueries
<1>2. Spec => []PlainQueries
  BY <1>1, PlainStep, Invariance, PTL DEF Spec
<1>3. IInv /\ PlainQueries /\ [Next]_vars =>
        [\A j \in Jobs :
           LET ends == {r \in Busy : /\ job[r] = j /\ sched[r] = "admin"
                                    /\ pc'[r] = "idle" /\ ~(Cancel(r) \/ Unwind(r))}
           IN \/ Restart
              \/ ends = {} /\ Health(j)' \in {Health(j), "never_run"}
              \/ \E r \in ends : Health(j)' \in Outcomes(r)]_vars
  BY NextFollows DEF Follows, Endings, Unrecorded
<1>4. QED
  BY <1>2, <1>3, Invariance, PTL DEF Spec, HealthFollowsRuns
=============================================================================
