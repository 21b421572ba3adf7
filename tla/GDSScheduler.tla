----------------------------- MODULE GDSScheduler -----------------------------
(***************************************************************************)
(* The executions of one domain's GDS jobs (engine/gds/scheduler.py).      *)
(*                                                                         *)
(* A domain has up to two schedulers with the same jobs: the one that boot *)
(* starts (engine/boot.py) and the one the first gds_* admin action makes  *)
(* (_get_or_create_scheduler in engine/handlers.py).  Each fires the cron  *)
(* jobs and keeps its own history; both use the one graph catalog of the   *)
(* database, where a Louvain job projects a graph under the job's name.    *)
(*                                                                         *)
(* Every query is a step of its own, and executions interleave between     *)
(* queries.  A query may fail before or after it took effect, and so may   *)
(* the request that waits for a triggered job be cancelled.  External:     *)
(* APScheduler, with its default of one running instance per job and       *)
(* scheduler, and the catalog, in which a name can be taken once.          *)
(***************************************************************************)
EXTENDS Naturals, Sequences, FiniteSets

CONSTANTS
  Jobs,           \* the names of the jobs in the domain spec
  Cron,           \* the jobs with a cron schedule
  Louvain,        \* the jobs that need a projection
  StabilityRuns,  \* stability_runs of a Louvain job
  MaxHistory,     \* _MAX_HISTORY_SIZE
  Runs,           \* slots for executions in flight
  None,           \* no job, no scheduler, no projection
  Left            \* the owner of a projection that a failure left behind

ASSUME GDSAssumption ==
  /\ Cron \subseteq Jobs /\ Louvain \subseteq Jobs
  /\ StabilityRuns \in [Louvain -> Nat \ {0}]
  /\ MaxHistory \in Nat \ {0}
  /\ None # Left /\ None \notin Runs \cup Jobs \cup {"boot", "admin"} /\ Left \notin Runs

VARIABLES
  alive,    \* the schedulers that have been started
  graph,    \* the catalog: who projected the job's graph
  pc,       \* per execution: idle, or the query it is waiting for
  job,      \* the job it runs, or None
  sched,    \* the scheduler it belongs to, or None
  byCron,   \* whether the timer started it
  left,     \* stability runs still to do, this one included
  good,     \* whether this stability run has written its result
  won,      \* whether an earlier stability run has
  history,  \* _job_history of each scheduler, oldest first
  spoiled   \* history variable: executions that met a failing query or overlapped

runVars == <<pc, job, sched, byCron, left, good, won>>
vars == <<alive, graph, runVars, history, spoiled>>

Schedulers == {"boot", "admin"}
Busy == {r \in Runs : pc[r] # "idle"}
Record == [job : Jobs, ok : BOOLEAN]
MostRuns(j) == IF j \in Louvain THEN StabilityRuns[j] ELSE 1

TypeOK ==
  /\ alive \in SUBSET Schedulers
  /\ graph \in [Jobs -> Runs \cup {None, Left}]
  /\ pc \in [Runs -> {"idle", "pre_drop", "project", "write", "drop", "unwind", "query"}]
  /\ job \in [Runs -> Jobs \cup {None}]
  /\ sched \in [Runs -> Schedulers \cup {None}]
  /\ byCron \in [Runs -> BOOLEAN]
  /\ left \in [Runs -> Nat]
  /\ good \in [Runs -> BOOLEAN]
  /\ won \in [Runs -> BOOLEAN]
  /\ history \in [Schedulers -> Seq(Record)]
  /\ \A s \in Schedulers : Len(history[s]) <= MaxHistory
  /\ spoiled \in SUBSET Runs

Init ==
  /\ alive = {"boot"}
  /\ graph = [j \in Jobs |-> None]
  /\ pc = [r \in Runs |-> "idle"]
  /\ job = [r \in Runs |-> None]
  /\ sched = [r \in Runs |-> None]
  /\ byCron = [r \in Runs |-> FALSE]
  /\ left = [r \in Runs |-> 0]
  /\ good = [r \in Runs |-> FALSE]
  /\ won = [r \in Runs |-> FALSE]
  /\ history = [s \in Schedulers |-> <<>>]
  /\ spoiled = {}

(***************************************************************************)
(* Starting an execution.                                                  *)
(***************************************************************************)
Rivals(j) == {r \in Busy : job[r] = j}

\* execute_job: a Louvain job begins with its pre-cleanup.
Start(r, j, s, cron) ==
  /\ pc[r] = "idle"
  /\ pc' = [pc EXCEPT ![r] = IF j \in Louvain THEN "pre_drop" ELSE "query"]
  /\ job' = [job EXCEPT ![r] = j]
  /\ sched' = [sched EXCEPT ![r] = s]
  /\ byCron' = [byCron EXCEPT ![r] = cron]
  /\ left' = [left EXCEPT ![r] = MostRuns(j)]
  /\ spoiled' = (spoiled \ {r}) \cup Rivals(j) \cup {k \in {r} : Rivals(j) # {}}
  /\ UNCHANGED <<graph, good, won, history>>

\* The timer of a scheduler that has been started fires.
CronStart(r, j, s) ==
  /\ s \in alive
  /\ j \in Cron
  /\ ~\E k \in Rivals(j) : sched[k] = s /\ byCron[k]
  /\ Start(r, j, s, TRUE)
  /\ UNCHANGED alive

\* gds_trigger and trigger_gds: the scheduler is made if there is none.
Trigger(r, j) ==
  /\ alive' = alive \cup {"admin"}
  /\ Start(r, j, "admin", FALSE)

\* gds_status and gds_health make it, too.
AskStatus ==
  /\ "admin" \notin alive
  /\ alive' = alive \cup {"admin"}
  /\ UNCHANGED <<graph, runVars, history, spoiled>>

(***************************************************************************)
(* Ending an execution, or one of its stability runs.                      *)
(***************************************************************************)
\* Mutant: a full history refuses new records.
PushKeepsOldest(h, record) ==
  IF Len(h) < MaxHistory THEN Append(h, record) ELSE h

\* deque(maxlen = MaxHistory)
Push(h, record) ==
  IF Len(h) < MaxHistory THEN Append(h, record) ELSE Append(Tail(h), record)

\* The execution is over.
Vacate(r) ==
  /\ pc' = [pc EXCEPT ![r] = "idle"]
  /\ job' = [job EXCEPT ![r] = None]
  /\ sched' = [sched EXCEPT ![r] = None]
  /\ byCron' = [byCron EXCEPT ![r] = FALSE]
  /\ left' = [left EXCEPT ![r] = 0]
  /\ good' = [good EXCEPT ![r] = FALSE]
  /\ won' = [won EXCEPT ![r] = FALSE]

Finish(r, ok) ==
  /\ history' = [history EXCEPT ![sched[r]] = Push(@, [job |-> job[r], ok |-> ok])]
  /\ Vacate(r)

NextStabilityRun(r, ok) ==
  /\ pc' = [pc EXCEPT ![r] = "pre_drop"]
  /\ left' = [left EXCEPT ![r] = @ - 1]
  /\ good' = [good EXCEPT ![r] = FALSE]
  /\ won' = [won EXCEPT ![r] = @ \/ ok]
  /\ UNCHANGED <<job, sched, byCron, history>>

\* A job succeeds if one of its stability runs did.
EndStabilityRun(r, ok) ==
  IF left[r] > 1 THEN NextStabilityRun(r, ok) ELSE Finish(r, won[r] \/ ok)

(***************************************************************************)
(* The queries of a Louvain job: pre-cleanup, project, write, and the drop *)
(* of the finally clause.                                                  *)
(***************************************************************************)
\* The execution goes on to its next query.
Goes(r, step) == pc' = [pc EXCEPT ![r] = step] /\ UNCHANGED <<job, sched, byCron, left, won>>
\* The effect of a query on the catalog.
Owner(j, who) == graph' = [graph EXCEPT ![j] = who]
\* A drop that does not happen leaves the execution's projection to nobody.
NotDropped(r) == graph' = [graph EXCEPT ![job[r]] = IF @ = r THEN Left ELSE @]

\* Mutant: the pre-cleanup drops nothing.
PreDropSkipped(r) ==
  /\ pc[r] = "pre_drop"
  /\ Goes(r, "project")
  /\ UNCHANGED <<alive, graph, good, history, spoiled>>

PreDrop(r) ==
  /\ pc[r] = "pre_drop"
  /\ Owner(job[r], None)
  /\ Goes(r, "project")
  /\ UNCHANGED <<alive, good, history, spoiled>>

\* It is outside of the try: no drop follows.
PreDropFails(r) ==
  /\ pc[r] = "pre_drop"
  /\ UNCHANGED graph \/ Owner(job[r], None)
  /\ EndStabilityRun(r, FALSE)
  /\ spoiled' = spoiled \cup {r}
  /\ UNCHANGED alive

Project(r) ==
  /\ pc[r] = "project"
  /\ graph[job[r]] = None
  /\ Owner(job[r], r)
  /\ Goes(r, "write")
  /\ UNCHANGED <<alive, good, history, spoiled>>

\* Mutant: an answer that is lost after the projection was made ends the run.
ProjectFailsNoDrop(r) ==
  /\ pc[r] = "project"
  /\ graph[job[r]] = None
  /\ Owner(job[r], r)
  /\ EndStabilityRun(r, FALSE)
  /\ spoiled' = spoiled \cup {r}
  /\ UNCHANGED alive

ProjectFails(r) ==
  /\ pc[r] = "project"
  /\ UNCHANGED graph \/ (graph[job[r]] = None /\ Owner(job[r], r))
  /\ Goes(r, "drop")
  /\ spoiled' = spoiled \cup {r}
  /\ UNCHANGED <<alive, good, history>>

\* "A graph with that name already exists."
NameTaken(r) ==
  /\ pc[r] = "project"
  /\ graph[job[r]] # None
  /\ Goes(r, "drop")
  /\ UNCHANGED <<alive, graph, good, history, spoiled>>

Write(r) ==
  /\ pc[r] = "write"
  /\ graph[job[r]] # None
  /\ good' = [good EXCEPT ![r] = TRUE]
  /\ Goes(r, "drop")
  /\ UNCHANGED <<alive, graph, history, spoiled>>

\* Somebody has dropped the projection.
GraphGone(r) ==
  /\ pc[r] = "write"
  /\ graph[job[r]] = None
  /\ Goes(r, "drop")
  /\ UNCHANGED <<alive, graph, good, history, spoiled>>

WriteFails(r) ==
  /\ pc[r] = "write"
  /\ Goes(r, "drop")
  /\ spoiled' = spoiled \cup {r}
  /\ UNCHANGED <<alive, graph, good, history>>

\* An error -- there is nothing to drop -- is logged and forgotten.
Drop(r) ==
  /\ pc[r] = "drop"
  /\ Owner(job[r], None)
  /\ EndStabilityRun(r, good[r])
  /\ UNCHANGED <<alive, spoiled>>

\* So is a query that fails; the projection stays, unless it was dropped.
DropFails(r) ==
  /\ pc[r] = "drop"
  /\ NotDropped(r)
  /\ EndStabilityRun(r, good[r])
  /\ UNCHANGED <<alive, spoiled>>

(***************************************************************************)
(* The other algorithms, as one query.                                     *)
(***************************************************************************)
Query(r) ==
  /\ pc[r] = "query"
  /\ Finish(r, TRUE)
  /\ UNCHANGED <<alive, graph, spoiled>>

QueryFails(r) ==
  /\ pc[r] = "query"
  /\ Finish(r, FALSE)
  /\ spoiled' = spoiled \cup {r}
  /\ UNCHANGED <<alive, graph>>

(***************************************************************************)
(* The request that awaits trigger_job is cancelled in a query, which may  *)
(* have taken effect.  CancelledError is no Exception: nothing is recorded *)
(* and no further stability run begins, but a finally clause is executed.  *)
(***************************************************************************)
CancelOutsideTry(r) ==
  /\ \/ pc[r] = "pre_drop" /\ (UNCHANGED graph \/ Owner(job[r], None))
     \/ pc[r] = "query" /\ UNCHANGED graph
     \/ pc[r] = "drop" /\ (NotDropped(r) \/ Owner(job[r], None))
  /\ Vacate(r)

CancelInTry(r) ==
  /\ \/ pc[r] \in {"project", "write"} /\ UNCHANGED graph
     \/ pc[r] = "project" /\ graph[job[r]] = None /\ Owner(job[r], r)
  /\ Goes(r, "unwind")
  /\ UNCHANGED good

Cancel(r) ==
  /\ ~byCron[r]
  /\ (CancelOutsideTry(r) \/ CancelInTry(r))
  /\ UNCHANGED <<alive, history, spoiled>>

\* The drop of a cancelled execution ends it, answered, failed or cancelled.
Unwind(r) ==
  /\ pc[r] = "unwind"
  /\ (NotDropped(r) \/ Owner(job[r], None))
  /\ Vacate(r)
  /\ UNCHANGED <<alive, history, spoiled>>

(***************************************************************************)
(* The process ends, in good order or not, and starts again.  What it did  *)
(* with projections on its way out is anyone's guess.                      *)
(***************************************************************************)
Restart ==
  /\ alive' = {"boot"}
  /\ \E gone \in SUBSET Jobs :
       graph' = [j \in Jobs |-> IF graph[j] = None \/ j \in gone THEN None ELSE Left]
  /\ pc' = [r \in Runs |-> "idle"]
  /\ job' = [r \in Runs |-> None]
  /\ sched' = [r \in Runs |-> None]
  /\ byCron' = [r \in Runs |-> FALSE]
  /\ left' = [r \in Runs |-> 0]
  /\ good' = [r \in Runs |-> FALSE]
  /\ won' = [r \in Runs |-> FALSE]
  /\ history' = [s \in Schedulers |-> <<>>]
  /\ spoiled' = {}
-----------------------------------------------------------------------------
Answered(r) == PreDrop(r) \/ Project(r) \/ NameTaken(r) \/ Write(r) \/ GraphGone(r) \/ Drop(r) \/ Query(r)
Failed(r) == PreDropFails(r) \/ ProjectFails(r) \/ WriteFails(r) \/ DropFails(r) \/ QueryFails(r)
Step(r) == Answered(r) \/ Failed(r) \/ Unwind(r)

Next ==
  \/ \E r \in Runs, j \in Jobs : Trigger(r, j)
  \/ \E r \in Runs, j \in Jobs, s \in Schedulers : CronStart(r, j, s)
  \/ AskStatus
  \/ \E r \in Runs : Step(r) \/ Cancel(r)
  \/ Restart

Spec == Init /\ [][Next]_vars

(***************************************************************************)
(* Fairness: a query ends in an answer or a failure, and not every         *)
(* pre-cleanup of a job fails or is cancelled; the timer of boot's         *)
(* scheduler fires.                                                        *)
(***************************************************************************)
Fairness ==
  /\ \A r \in Runs : WF_vars(Step(r))
  /\ \A j \in Cron :
       /\ SF_vars(\E r \in Runs : CronStart(r, j, "boot"))
       /\ SF_vars(\E r \in Runs : job[r] = j /\ PreDrop(r))

FairSpec == Spec /\ Fairness
-----------------------------------------------------------------------------
\* gds_health and gds_status: the newest record of a job.  They know only the
\* scheduler of the admin actions, not the one that boot started.
Health(j) ==
  LET told == history["admin"]
      runs == {i \in DOMAIN told : told[i].job = j}
  IN IF runs = {} THEN "never_run"
     ELSE IF told[CHOOSE i \in runs : \A k \in runs : k <= i].ok THEN "success" ELSE "failed"

(***************************************************************************)
(* A projection outlives its execution only if a drop failed or was        *)
(* cancelled, or the process ended: every other way out of _run_louvain,   *)
(* that of a cancelled request too, passes the drop.                       *)
(***************************************************************************)
NoOrphans ==
  \A j \in Jobs : graph[j] \in Runs => job[graph[j]] = j /\ pc[graph[j]] \in {"write", "drop", "unwind"}

(***************************************************************************)
(* An execution that had the job for itself and met no failing query       *)
(* writes its result, whatever earlier executions or processes left in the *)
(* catalog.                                                                *)
(***************************************************************************)
AloneSucceeds ==
  \A r \in Runs \ spoiled :
    /\ pc[r] = "project" => graph[job[r]] = None
    /\ pc[r] = "write" => graph[job[r]] = r
    /\ pc[r] = "drop" => good[r]

\* What gds_health may say after the execution r has ended.
Outcomes(r) ==
  IF job[r] \in Louvain
  THEN {IF won[r] \/ (pc[r] = "drop" /\ good[r]) THEN "success" ELSE "failed"}
  ELSE {"success", "failed"}

(***************************************************************************)
(* gds_health tells the outcome of the newest execution that ended in the  *)
(* scheduler of the admin actions, as soon as it has ended, however full   *)
(* its history is.  Executions that are cancelled and those of boot's      *)
(* scheduler change nothing in what it says; it can only forget.           *)
(***************************************************************************)
HealthFollowsRuns ==
  [][\A j \in Jobs :
       LET ends == {r \in Busy : /\ job[r] = j /\ sched[r] = "admin"
                                /\ pc'[r] = "idle" /\ ~(Cancel(r) \/ Unwind(r))}
       IN \/ Restart
          \/ ends = {} /\ Health(j)' \in {Health(j), "never_run"}
          \/ \E r \in ends : Health(j)' \in Outcomes(r)]_vars

(***************************************************************************)
(* A projection left behind by a failure or a crash is removed by a later  *)
(* execution of its job.                                                   *)
(***************************************************************************)
LeftoversGo == \A j \in Cron \cap Louvain : graph[j] = Left ~> graph[j] # Left

(***************************************************************************)
(* engine/gds/scheduler.py: "drop stale projection if it exists": the      *)
(* pre-cleanup takes no projection from an execution that is using it.     *)
(***************************************************************************)
OnlyStaleDropped ==
  [][\A r \in Runs : pc[r] = "pre_drop" /\ pc'[r] = "project" => graph[job[r]] \notin Busy]_vars
=============================================================================
