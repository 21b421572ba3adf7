--------------------------- MODULE CircuitBreaker ---------------------------
(***************************************************************************)
(* The circuit breaker of engine/graph/circuit_breaker.py that guards      *)
(* every Neo4j round trip of GraphDriver.                                  *)
(*                                                                         *)
(* Concurrency: callers are tasks of one asyncio loop.  The lock of the    *)
(* breaker is never held across an await, so each critical section is one  *)
(* atomic step: admission (Admit, Reject), and the section that records a  *)
(* result, which runs in the same task step as the return of func          *)
(* (Succeed, Fail).  Between the two the call runs outside the lock, and   *)
(* any step of any other caller may come in between.  asyncio's            *)
(* CancelledError is a BaseException: a cancelled call records no result.  *)
(*                                                                         *)
(* Abstractions: the clock is the one fact the code asks of it (has        *)
(* recovery_timeout elapsed since opened_at); consecutive_failures         *)
(* saturates at FailureThreshold, the only value it is compared with.      *)
(* The total_* counters are in CircuitBreakerMetrics.                      *)
(***************************************************************************)
EXTENDS Integers, FiniteSets

CONSTANTS
  Callers,           \* tasks that use the driver
  FailureThreshold,  \* failure_threshold
  HalfOpenMaxCalls,  \* half_open_max_calls
  MayCancel,         \* may a running call be cancelled?
  MaxInterventions   \* bound on operator calls (force_*, reset_metrics)

ASSUME CallersAssumption == IsFiniteSet(Callers)
ASSUME ThresholdAssumption == FailureThreshold \in Nat \ {0}
ASSUME HalfOpenAssumption == HalfOpenMaxCalls \in Nat \ {0}
ASSUME CancelAssumption == MayCancel \in BOOLEAN
ASSUME InterventionsAssumption == MaxInterventions \in Nat

VARIABLES
  state,                \* _state
  consecutiveFailures,  \* _consecutive_failures, saturating
  halfOpenCalls,        \* _half_open_calls
  cooled,               \* monotonic() - _opened_at >= recovery_timeout
  call,                 \* per caller: where its current or last call stands
  probes,               \* history: running calls admitted in this HALF_OPEN period
  abandoned,            \* history: probes of this period that were cancelled
  backend,              \* environment: do the functions passed to call succeed?
  interventions         \* operator calls so far

breakerVars == <<state, consecutiveFailures, halfOpenCalls, cooled>>
historyVars == <<probes, abandoned>>
vars == <<state, consecutiveFailures, halfOpenCalls, cooled, call, probes,
          abandoned, backend, interventions>>

BreakerState == {"CLOSED", "OPEN", "HALF_OPEN"}
CallStatus == {"idle", "running", "ok", "error", "circuit_open", "cancelled"}

Running == {c \in Callers : call[c] = "running"}

TypeOK ==
  /\ state \in BreakerState
  /\ consecutiveFailures \in 0..FailureThreshold
  /\ halfOpenCalls \in 0..HalfOpenMaxCalls
  /\ cooled \in BOOLEAN
  /\ call \in [Callers -> CallStatus]
  /\ probes \in SUBSET Callers
  /\ abandoned \in 0..HalfOpenMaxCalls
  /\ backend \in {"up", "down"}
  /\ interventions \in 0..MaxInterventions

Init ==
  /\ state = "CLOSED"
  /\ consecutiveFailures = 0
  /\ halfOpenCalls = 0
  /\ cooled = FALSE
  /\ call = [c \in Callers |-> "idle"]
  /\ probes = {}
  /\ abandoned = 0
  /\ backend \in {"up", "down"}
  /\ interventions = 0

(***************************************************************************)
(* _transition_to(new): the counters each state resets.  failures is the   *)
(* value of _consecutive_failures at the call.  Entering any state starts  *)
(* a new period, so no running call is one of its probes.                  *)
(***************************************************************************)
\* Mutant: the probe counter survives the end of its period.
TransitionToKeepsProbeCount(new, failures) ==
  /\ state' = new
  /\ halfOpenCalls' = halfOpenCalls
  /\ consecutiveFailures' = IF new = "CLOSED" THEN 0 ELSE failures
  /\ cooled' = IF new = "OPEN" THEN FALSE ELSE cooled
  /\ probes' = {}
  /\ abandoned' = 0

TransitionTo(new, failures) ==
  /\ state' = new
  /\ halfOpenCalls' = 0
  /\ consecutiveFailures' = IF new = "CLOSED" THEN 0 ELSE failures
  /\ cooled' = IF new = "OPEN" THEN FALSE ELSE cooled
  /\ probes' = {}
  /\ abandoned' = 0

BumpedFailures ==
  IF consecutiveFailures < FailureThreshold
  THEN consecutiveFailures + 1 ELSE consecutiveFailures

Finish(c, status) == call' = [call EXCEPT ![c] = status]

(***************************************************************************)
(* The first half of call(): the section under the lock.                   *)
(***************************************************************************)
\* Mutant: the cooldown is not awaited.
MustRejectIgnoresClock ==
  state = "HALF_OPEN" /\ halfOpenCalls >= HalfOpenMaxCalls

MustReject ==
  \/ state = "OPEN" /\ ~cooled
  \/ state = "HALF_OPEN" /\ halfOpenCalls >= HalfOpenMaxCalls

\* CircuitOpenError is raised before the function is called.
Reject(c) ==
  /\ call[c] # "running"
  /\ MustReject
  /\ Finish(c, "circuit_open")
  /\ UNCHANGED <<breakerVars, historyVars, backend, interventions>>

\* In CLOSED the call just runs.
AdmitClosed(c) ==
  /\ call[c] # "running"
  /\ state = "CLOSED"
  /\ Finish(c, "running")
  /\ UNCHANGED <<breakerVars, historyVars, backend, interventions>>

\* The first call after the cooldown moves OPEN to HALF_OPEN and is a probe.
AdmitFirstProbe(c) ==
  /\ call[c] # "running"
  /\ state = "OPEN" /\ ~MustReject
  /\ state' = "HALF_OPEN"
  /\ halfOpenCalls' = 1
  /\ probes' = {c}
  /\ abandoned' = 0
  /\ Finish(c, "running")
  /\ UNCHANGED <<consecutiveFailures, cooled, backend, interventions>>

\* Further probes, as long as the period's budget lasts.
AdmitProbe(c) ==
  /\ call[c] # "running"
  /\ state = "HALF_OPEN" /\ ~MustReject
  /\ halfOpenCalls' = halfOpenCalls + 1
  /\ probes' = probes \cup {c}
  /\ Finish(c, "running")
  /\ UNCHANGED <<state, consecutiveFailures, cooled, abandoned, backend, interventions>>

Call(c) == Reject(c) \/ AdmitClosed(c) \/ AdmitFirstProbe(c) \/ AdmitProbe(c)

(***************************************************************************)
(* The second half of call(): the function returns, raises or is           *)
(* cancelled.  Whether it was admitted in this period makes no difference. *)
(***************************************************************************)
\* Mutant: a probe's success does not close the circuit.
SucceedStaysHalfOpen(c) ==
  /\ call[c] = "running"
  /\ backend = "up"
  /\ Finish(c, "ok")
  /\ consecutiveFailures' = IF state = "CLOSED" THEN 0 ELSE consecutiveFailures
  /\ probes' = probes \ {c}
  /\ UNCHANGED <<state, halfOpenCalls, cooled, abandoned, backend, interventions>>

\* Mutant: a late success closes an OPEN circuit.
SucceedClosesAnyState(c) ==
  /\ call[c] = "running"
  /\ backend = "up"
  /\ Finish(c, "ok")
  /\ TransitionTo("CLOSED", consecutiveFailures)
  /\ UNCHANGED <<backend, interventions>>

\* _on_success
Succeed(c) ==
  /\ call[c] = "running"
  /\ backend = "up"
  /\ Finish(c, "ok")
  /\ \/ /\ state = "HALF_OPEN"
        /\ TransitionTo("CLOSED", consecutiveFailures)
     \/ /\ state = "CLOSED"
        /\ consecutiveFailures' = 0
        /\ UNCHANGED <<state, halfOpenCalls, cooled, historyVars>>
     \/ /\ state = "OPEN"
        /\ UNCHANGED <<breakerVars, historyVars>>
  /\ UNCHANGED <<backend, interventions>>

\* Mutant: one failure more than the threshold.
TripsOffByOne ==
  \/ state = "HALF_OPEN"
  \/ state = "CLOSED" /\ consecutiveFailures >= FailureThreshold

\* _on_failure
Trips ==
  \/ state = "HALF_OPEN"
  \/ state = "CLOSED" /\ BumpedFailures >= FailureThreshold

Fail(c) ==
  /\ call[c] = "running"
  /\ backend = "down"
  /\ Finish(c, "error")
  /\ \/ /\ Trips
        /\ TransitionTo("OPEN", BumpedFailures)
     \/ /\ ~Trips
        /\ consecutiveFailures' = BumpedFailures
        /\ UNCHANGED <<state, halfOpenCalls, cooled, historyVars>>
  /\ UNCHANGED <<backend, interventions>>

\* CancelledError passes `except Exception`: neither handler runs.
Cancel(c) ==
  /\ MayCancel
  /\ call[c] = "running"
  /\ Finish(c, "cancelled")
  /\ probes' = probes \ {c}
  /\ abandoned' = IF c \in probes THEN abandoned + 1 ELSE abandoned
  /\ UNCHANGED <<breakerVars, backend, interventions>>

(***************************************************************************)
(* Manual controls, the passing of time and the environment.               *)
(***************************************************************************)
Intervene ==
  /\ interventions < MaxInterventions
  /\ interventions' = interventions + 1
  /\ UNCHANGED <<call, backend>>

ForceOpen == Intervene /\ TransitionTo("OPEN", consecutiveFailures)

ForceClose == Intervene /\ TransitionTo("CLOSED", consecutiveFailures)

ResetMetrics ==
  /\ Intervene
  /\ consecutiveFailures' = 0
  /\ UNCHANGED <<state, halfOpenCalls, cooled, historyVars>>

CoolDown ==
  /\ state = "OPEN" /\ ~cooled
  /\ cooled' = TRUE
  /\ UNCHANGED <<state, consecutiveFailures, halfOpenCalls, call, historyVars,
                 backend, interventions>>

BackendChanges ==
  /\ backend' = IF backend = "up" THEN "down" ELSE "up"
  /\ UNCHANGED <<breakerVars, call, historyVars, interventions>>

Next ==
  \/ \E c \in Callers : Call(c) \/ Succeed(c) \/ Fail(c) \/ Cancel(c)
  \/ ForceOpen \/ ForceClose \/ ResetMetrics
  \/ CoolDown \/ BackendChanges

Spec == Init /\ [][Next]_vars

(***************************************************************************)
(* Fairness: time passes; an admitted call ends (the driver's sockets and  *)
(* its acquisition timeout bound it); requests keep arriving.  Nothing is  *)
(* assumed of the backend, of cancellation or of the operator.             *)
(***************************************************************************)
Returns(c) == Succeed(c) \/ Fail(c)

Fairness ==
  /\ WF_vars(CoolDown)
  /\ \A c \in Callers : WF_vars(Returns(c)) /\ WF_vars(Call(c))

FairSpec == Spec /\ Fairness
-----------------------------------------------------------------------------
(***************************************************************************)
(* The probe counter is exactly the probes of this period that are still   *)
(* running plus those that were cancelled: nothing else of the period can  *)
(* be outstanding, because the first result of any call ends the period.   *)
(***************************************************************************)
ProbeAccounting ==
  /\ probes \subseteq Running
  /\ state = "HALF_OPEN" => halfOpenCalls = Cardinality(probes) + abandoned
  /\ state # "HALF_OPEN" => probes = {} /\ abandoned = 0 /\ halfOpenCalls = 0

(***************************************************************************)
(* A half-open breaker always has a probe out, or has lost one to a        *)
(* cancellation: HALF_OPEN has no timer of its own, so a probe's result is *)
(* the only way it is left without an operator.                            *)
(***************************************************************************)
HalfOpenIsWaiting == state = "HALF_OPEN" => probes # {} \/ abandoned > 0

(***************************************************************************)
(* A CLOSED breaker is below its threshold: results of calls admitted in   *)
(* an earlier period cannot leave it closed with a spent failure budget.   *)
(***************************************************************************)
ClosedBelowThreshold == state = "CLOSED" => consecutiveFailures < FailureThreshold

(***************************************************************************)
(* The backend is shielded: a call starts only in CLOSED, or as a probe    *)
(* within the budget after the cooldown of the last opening is over.       *)
(***************************************************************************)
OpenShields ==
  \A c \in Callers :
    call[c] # "running" /\ call'[c] = "running" =>
      \/ state = "CLOSED"
      \/ /\ state = "HALF_OPEN" \/ (state = "OPEN" /\ cooled)
         /\ state' = "HALF_OPEN"
         /\ Cardinality(probes') + abandoned' <= HalfOpenMaxCalls

OpenShieldsBackend == [][OpenShields]_vars

(***************************************************************************)
(* The breaker never opens on a success and never closes on a failure, and *)
(* OPEN reaches CLOSED only through HALF_OPEN unless an operator forces it.*)
(***************************************************************************)
TransitionsAreEarned ==
  [][interventions' = interventions =>
       /\ state = "OPEN" => state' \in {"OPEN", "HALF_OPEN"}
       /\ state # "OPEN" /\ state' = "OPEN" =>
            \E c \in Callers : call[c] = "running" /\ call'[c] = "error"
       /\ state = "HALF_OPEN" /\ state' = "CLOSED" =>
            \E c \in Callers : call[c] = "running" /\ call'[c] = "ok"]_vars

(***************************************************************************)
(* Self-healing despite cancellation: the only thing that keeps a breaker  *)
(* from closing on a healthy backend is a probe budget that was lost whole *)
(* to cancelled probes.                                                    *)
(***************************************************************************)
HealsUnlessProbesLost ==
  <>[](backend = "up") => []<>(state = "CLOSED" \/ abandoned = HalfOpenMaxCalls)
=============================================================================
