------------------------ MODULE CircuitBreaker_proofs ------------------------
(***************************************************************************)
(* Proofs about CircuitBreaker and, at the end, CircuitBreakerMetrics, for *)
(* every finite set of callers and every threshold, probe budget and bound *)
(* on interventions and calls.                                             *)
(***************************************************************************)
EXTENDS CircuitBreakerMetrics, FiniteSetTheorems, TLAPS

USE ThresholdAssumption, HalfOpenAssumption, CancelAssumption, InterventionsAssumption

(***************************************************************************)
(* The inductive invariant.  ProbeAccounting alone is not inductive: the   *)
(* bound on abandoned needs the exact count of the running probes, and     *)
(* that a half-open breaker has counted its first probe is what makes      *)
(* HalfOpenIsWaiting follow.                                               *)
(***************************************************************************)
FirstProbeCounted == state = "HALF_OPEN" => halfOpenCalls >= 1

IInv == TypeOK /\ ProbeAccounting /\ FirstProbeCounted /\ ClosedBelowThreshold

(***************************************************************************)
(* What the set of probes does to its cardinality.                         *)
(***************************************************************************)
LEMMA ProbesFinite ==
  ASSUME TypeOK
  PROVE  IsFiniteSet(probes) /\ Cardinality(probes) \in Nat
BY CallersAssumption, FS_Subset, FS_CardinalityType DEF TypeOK

\* Admitting a new probe counts one more.
LEMMA AddProbe ==
  ASSUME TypeOK, NEW c, c \notin probes
  PROVE  Cardinality(probes \cup {c}) = Cardinality(probes) + 1
BY ProbesFinite, FS_AddElement

\* A probe that ends counts one less.
LEMMA RemoveProbe ==
  ASSUME TypeOK, NEW c, c \in probes
  PROVE  Cardinality(probes \ {c}) = Cardinality(probes) - 1
BY ProbesFinite, FS_RemoveElement

(***************************************************************************)
(* Every transition starts a period without probes.                        *)
(***************************************************************************)
LEMMA TransitionKeepsInv ==
  ASSUME IInv, NEW new \in {"OPEN", "CLOSED"}, NEW n \in 0..FailureThreshold,
         TransitionTo(new, n), call' \in [Callers -> CallStatus],
         backend' \in {"up", "down"}, interventions' \in 0..MaxInterventions
  PROVE  IInv'
<1>1. cooled' \in BOOLEAN
  <2>1. CASE new = "OPEN"
    BY <2>1 DEF TransitionTo
  <2>2. CASE new # "OPEN"
    BY <2>2 DEF IInv, TypeOK, TransitionTo
  <2>3. QED
    BY <2>1, <2>2
<1>2. /\ state' \in BreakerState
      /\ consecutiveFailures' \in 0..FailureThreshold
      /\ halfOpenCalls' \in 0..HalfOpenMaxCalls
      /\ abandoned' \in 0..HalfOpenMaxCalls
      /\ probes' \in SUBSET Callers
  BY DEF TransitionTo, BreakerState
<1>3. TypeOK'
  BY <1>1, <1>2 DEF TypeOK
<1>4. ProbeAccounting'
  BY DEF TransitionTo, ProbeAccounting, Running
<1>5. FirstProbeCounted' /\ ClosedBelowThreshold'
  BY DEF TransitionTo, FirstProbeCounted, ClosedBelowThreshold
<1>6. QED
  BY <1>3, <1>4, <1>5 DEF IInv

\* Admission and rejection (call) keep the invariant.
LEMMA CallKeepsInv ==
  ASSUME IInv, NEW c \in Callers, Call(c)
  PROVE  IInv'
<1>1. CASE Reject(c) \/ AdmitClosed(c)
  <2>1. TypeOK'
    BY <1>1 DEF IInv, TypeOK, Reject, AdmitClosed, Finish, CallStatus, breakerVars, historyVars
  <2>2. ProbeAccounting'
    BY <1>1 DEF IInv, TypeOK, ProbeAccounting, Reject, AdmitClosed, Finish, Running,
                breakerVars, historyVars
  <2>3. FirstProbeCounted' /\ ClosedBelowThreshold'
    BY <1>1 DEF IInv, FirstProbeCounted, ClosedBelowThreshold, Reject, AdmitClosed,
                breakerVars, historyVars
  <2>4. QED
    BY <2>1, <2>2, <2>3 DEF IInv
<1>2. CASE AdmitFirstProbe(c)
  <2>1. TypeOK'
    BY <1>2 DEF IInv, TypeOK, AdmitFirstProbe, Finish, BreakerState, CallStatus
  <2>2. Cardinality({c}) = 1
    BY FS_Singleton
  <2>3. ProbeAccounting'
    BY <1>2, <2>2 DEF IInv, TypeOK, ProbeAccounting, AdmitFirstProbe, Finish, Running
  <2>4. FirstProbeCounted' /\ ClosedBelowThreshold'
    BY <1>2 DEF FirstProbeCounted, ClosedBelowThreshold, AdmitFirstProbe
  <2>5. QED
    BY <2>1, <2>3, <2>4 DEF IInv
<1>3. CASE AdmitProbe(c)
  <2>1. TypeOK'
    BY <1>3 DEF IInv, TypeOK, AdmitProbe, MustReject, Finish, BreakerState, CallStatus
  <2>2. c \notin probes
    BY <1>3 DEF IInv, ProbeAccounting, Running, AdmitProbe
  <2>3. Cardinality(probes') = Cardinality(probes) + 1
    BY <1>3, <2>2, AddProbe DEF IInv, AdmitProbe
  <2>4. Cardinality(probes) \in Nat
    BY ProbesFinite DEF IInv
  <2>5. probes' \subseteq Running'
    BY <1>3 DEF IInv, TypeOK, ProbeAccounting, AdmitProbe, Finish, Running
  <2>6. ProbeAccounting'
    BY <1>3, <2>3, <2>4, <2>5 DEF IInv, TypeOK, ProbeAccounting, AdmitProbe
  <2>7. FirstProbeCounted' /\ ClosedBelowThreshold'
    BY <1>3 DEF IInv, TypeOK, FirstProbeCounted, ClosedBelowThreshold, AdmitProbe
  <2>8. QED
    BY <2>1, <2>6, <2>7 DEF IInv
<1>4. QED
  BY <1>1, <1>2, <1>3 DEF Call

\* A result, early or late, keeps the invariant (_on_success).
LEMMA SucceedKeepsInv ==
  ASSUME IInv, NEW c \in Callers, Succeed(c)
  PROVE  IInv'
<1>1. call' \in [Callers -> CallStatus] /\ UNCHANGED <<backend, interventions>>
  BY DEF IInv, TypeOK, Succeed, Finish, CallStatus
<1>2. CASE state = "HALF_OPEN"
  <2>1. TransitionTo("CLOSED", consecutiveFailures)
    BY <1>2 DEF Succeed
  <2>2. QED
    BY <1>1, <2>1, TransitionKeepsInv DEF IInv, TypeOK
<1>3. CASE state # "HALF_OPEN"
  <2>1. UNCHANGED <<state, halfOpenCalls, cooled, historyVars>>
    BY <1>3 DEF Succeed, breakerVars
  <2>2. consecutiveFailures' \in {0, consecutiveFailures}
    BY <1>3 DEF Succeed, breakerVars
  <2>3. TypeOK'
    BY <1>1, <2>1, <2>2 DEF IInv, TypeOK, historyVars
  <2>4. ProbeAccounting'
    BY <1>3, <2>1 DEF IInv, ProbeAccounting, historyVars, Running
  <2>5. FirstProbeCounted' /\ ClosedBelowThreshold'
    BY <2>1, <2>2 DEF IInv, FirstProbeCounted, ClosedBelowThreshold
  <2>6. QED
    BY <2>3, <2>4, <2>5 DEF IInv
<1>4. QED
  BY <1>2, <1>3

\* A failure, early or late, keeps the invariant (_on_failure).
LEMMA FailKeepsInv ==
  ASSUME IInv, NEW c \in Callers, Fail(c)
  PROVE  IInv'
<1>1. call' \in [Callers -> CallStatus] /\ UNCHANGED <<backend, interventions>>
  BY DEF IInv, TypeOK, Fail, Finish, CallStatus
<1>2. BumpedFailures \in 0..FailureThreshold
  BY DEF IInv, TypeOK, BumpedFailures
<1>3. CASE Trips
  <2>1. TransitionTo("OPEN", BumpedFailures)
    BY <1>3 DEF Fail
  <2>2. QED
    BY <1>1, <1>2, <2>1, TransitionKeepsInv DEF IInv, TypeOK
<1>4. CASE ~Trips
  <2>1. /\ UNCHANGED <<state, halfOpenCalls, cooled, historyVars>>
        /\ consecutiveFailures' = BumpedFailures
    BY <1>4 DEF Fail
  <2>2. TypeOK'
    BY <1>1, <1>2, <2>1 DEF IInv, TypeOK, historyVars
  <2>3. ProbeAccounting'
    BY <1>4, <2>1 DEF IInv, ProbeAccounting, historyVars, Running, Trips
  <2>4. FirstProbeCounted' /\ ClosedBelowThreshold'
    BY <1>2, <1>4, <2>1 DEF IInv, FirstProbeCounted, ClosedBelowThreshold, Trips
  <2>5. QED
    BY <2>2, <2>3, <2>4 DEF IInv
<1>5. QED
  BY <1>3, <1>4

(***************************************************************************)
(* A cancelled probe moves from the running probes to the abandoned ones,  *)
(* so the sum that equals the counter does not change.                     *)
(***************************************************************************)
LEMMA CancelKeepsInv ==
  ASSUME IInv, NEW c \in Callers, Cancel(c)
  PROVE  IInv'
<1>1. call' \in [Callers -> CallStatus]
  BY DEF IInv, TypeOK, Cancel, Finish, CallStatus
<1>2. probes' \subseteq Running'
  BY DEF IInv, TypeOK, ProbeAccounting, Cancel, Finish, Running
<1>3. Cardinality(probes) \in Nat
  BY ProbesFinite DEF IInv
<1>4. CASE c \in probes
  <2>1. state = "HALF_OPEN"
    BY <1>4 DEF IInv, ProbeAccounting
  <2>2. Cardinality(probes') = Cardinality(probes) - 1
    BY <1>4, RemoveProbe DEF IInv, Cancel
  <2>3. Cardinality(probes') \in Nat
    <3>1. IsFiniteSet(probes \ {c})
      BY ProbesFinite, FS_Subset DEF IInv
    <3>2. QED
      BY <3>1, FS_CardinalityType DEF Cancel
  <2>4. abandoned' = abandoned + 1
    BY <1>4 DEF Cancel
  <2>5. UNCHANGED <<breakerVars, backend, interventions>>
    BY DEF Cancel
  <2>6. abandoned' \in 0..HalfOpenMaxCalls
    BY <1>3, <2>1, <2>2, <2>3, <2>4 DEF IInv, TypeOK, ProbeAccounting
  <2>7. TypeOK'
    BY <1>1, <2>5, <2>6 DEF IInv, TypeOK, Cancel, breakerVars
  <2>8. ProbeAccounting'
    BY <1>2, <1>3, <2>1, <2>2, <2>4, <2>5 DEF IInv, TypeOK, ProbeAccounting, breakerVars
  <2>9. FirstProbeCounted' /\ ClosedBelowThreshold'
    BY <2>5 DEF IInv, FirstProbeCounted, ClosedBelowThreshold, breakerVars
  <2>10. QED
    BY <2>7, <2>8, <2>9 DEF IInv
<1>5. CASE c \notin probes
  <2>1. probes' = probes /\ abandoned' = abandoned
    BY <1>5 DEF Cancel
  <2>2. UNCHANGED <<breakerVars, backend, interventions>>
    BY DEF Cancel
  <2>3. TypeOK'
    BY <1>1, <2>1, <2>2 DEF IInv, TypeOK, breakerVars
  <2>4. ProbeAccounting'
    BY <1>2, <2>1, <2>2 DEF IInv, ProbeAccounting, breakerVars
  <2>5. FirstProbeCounted' /\ ClosedBelowThreshold'
    BY <2>2 DEF IInv, FirstProbeCounted, ClosedBelowThreshold, breakerVars
  <2>6. QED
    BY <2>3, <2>4, <2>5 DEF IInv
<1>6. QED
  BY <1>4, <1>5

(***************************************************************************)
(* Operator calls, the clock and the environment.                          *)
(***************************************************************************)
LEMMA ControlsKeepInv ==
  ASSUME IInv, ForceOpen \/ ForceClose \/ ResetMetrics \/ CoolDown \/ BackendChanges
  PROVE  IInv'
<1>1. CASE ForceOpen \/ ForceClose
  <2>1. /\ call' \in [Callers -> CallStatus]
        /\ backend' \in {"up", "down"}
        /\ interventions' \in 0..MaxInterventions
    BY <1>1 DEF IInv, TypeOK, ForceOpen, ForceClose, Intervene
  <2>2. consecutiveFailures \in 0..FailureThreshold
    BY DEF IInv, TypeOK
  <2>3. QED
    BY <1>1, <2>1, <2>2, TransitionKeepsInv DEF ForceOpen, ForceClose
<1>2. CASE ResetMetrics \/ CoolDown \/ BackendChanges
  <2>1. TypeOK'
    <3>1. CASE ResetMetrics
      BY <3>1 DEF IInv, TypeOK, ResetMetrics, Intervene, historyVars
    <3>2. CASE CoolDown
      <4>1. cooled' \in BOOLEAN
        BY <3>2 DEF CoolDown
      <4>2. QED
        BY <3>2, <4>1 DEF IInv, TypeOK, CoolDown, historyVars
    <3>3. CASE BackendChanges
      BY <3>3 DEF IInv, TypeOK, BackendChanges, breakerVars, historyVars
    <3>4. QED
      BY <1>2, <3>1, <3>2, <3>3
  <2>2. ProbeAccounting'
    BY <1>2 DEF IInv, ProbeAccounting, Running, ResetMetrics, Intervene, CoolDown,
                BackendChanges, breakerVars, historyVars
  <2>3. FirstProbeCounted' /\ ClosedBelowThreshold'
    BY <1>2 DEF IInv, FirstProbeCounted, ClosedBelowThreshold, ResetMetrics, Intervene,
                CoolDown, BackendChanges, breakerVars, historyVars
  <2>4. QED
    BY <2>1, <2>2, <2>3 DEF IInv
<1>3. QED
  BY <1>1, <1>2

\* A new breaker satisfies the invariant (__init__).
LEMMA InitEstablishesInv == Init => IInv
<1> SUFFICES ASSUME Init PROVE IInv
  OBVIOUS
<1>1. TypeOK
  <2>1. cooled \in BOOLEAN
    BY DEF Init
  <2>2. /\ state \in BreakerState
        /\ consecutiveFailures \in 0..FailureThreshold
        /\ halfOpenCalls \in 0..HalfOpenMaxCalls
        /\ call \in [Callers -> CallStatus]
        /\ probes \in SUBSET Callers
        /\ abandoned \in 0..HalfOpenMaxCalls
        /\ backend \in {"up", "down"}
        /\ interventions \in 0..MaxInterventions
    BY DEF Init, BreakerState, CallStatus
  <2>3. QED
    BY <2>1, <2>2 DEF TypeOK
<1>2. ProbeAccounting /\ FirstProbeCounted /\ ClosedBelowThreshold
  BY DEF Init, ProbeAccounting, FirstProbeCounted, ClosedBelowThreshold
<1>3. QED
  BY <1>1, <1>2 DEF IInv

\* Every step keeps the invariant.
LEMMA NextKeepsInv == IInv /\ [Next]_vars => IInv'
<1> SUFFICES ASSUME IInv, [Next]_vars PROVE IInv'
  OBVIOUS
<1>1. CASE \E c \in Callers : Call(c) \/ Succeed(c) \/ Fail(c) \/ Cancel(c)
  BY <1>1, CallKeepsInv, SucceedKeepsInv, FailKeepsInv, CancelKeepsInv
<1>2. CASE ForceOpen \/ ForceClose \/ ResetMetrics \/ CoolDown \/ BackendChanges
  BY <1>2, ControlsKeepInv
<1>3. CASE UNCHANGED vars
  BY <1>3 DEF IInv, TypeOK, ProbeAccounting, Running, FirstProbeCounted,
              ClosedBelowThreshold, vars
<1>4. QED
  BY <1>1, <1>2, <1>3 DEF Next

(***************************************************************************)
(* The inductive invariant holds in every reachable state.                 *)
(***************************************************************************)
THEOREM InductiveInvariant == Spec => []IInv
BY InitEstablishesInv, NextKeepsInv, PTL DEF Spec

(***************************************************************************)
(* Type correctness: in particular never more than half_open_max_calls     *)
(* probes are counted, and no more than that are ever lost in a period.    *)
(***************************************************************************)
THEOREM TypeCorrect == Spec => []TypeOK
<1>1. IInv => TypeOK
  BY DEF IInv
<1>2. QED
  BY <1>1, InductiveInvariant, PTL

(***************************************************************************)
(* The probe counter is exactly the running and the cancelled probes of    *)
(* this half-open period.                                                  *)
(***************************************************************************)
THEOREM ProbesAccounted == Spec => []ProbeAccounting
<1>1. IInv => ProbeAccounting
  BY DEF IInv
<1>2. QED
  BY <1>1, InductiveInvariant, PTL

(***************************************************************************)
(* A half-open breaker waits for a running probe, or has lost one.         *)
(***************************************************************************)
THEOREM HalfOpenWaits == Spec => []HalfOpenIsWaiting
<1>1. ASSUME IInv PROVE HalfOpenIsWaiting
  <2>1. SUFFICES ASSUME state = "HALF_OPEN", probes = {} PROVE abandoned > 0
    BY DEF HalfOpenIsWaiting
  <2>2. Cardinality(probes) = 0
    BY <2>1, FS_EmptySet
  <2>3. QED
    BY <1>1, <2>1, <2>2 DEF IInv, TypeOK, ProbeAccounting, FirstProbeCounted
<1>2. QED
  BY <1>1, InductiveInvariant, PTL

(***************************************************************************)
(* A CLOSED breaker always has failures left before it trips.              *)
(***************************************************************************)
THEOREM ClosedHasBudget == Spec => []ClosedBelowThreshold
<1>1. IInv => ClosedBelowThreshold
  BY DEF IInv
<1>2. QED
  BY <1>1, InductiveInvariant, PTL

(***************************************************************************)
(* The backend is shielded while the circuit is open, and a half-open      *)
(* period never has more probes outstanding or lost than its budget.       *)
(***************************************************************************)
LEMMA StepShields == IInv /\ IInv' /\ [Next]_vars => [OpenShields]_vars
<1> SUFFICES ASSUME IInv, IInv', Next, NEW c \in Callers,
                    call[c] # "running", call'[c] = "running"
             PROVE  \/ state = "CLOSED"
                    \/ /\ state = "HALF_OPEN" \/ (state = "OPEN" /\ cooled)
                       /\ state' = "HALF_OPEN"
                       /\ Cardinality(probes') + abandoned' <= HalfOpenMaxCalls
  BY DEF OpenShields
<1>1. PICK d \in Callers : Call(d) \/ Succeed(d) \/ Fail(d) \/ Cancel(d)
  BY DEF Next, ForceOpen, ForceClose, ResetMetrics, Intervene, CoolDown, BackendChanges
<1>2. \E st \in CallStatus : call' = [call EXCEPT ![d] = st]
  BY <1>1 DEF Call, Reject, AdmitClosed, AdmitFirstProbe, AdmitProbe, Succeed, Fail,
              Cancel, Finish, CallStatus
<1>3. d = c
  BY <1>2 DEF IInv, TypeOK
<1>4. AdmitClosed(c) \/ AdmitFirstProbe(c) \/ AdmitProbe(c)
  BY <1>1, <1>3 DEF IInv, TypeOK, Call, Reject, Succeed, Fail, Cancel, Finish
<1>5. CASE AdmitClosed(c)
  BY <1>5 DEF AdmitClosed
<1>6. CASE AdmitFirstProbe(c) \/ AdmitProbe(c)
  <2>1. state' = "HALF_OPEN"
    BY <1>6 DEF AdmitFirstProbe, AdmitProbe
  <2>2. state = "HALF_OPEN" \/ (state = "OPEN" /\ cooled)
    BY <1>6 DEF AdmitFirstProbe, AdmitProbe, MustReject
  <2>3. Cardinality(probes') + abandoned' <= HalfOpenMaxCalls
    BY <2>1 DEF IInv, TypeOK, ProbeAccounting
  <2>4. QED
    BY <2>1, <2>2, <2>3
<1>7. QED
  BY <1>4, <1>5, <1>6

\* A call starts only in CLOSED, or as a budgeted probe once the cooldown is over.
THEOREM BackendShielded == Spec => OpenShieldsBackend
BY InductiveInvariant, StepShields, PTL DEF Spec, OpenShieldsBackend

(***************************************************************************)
(* Which steps of the callers change the state: a breaker that opens has   *)
(* just recorded an error, and one that closes has just recorded a success *)
(* in HALF_OPEN.                                                           *)
(***************************************************************************)
TransitionEarned ==
  interventions' = interventions =>
    /\ state = "OPEN" => state' \in {"OPEN", "HALF_OPEN"}
    /\ state # "OPEN" /\ state' = "OPEN" =>
         \E c \in Callers : call[c] = "running" /\ call'[c] = "error"
    /\ state = "HALF_OPEN" /\ state' = "CLOSED" =>
         \E c \in Callers : call[c] = "running" /\ call'[c] = "ok"

\* Every transition that no operator forces is earned (_on_success, _on_failure).
LEMMA StepIsEarned == IInv /\ [Next]_vars => [TransitionEarned]_vars
<1> SUFFICES ASSUME IInv, Next PROVE TransitionEarned
  OBVIOUS
<1>1. CASE \E c \in Callers : Call(c) \/ Cancel(c)
  BY <1>1 DEF TransitionEarned, Call, Reject, AdmitClosed, AdmitFirstProbe, AdmitProbe,
              Cancel, breakerVars
<1>2. ASSUME NEW c \in Callers, Succeed(c) PROVE TransitionEarned
  <2>1. call[c] = "running" /\ call'[c] = "ok"
    BY <1>2 DEF IInv, TypeOK, Succeed, Finish
  <2>2. CASE state = "HALF_OPEN"
    BY <1>2, <2>1, <2>2 DEF TransitionEarned, Succeed, TransitionTo
  <2>3. CASE state # "HALF_OPEN"
    BY <1>2, <2>3 DEF TransitionEarned, Succeed, breakerVars
  <2>4. QED
    BY <2>2, <2>3
<1>3. ASSUME NEW c \in Callers, Fail(c) PROVE TransitionEarned
  <2>1. call[c] = "running" /\ call'[c] = "error"
    BY <1>3 DEF IInv, TypeOK, Fail, Finish
  <2>2. CASE Trips
    BY <1>3, <2>1, <2>2 DEF TransitionEarned, Fail, TransitionTo, Trips
  <2>3. CASE ~Trips
    BY <1>3, <2>3 DEF TransitionEarned, Fail
  <2>4. QED
    BY <2>2, <2>3
<1>4. CASE ForceOpen \/ ForceClose \/ ResetMetrics
  BY <1>4 DEF IInv, TypeOK, TransitionEarned, ForceOpen, ForceClose, ResetMetrics, Intervene
<1>5. CASE CoolDown \/ BackendChanges
  BY <1>5 DEF TransitionEarned, CoolDown, BackendChanges, breakerVars
<1>6. QED
  BY <1>1, <1>2, <1>3, <1>4, <1>5 DEF Next

(***************************************************************************)
(* The breaker opens only on an error, closes only on a success, and       *)
(* leaves OPEN only for HALF_OPEN, unless an operator forces it.           *)
(***************************************************************************)
THEOREM TransitionsEarned == Spec => TransitionsAreEarned
BY InductiveInvariant, StepIsEarned, PTL DEF Spec, TransitionsAreEarned, TransitionEarned

-----------------------------------------------------------------------------
(***************************************************************************)
(* The counters.  Each one only ever counts, and the running calls are the *)
(* only part of the sum that is not a counter.                             *)
(***************************************************************************)
CountersOK ==
  /\ totalCalls \in Nat /\ totalSuccesses \in Nat
  /\ totalFailures \in Nat /\ totalRejections \in Nat
  /\ made \in Nat /\ cancelled \in Nat /\ carried \in Nat

BooksInv == IInv /\ CountersOK /\ EveryCallAccounted

\* The running calls are finitely many, so their number is a natural number.
LEMMA RunningFinite == IsFiniteSet(Running) /\ Cardinality(Running) \in Nat
BY CallersAssumption, FS_Subset, FS_CardinalityType DEF Running

\* A call that starts is one more running call.
LEMMA StartCountsOne ==
  ASSUME TypeOK, NEW c \in Callers, call[c] # "running", Finish(c, "running")
  PROVE  Cardinality(Running') = Cardinality(Running) + 1
<1>1. Running' = Running \cup {c} /\ c \notin Running
  BY DEF TypeOK, Finish, Running
<1>2. QED
  BY <1>1, RunningFinite, FS_AddElement

\* A call that ends is one running call less.
LEMMA EndCountsOne ==
  ASSUME TypeOK, NEW c \in Callers, NEW status \in CallStatus \ {"running"},
         call[c] = "running", Finish(c, status)
  PROVE  Cardinality(Running') = Cardinality(Running) - 1
<1>1. Running' = Running \ {c} /\ c \in Running
  BY DEF TypeOK, Finish, Running
<1>2. QED
  BY <1>1, RunningFinite, FS_RemoveElement

\* A rejected call was not running before and is not running after.
LEMMA RejectionCountsNone ==
  ASSUME TypeOK, NEW c \in Callers, call[c] # "running", Finish(c, "circuit_open")
  PROVE  Running' = Running
BY DEF TypeOK, Finish, Running

\* Counting changes nothing the breaker decides by: its steps are the breaker's.
LEMMA MetricsNextIsNext == [MetricsNext]_allVars => [Next]_vars
BY DEF MetricsNext, CountedCall, CountedSuccess, CountedFailure, UncountedCancel,
       CountersReset, Next, allVars

\* Admissions and rejections keep the books (total_calls, total_rejections).
LEMMA CountedCallKeepsBooks ==
  ASSUME BooksInv, NEW c \in Callers, CountedCall(c)
  PROVE  CountersOK' /\ EveryCallAccounted'
<1>1. /\ totalCalls' = totalCalls + 1 /\ made' = made + 1
      /\ UNCHANGED <<totalSuccesses, totalFailures, cancelled, carried>>
  BY DEF CountedCall
<1>2. Cardinality(Running) \in Nat
  BY RunningFinite
<1>3. CASE Reject(c)
  <2>1. call[c] # "running" /\ Finish(c, "circuit_open")
    BY <1>3 DEF Reject
  <2>2. Running' = Running
    BY <2>1, RejectionCountsNone DEF BooksInv, IInv
  <2>3. Cardinality(Running') = Cardinality(Running)
    BY <2>2
  <2>4. call'[c] = "circuit_open"
    BY <2>1 DEF BooksInv, IInv, TypeOK, Finish
  <2>5. totalRejections' = totalRejections + 1
    BY <2>4 DEF CountedCall
  <2>6. CountersOK'
    BY <1>1, <2>5 DEF BooksInv, CountersOK
  <2>7. EveryCallAccounted'
    BY <1>1, <1>2, <2>3, <2>5 DEF BooksInv, CountersOK, EveryCallAccounted
  <2>8. QED
    BY <2>6, <2>7
<1>4. CASE AdmitClosed(c) \/ AdmitFirstProbe(c) \/ AdmitProbe(c)
  <2>1. call[c] # "running" /\ Finish(c, "running")
    BY <1>4 DEF AdmitClosed, AdmitFirstProbe, AdmitProbe
  <2>2. Cardinality(Running') = Cardinality(Running) + 1
    BY <2>1, StartCountsOne DEF BooksInv, IInv
  <2>3. call'[c] = "running"
    BY <2>1 DEF BooksInv, IInv, TypeOK, Finish
  <2>4. totalRejections' = totalRejections
    BY <2>3 DEF CountedCall
  <2>5. QED
    BY <1>1, <1>2, <2>2, <2>4 DEF BooksInv, CountersOK, EveryCallAccounted
<1>5. QED
  BY <1>3, <1>4 DEF CountedCall, Call

\* Results and cancellations keep the books (_on_success, _on_failure).
LEMMA CountedEndKeepsBooks ==
  ASSUME BooksInv, NEW c \in Callers,
         CountedSuccess(c) \/ CountedFailure(c) \/ UncountedCancel(c)
  PROVE  CountersOK' /\ EveryCallAccounted'
<1>1. /\ call[c] = "running"
      /\ \E status \in CallStatus \ {"running"} : Finish(c, status)
  BY DEF CountedSuccess, CountedFailure, UncountedCancel, Succeed, Fail, Cancel, CallStatus
<1>2. Cardinality(Running') = Cardinality(Running) - 1
  BY <1>1, EndCountsOne DEF BooksInv, IInv
<1>3. Cardinality(Running) \in Nat
  BY RunningFinite
<1>4. CASE CountedSuccess(c)
  <2>1. /\ totalSuccesses' = totalSuccesses + 1
        /\ UNCHANGED <<totalCalls, totalFailures, totalRejections, made, cancelled, carried>>
    BY <1>4 DEF CountedSuccess
  <2>2. QED
    BY <1>2, <1>3, <2>1 DEF BooksInv, CountersOK, EveryCallAccounted
<1>5. CASE CountedFailure(c)
  <2>1. /\ totalFailures' = totalFailures + 1
        /\ UNCHANGED <<totalCalls, totalSuccesses, totalRejections, made, cancelled, carried>>
    BY <1>5 DEF CountedFailure
  <2>2. QED
    BY <1>2, <1>3, <2>1 DEF BooksInv, CountersOK, EveryCallAccounted
<1>6. CASE UncountedCancel(c)
  <2>1. /\ cancelled' = cancelled + 1
        /\ UNCHANGED <<totalCalls, totalSuccesses, totalFailures, totalRejections, made, carried>>
    BY <1>6 DEF UncountedCancel, totals
  <2>2. QED
    BY <1>2, <1>3, <2>1 DEF BooksInv, CountersOK, EveryCallAccounted
<1>7. QED
  BY <1>4, <1>5, <1>6

\* reset_metrics and the steps that count nothing keep the books.
LEMMA UncountedKeepsBooks ==
  ASSUME BooksInv,
         \/ CountersReset
         \/ (ForceOpen \/ ForceClose \/ CoolDown \/ BackendChanges) /\ UNCHANGED metricVars
         \/ UNCHANGED allVars
  PROVE  CountersOK' /\ EveryCallAccounted'
<1>1. Running' = Running
  BY DEF CountersReset, ResetMetrics, ForceOpen, ForceClose, Intervene, CoolDown,
         BackendChanges, Running, allVars, vars
<1>2. Cardinality(Running') = Cardinality(Running) /\ Cardinality(Running) \in Nat
  BY <1>1, RunningFinite
<1>3. CASE CountersReset
  <2>1. /\ totalCalls' = 0 /\ totalSuccesses' = 0
        /\ totalFailures' = 0 /\ totalRejections' = 0
        /\ cancelled' = 0 /\ carried' = Cardinality(Running) /\ made' = made
    BY <1>3 DEF CountersReset
  <2>2. QED
    BY <1>2, <2>1 DEF BooksInv, CountersOK, EveryCallAccounted
<1>4. CASE UNCHANGED metricVars
  BY <1>2, <1>4 DEF BooksInv, CountersOK, EveryCallAccounted, metricVars, totals
<1>5. QED
  BY <1>3, <1>4 DEF allVars

(***************************************************************************)
(* Every step of the metered breaker is one of the breaker (counters are   *)
(* conjoined to its actions), so that the theorems above hold of it too.   *)
(***************************************************************************)
LEMMA MetricsAreTransparent == MetricsSpec => Spec
<1>1. MetricsInit => Init
  BY DEF MetricsInit
<1>2. QED
  BY <1>1, MetricsNextIsNext, PTL DEF MetricsSpec, Spec

(***************************************************************************)
(* The books of get_metrics balance in every reachable state, for any      *)
(* number of callers and calls and wherever reset_metrics falls.           *)
(***************************************************************************)
THEOREM BooksBalance == MetricsSpec => []EveryCallAccounted
<1>1. MetricsInit => BooksInv
  <2> SUFFICES ASSUME MetricsInit PROVE BooksInv
    OBVIOUS
  <2>1. IInv
    BY InitEstablishesInv DEF MetricsInit
  <2>2. Running = {}
    BY DEF MetricsInit, Init, Running
  <2>3. Cardinality(Running) = 0
    BY <2>2, FS_EmptySet
  <2>4. CountersOK /\ EveryCallAccounted
    BY <2>3 DEF MetricsInit, CountersOK, EveryCallAccounted
  <2>5. QED
    BY <2>1, <2>4 DEF BooksInv
<1>2. BooksInv /\ [MetricsNext]_allVars => BooksInv'
  <2> SUFFICES ASSUME BooksInv, [MetricsNext]_allVars PROVE BooksInv'
    OBVIOUS
  <2>1. IInv'
    BY MetricsNextIsNext, NextKeepsInv DEF BooksInv
  <2>2. CountersOK' /\ EveryCallAccounted'
    BY CountedCallKeepsBooks, CountedEndKeepsBooks, UncountedKeepsBooks DEF MetricsNext
  <2>3. QED
    BY <2>1, <2>2 DEF BooksInv
<1>3. BooksInv => EveryCallAccounted
  BY DEF BooksInv
<1>4. QED
  BY <1>1, <1>2, <1>3, PTL DEF MetricsSpec
=============================================================================
