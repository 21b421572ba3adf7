------------------------ MODULE CircuitBreakerMetrics ------------------------
(***************************************************************************)
(* CircuitBreaker with the total_* counters that get_metrics() reports:    *)
(* every step of the breaker together with the counters it updates.        *)
(***************************************************************************)
EXTENDS CircuitBreaker

CONSTANT MaxCalls  \* bound on the calls made

ASSUME MaxCallsAssumption == MaxCalls \in Nat

VARIABLES
  totalCalls, totalSuccesses, totalFailures, totalRejections,
  made,       \* calls made since the start (the bound counts these)
  cancelled,  \* history: calls cancelled since the last reset_metrics
  carried     \* history: calls running at the last reset_metrics

totals == <<totalCalls, totalSuccesses, totalFailures, totalRejections>>
metricVars == <<totals, made, cancelled, carried>>
allVars == <<vars, metricVars>>

MetricsInit ==
  /\ Init
  /\ totalCalls = 0 /\ totalSuccesses = 0
  /\ totalFailures = 0 /\ totalRejections = 0
  /\ made = 0 /\ cancelled = 0 /\ carried = 0

\* total_calls counts every call, total_rejections those refused under the lock.
CountedCall(c) ==
  /\ made < MaxCalls
  /\ Call(c)
  /\ made' = made + 1
  /\ totalCalls' = totalCalls + 1
  /\ totalRejections' =
       IF call'[c] = "circuit_open" THEN totalRejections + 1 ELSE totalRejections
  /\ UNCHANGED <<totalSuccesses, totalFailures, cancelled, carried>>

\* Mutant: a success is counted only if it closes or keeps closed the circuit.
CountedSuccessUnlessOpen(c) ==
  /\ Succeed(c)
  /\ totalSuccesses' = IF state = "OPEN" THEN totalSuccesses ELSE totalSuccesses + 1
  /\ UNCHANGED <<totalCalls, totalFailures, totalRejections, made, cancelled, carried>>

CountedSuccess(c) ==
  /\ Succeed(c)
  /\ totalSuccesses' = totalSuccesses + 1
  /\ UNCHANGED <<totalCalls, totalFailures, totalRejections, made, cancelled, carried>>

CountedFailure(c) ==
  /\ Fail(c)
  /\ totalFailures' = totalFailures + 1
  /\ UNCHANGED <<totalCalls, totalSuccesses, totalRejections, made, cancelled, carried>>

UncountedCancel(c) ==
  /\ Cancel(c)
  /\ cancelled' = cancelled + 1
  /\ UNCHANGED <<totals, made, carried>>

\* reset_metrics forgets the calls that are still running.
CountersReset ==
  /\ ResetMetrics
  /\ totalCalls' = 0 /\ totalSuccesses' = 0
  /\ totalFailures' = 0 /\ totalRejections' = 0
  /\ cancelled' = 0
  /\ carried' = Cardinality(Running)
  /\ UNCHANGED made

MetricsNext ==
  \/ \E c \in Callers : \/ CountedCall(c) \/ CountedSuccess(c)
                        \/ CountedFailure(c) \/ UncountedCancel(c)
  \/ CountersReset
  \/ /\ ForceOpen \/ ForceClose \/ CoolDown \/ BackendChanges
     /\ UNCHANGED metricVars

MetricsSpec == MetricsInit /\ [][MetricsNext]_allVars
-----------------------------------------------------------------------------
(***************************************************************************)
(* The books balance: every call since the last reset, and every call the  *)
(* reset left running, is a success, a failure, a rejection, still running *)
(* or cancelled, and is counted once, whatever state the breaker was in    *)
(* when its result came.                                                   *)
(***************************************************************************)
EveryCallAccounted ==
  totalCalls + carried =
    totalSuccesses + totalFailures + totalRejections
      + Cardinality(Running) + cancelled
=============================================================================
