--------------------------- MODULE OutcomeFeedback ---------------------------
(***************************************************************************)
(* The outcome feedback loop of one tenant: concurrent calls of            *)
(* handle_outcomes (engine/handlers.py), each of which writes an outcome   *)
(* node and then runs the convergence cycle of engine/feedback in          *)
(* the same request, one Cypher query at a time, and runs of the scheduled *)
(* job feedback_recalculation, which stores the same weights.  A query     *)
(* that fails, or whose request is cancelled, may have taken effect.       *)
(*                                                                         *)
(* An outcome is named by the call that wrote it.  The computed weights    *)
(* are not numbers here but the set of outcomes they were computed from,   *)
(* and a boost factor is the exponent of propagation_boost_factor.         *)
(* "created_at > max(updated_at)" is modelled by its effect: an outcome is *)
(* fresh until the next store of any weight.                               *)
(***************************************************************************)
EXTENDS OutcomeParameters

Dims == 1..NumDims
Kinds == {"success", "failure", "partial"}

VARIABLES
    pc,         \* what each call, or run of the job, does next
    kind,       \* its outcome
    candidate,  \* and the candidate it is about
    outcomes,   \* TransactionOutcome nodes
    fresh,      \* those created after the last store of a weight
    sample,     \* the outcomes a call's recalculation has read
    next,       \* the dimension it stores next
    by,         \* per DimensionWeight node: the call that stored it, None without a node
    boost,      \* its boost_factor
    late        \* history: outcomes recorded while a recalculation was under way

request == <<kind, candidate>>
graph == <<outcomes, fresh, by, boost>>
vars == <<pc, request, sample, next, graph, late>>

Init ==
    /\ pc = [c \in Calls |-> "new"]
    /\ kind = [c \in Calls |-> "partial"]
    /\ candidate \in [Calls -> Candidates]
    /\ outcomes = {}
    /\ fresh = {}
    /\ sample = [c \in Calls |-> {}]
    /\ next = [c \in Calls |-> 1]
    /\ by = [d \in Dims |-> None]
    /\ boost = [d \in Dims |-> 0]
    /\ late = {}

Goto(c, step) == pc' = [pc EXCEPT ![c] = step]

Recalculating == {r \in Calls : pc[r] = "store"}

\* The outcome node.
Record(c) ==
    /\ outcomes' = outcomes \cup {c}
    /\ fresh' = fresh \cup {c}
    /\ late' = IF Recalculating = {} THEN late ELSE late \cup {c}
    /\ UNCHANGED <<by, boost>>

\* ScorePropagator leaves a partial outcome alone.
CreateOutcome(c, k) ==
    /\ pc[c] = "new"
    /\ kind' = [kind EXCEPT ![c] = k]
    /\ Record(c)
    /\ Goto(c, IF k = "partial" THEN "check" ELSE "propagate")
    /\ UNCHANGED <<candidate, sample, next>>

\* The write fails or its request is cancelled, before or after its effect.
CreateFails(c) ==
    /\ pc[c] = "new"
    /\ Record(c) \/ UNCHANGED <<graph, late>>
    /\ Goto(c, "refused")
    /\ UNCHANGED <<request, sample, next>>

\* ScorePropagator: the MATCH yields a row per outcome of the candidate and
\* weight node, and SET multiplies once per row.
Boost(c) ==
    LET rows == Cardinality({o \in outcomes : candidate[o] = candidate[c]})
        sign == IF kind[c] = "success" THEN 1 ELSE -1
    IN  /\ pc[c] = "propagate"
        /\ boost' = [d \in Dims |-> IF by[d] = None THEN boost[d]
                                    ELSE boost[d] + sign * rows]
        /\ UNCHANGED <<outcomes, fresh, by, next>>

Propagate(c) ==
    /\ Boost(c)
    /\ Goto(c, "check")
    /\ UNCHANGED <<request, sample, late>>

\* Mutant: the threshold has to be exceeded.
MutDue == Cardinality(fresh) > MinOutcomes

\* should_recalculate
Due == Cardinality(fresh) >= MinOutcomes

Check(c) ==
    /\ pc[c] = "check"
    /\ Goto(c, IF Due THEN "totals" ELSE "drift")
    /\ UNCHANGED <<request, sample, next, graph, late>>

\* Mutant: the totals are those of before the call's own outcome.
MutTotals(c) == outcomes \ {c}

Totals(c) == outcomes

\* A run of the job recalculates whatever the count, and records no outcome.
StartJob(c) ==
    /\ pc[c] = "new"
    /\ Goto(c, "totals")
    /\ UNCHANGED <<request, sample, next, graph, late>>

\* recalculate_weights reads the totals (the reads per dimension change nothing);
\* without any outcome it stores nothing.
ReadTotals(c) ==
    /\ pc[c] = "totals"
    /\ sample' = [sample EXCEPT ![c] = Totals(c)]
    /\ Goto(c, IF Totals(c) = {} THEN "drift" ELSE "store")
    /\ UNCHANGED <<request, next, graph, late>>

\* _store_weights merges one node per query, in the order of the dimensions.
Store(c) ==
    /\ pc[c] = "store"
    /\ by' = [by EXCEPT ![next[c]] = c]
    /\ fresh' = {}
    /\ next' = [next EXCEPT ![c] = @ + 1]
    /\ UNCHANGED <<outcomes, boost>>

StoreWeight(c) ==
    /\ Store(c)
    /\ Goto(c, IF next[c] = NumDims THEN "drift" ELSE "store")
    /\ UNCHANGED <<request, sample, late>>

\* DriftDetector reads, and what follows the loop is not fatal: the call is answered,
\* and the run of the job ends.
Answer(c) ==
    /\ pc[c] = "drift"
    /\ Goto(c, "answered")
    /\ UNCHANGED <<request, sample, next, graph, late>>

\* A query of the loop fails or is cancelled, before or after its effect: the
\* exception leaves the handler, although the outcome is recorded.
LoopFails(c) ==
    /\ pc[c] \in {"propagate", "check", "totals", "store", "drift"}
    /\ Boost(c) \/ Store(c) \/ UNCHANGED <<graph, next>>
    /\ Goto(c, "failed")
    /\ UNCHANGED <<request, sample, late>>

Next ==
    \E c \in Calls :
        \/ \E k \in Kinds : CreateOutcome(c, k)
        \/ CreateFails(c)
        \/ StartJob(c)
        \/ Propagate(c)
        \/ Check(c)
        \/ ReadTotals(c)
        \/ StoreWeight(c)
        \/ Answer(c)
        \/ LoopFails(c)

Spec == Init /\ [][Next]_vars

-----------------------------------------------------------------------------
TypeOK ==
    /\ pc \in [Calls -> {"new", "refused", "propagate", "check", "totals", "store",
                         "drift", "answered", "failed"}]
    /\ kind \in [Calls -> Kinds]
    /\ candidate \in [Calls -> Candidates]
    /\ outcomes \in SUBSET Calls
    /\ fresh \in SUBSET outcomes
    /\ sample \in [Calls -> SUBSET outcomes]
    /\ next \in [Calls -> 1..(NumDims + 1)]
    /\ by \in [Dims -> Calls \cup {None}]
    /\ boost \in [Dims -> Int]
    /\ late \in SUBSET outcomes

\* Calls that still have to decide on, or carry out, a recalculation.
Pending == {c \in Calls : pc[c] \in {"propagate", "check", "totals", "store"}}

\* The trigger is never missed, however calls and jobs interleave: enough outcomes
\* are fresh only while a call whose outcome is one of them is on its way to the
\* recalculation, or has failed on it or on its write.
TriggerNotMissed ==
    Cardinality(fresh) >= MinOutcomes =>
        \E c \in fresh : c \in Pending \/ pc[c] \in {"refused", "failed"}

\* A recalculation that stops between two dimensions, or is at it now.
HalfStored(r, d) == pc[r] \in {"store", "failed"} /\ 1 < next[r] /\ next[r] <= d

\* An outcome escapes both a weight and the count towards the next
\* recalculation only when it was recorded while a recalculation was under
\* way, or when one has got only as far as an earlier dimension: the first
\* store alone resets the count for all of them.
ForgottenOnlyWhenLate ==
    \A o \in outcomes \ (fresh \cup late), d \in Dims :
        \/ by[d] # None /\ o \in sample[by[d]]
        \/ \E r \in Calls : HalfStored(r, d)
=============================================================================
