------------------------------- MODULE GDSWaves -------------------------------
(***************************************************************************)
(* The execution waves of a domain's GDS jobs: Kahn's algorithm as         *)
(* GDSScheduler._build_execution_dag runs it (engine/gds/scheduler.py).    *)
(*                                                                         *)
(* The nodes of the graph are algorithms, not jobs: depends_on names       *)
(* algorithms, and the edges of all jobs of one algorithm are counted      *)
(* together.  A list of dependencies is a set here, and a name that no job *)
(* has is a member of Algorithms that no job uses.  One step is one round  *)
(* of the while loop.                                                      *)
(***************************************************************************)
EXTENDS Naturals, Sequences, FiniteSets

CONSTANTS
  Jobs,       \* the jobs of the domain spec
  Algorithms  \* the names a job may have as its algorithm or depend on

ASSUME WavesAssumption == IsFiniteSet(Jobs) /\ IsFiniteSet(Algorithms)

VARIABLES
  algorithm,   \* the algorithm of each job
  depends_on,  \* the algorithms each job depends on
  in_degree,   \* per algorithm: edges from algorithms that have no wave yet
  queue,       \* the next wave
  waves,       \* the waves so far
  fallback,    \* the algorithms put into the fallback wave
  done         \* the function has returned

spec == <<algorithm, depends_on>>
vars == <<spec, in_degree, queue, waves, fallback, done>>

Present == {algorithm[j] : j \in Jobs}

\* The edges that lead from the algorithms in S to a.
Edges(a, S) == {e \in Jobs \X S : algorithm[e[1]] = a /\ e[2] \in depends_on[e[1]]}

\* The algorithms that have a proper wave.
Placed == UNION {waves[i] : i \in DOMAIN waves}

TypeOK ==
  /\ algorithm \in [Jobs -> Algorithms]
  /\ depends_on \in [Jobs -> SUBSET Algorithms]
  /\ in_degree \in [Present -> Nat]
  /\ queue \in SUBSET Present
  /\ waves \in Seq(SUBSET Present)
  /\ fallback \in SUBSET Present
  /\ done \in BOOLEAN

\* Mutant: dependencies on names that no job has are counted, too.
InitCountsUnknown ==
  /\ algorithm \in [Jobs -> Algorithms]
  /\ depends_on \in [Jobs -> SUBSET Algorithms]
  /\ in_degree = [a \in Present |-> Cardinality(Edges(a, Algorithms))]
  /\ queue = {a \in Present : in_degree[a] = 0}
  /\ waves = <<>>
  /\ fallback = {}
  /\ done = FALSE

Init ==
  /\ algorithm \in [Jobs -> Algorithms]
  /\ depends_on \in [Jobs -> SUBSET Algorithms]
  /\ in_degree = [a \in Present |-> Cardinality(Edges(a, Present))]
  /\ queue = {a \in Present : in_degree[a] = 0}
  /\ waves = <<>>
  /\ fallback = {}
  /\ done = FALSE

\* Mutant: an algorithm enters the next wave with its first dependency.
PlaceWaveEagerly ==
  /\ queue # {}
  /\ waves' = Append(waves, queue)
  /\ in_degree' = [a \in Present |-> in_degree[a] - Cardinality(Edges(a, queue))]
  /\ queue' = {a \in Present : in_degree'[a] < in_degree[a]}
  /\ UNCHANGED <<spec, fallback, done>>

\* The queue becomes a wave; who waited for nothing else is queued next.
PlaceWave ==
  /\ queue # {}
  /\ waves' = Append(waves, queue)
  /\ in_degree' = [a \in Present |-> in_degree[a] - Cardinality(Edges(a, queue))]
  /\ queue' = {a \in Present : in_degree[a] > 0 /\ in_degree'[a] = 0}
  /\ UNCHANGED <<spec, fallback, done>>

\* Mutant: the members of a cycle are dropped.
ReturnWithoutCycles ==
  /\ queue = {} /\ ~done
  /\ UNCHANGED fallback
  /\ done' = TRUE
  /\ UNCHANGED <<spec, in_degree, queue, waves>>

\* What has no wave goes to the fallback wave at the end.
Return ==
  /\ queue = {} /\ ~done
  /\ fallback' = Present \ Placed
  /\ done' = TRUE
  /\ UNCHANGED <<spec, in_degree, queue, waves>>

Next == PlaceWave \/ Return

Spec == Init /\ [][Next]_vars

\* The function runs to its end without waiting.
FairSpec == Spec /\ WF_vars(Next)
-----------------------------------------------------------------------------
(***************************************************************************)
(* The bookkeeping of the loop: in_degree counts the edges from algorithms *)
(* that have no wave, and the queue holds who waits for nobody.            *)
(***************************************************************************)
Counted ==
  /\ \A a \in Present : in_degree[a] = Cardinality(Edges(a, Present \ Placed))
  /\ queue = {a \in Present \ Placed : in_degree[a] = 0}

(***************************************************************************)
(* "Wave N completes before wave N+1 starts": an algorithm has a later     *)
(* wave than every algorithm that one of its jobs depends on.              *)
(***************************************************************************)
DependenciesFirst ==
  \A i \in DOMAIN waves : \A j \in Jobs :
    algorithm[j] \in waves[i] =>
      \A d \in depends_on[j] \cap Present : \E k \in 1..(i - 1) : d \in waves[k]

(***************************************************************************)
(* No algorithm has two waves.                                             *)
(***************************************************************************)
OneWaveEach == \A i, k \in DOMAIN waves : i # k => waves[i] \cap waves[k] = {}

(***************************************************************************)
(* Only cycles end in the fallback wave: each of its algorithms depends on *)
(* another member, so without a cycle the fallback wave is empty.          *)
(***************************************************************************)
FallbackMeansCycle ==
  \A a \in fallback : \E j \in Jobs :
    algorithm[j] = a /\ depends_on[j] \cap fallback # {}

(***************************************************************************)
(* The loop ends, also for cyclic dependencies, and leaves no algorithm    *)
(* out.                                                                    *)
(***************************************************************************)
EndsComplete == <>(done /\ Placed \cup fallback = Present)
=============================================================================
