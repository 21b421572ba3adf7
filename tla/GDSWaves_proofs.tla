---------------------------- MODULE GDSWaves_proofs ----------------------------
(***************************************************************************)
(* Theorems about GDSWaves and their proofs.                               *)
(***************************************************************************)
EXTENDS GDSWaves, FiniteSetTheorems, TLAPS

(***************************************************************************)
(* The inductive invariant: the bookkeeping, the order of the waves, and   *)
(* what the function has returned.                                         *)
(***************************************************************************)
Returned ==
  IF done THEN queue = {} /\ fallback = Present \ Placed ELSE fallback = {}

IInv == TypeOK /\ Counted /\ DependenciesFirst /\ OneWaveEach /\ Returned

(***************************************************************************)
(* Edges are finite in number, and those from a part of S can be counted   *)
(* off.                                                                    *)
(***************************************************************************)
LEMMA EdgesFinite ==
  ASSUME TypeOK, NEW a, NEW S \in SUBSET Algorithms
  PROVE  IsFiniteSet(Edges(a, S)) /\ Cardinality(Edges(a, S)) \in Nat
<1>1. IsFiniteSet(S)
  BY WavesAssumption, FS_Subset
<1>2. IsFiniteSet(Jobs \X S)
  BY <1>1, WavesAssumption, FS_Product
<1>3. IsFiniteSet(Edges(a, S))
  BY <1>2, FS_Subset DEF Edges
<1>4. QED
  BY <1>3, FS_CardinalityType

\* Edges from a part of a set are counted once.
LEMMA EdgesSplit ==
  ASSUME TypeOK, NEW a, NEW S \in SUBSET Algorithms, NEW T \in SUBSET S
  PROVE  Cardinality(Edges(a, S \ T)) = Cardinality(Edges(a, S)) - Cardinality(Edges(a, T))
<1>1. Edges(a, S \ T) = Edges(a, S) \ Edges(a, T)
  BY DEF Edges
<1>2. Edges(a, S) \cap Edges(a, T) = Edges(a, T)
  BY DEF Edges
<1>3. IsFiniteSet(Edges(a, S))
  BY EdgesFinite
<1>4. Cardinality(Edges(a, S) \ Edges(a, T))
        = Cardinality(Edges(a, S)) - Cardinality(Edges(a, S) \cap Edges(a, T))
  BY <1>3, FS_Difference
<1>5. QED
  BY <1>1, <1>2, <1>4

\* A count of zero means that nothing of the set is depended on.
LEMMA NoEdges ==
  ASSUME TypeOK, NEW a, NEW S \in SUBSET Algorithms
  PROVE  Cardinality(Edges(a, S)) = 0 <=> \A j \in Jobs : algorithm[j] = a => depends_on[j] \cap S = {}
<1>1. Cardinality(Edges(a, S)) = 0 <=> Edges(a, S) = {}
  BY EdgesFinite, FS_EmptySet
<1>2. Edges(a, S) = {} <=> \A j \in Jobs : algorithm[j] = a => depends_on[j] \cap S = {}
  <2>1. ASSUME Edges(a, S) = {}, NEW j \in Jobs, algorithm[j] = a, NEW d \in depends_on[j] \cap S
        PROVE  FALSE
    <3>1. <<j, d>> \in Edges(a, S)
      BY <2>1 DEF Edges
    <3>2. QED
      BY <2>1, <3>1
  <2>2. ASSUME \A j \in Jobs : algorithm[j] = a => depends_on[j] \cap S = {}
        PROVE  Edges(a, S) = {}
    BY <2>2 DEF Edges
  <2>3. QED
    BY <2>1, <2>2
<1>3. QED
  BY <1>1, <1>2

\* The algorithms of jobs are algorithms.
LEMMA PresentKnown == TypeOK => Present \subseteq Algorithms
  BY DEF TypeOK, Present

(***************************************************************************)
(* Who has a wave waits for nobody.                                        *)
(***************************************************************************)
LEMMA PlacedWaitsForNobody == IInv => \A a \in Placed \cap Present : in_degree[a] = 0
<1> SUFFICES ASSUME IInv, NEW a \in Placed, a \in Present PROVE in_degree[a] = 0
  OBVIOUS
<1> USE DEF IInv
<1>1. PICK i \in DOMAIN waves : a \in waves[i]
  BY DEF Placed
<1>2. i \in Nat /\ i <= Len(waves)
  BY <1>1 DEF TypeOK
<1>3. ASSUME NEW j \in Jobs, algorithm[j] = a PROVE depends_on[j] \cap (Present \ Placed) = {}
  <2>1. \A d \in depends_on[j] \cap Present : \E k \in 1..(i - 1) : d \in waves[k]
    BY <1>1, <1>3 DEF DependenciesFirst
  <2>2. 1..(i - 1) \subseteq DOMAIN waves
    BY <1>2 DEF TypeOK
  <2>3. QED
    BY <2>1, <2>2 DEF Placed
<1>4. Cardinality(Edges(a, Present \ Placed)) = 0
  BY <1>3, NoEdges, PresentKnown
<1>5. QED
  BY <1>4 DEF Counted

\* Placing a wave keeps the counters in agreement with the edges.
LEMMA WaveStep == IInv /\ PlaceWave => IInv'
<1> SUFFICES ASSUME IInv, PlaceWave PROVE IInv'
  OBVIOUS
<1> USE DEF IInv
<1>1. /\ algorithm' = algorithm /\ depends_on' = depends_on /\ fallback' = fallback /\ done' = done
      /\ Present' = Present /\ \A a, S : Edges(a, S)' = Edges(a, S)
  BY DEF PlaceWave, spec, Present, Edges
<1>2. queue \subseteq Present /\ queue \cap Placed = {} /\ Present \subseteq Algorithms
  BY PresentKnown DEF Counted
<1>3. /\ waves' \in Seq(SUBSET Present) /\ Len(waves') = Len(waves) + 1
      /\ waves'[Len(waves) + 1] = queue
      /\ \A i \in 1..Len(waves) : waves'[i] = waves[i]
      /\ DOMAIN waves' = 1..(Len(waves) + 1) /\ DOMAIN waves = 1..Len(waves)
      /\ Len(waves) \in Nat
  BY <1>2 DEF PlaceWave, TypeOK
<1>4. Placed' = Placed \cup queue
  <2>1. ASSUME NEW x \in Placed' PROVE x \in Placed \cup queue
    <3>1. PICK i \in 1..(Len(waves) + 1) : x \in waves'[i]
      BY <1>3, <2>1 DEF Placed
    <3>2. CASE i = Len(waves) + 1
      BY <1>3, <3>1, <3>2
    <3>3. CASE i \in 1..Len(waves)
      BY <1>3, <3>1, <3>3 DEF Placed
    <3>4. QED
      BY <1>3, <3>1, <3>2, <3>3
  <2>2. ASSUME NEW x \in Placed PROVE x \in Placed'
    <3>1. PICK i \in 1..Len(waves) : x \in waves[i]
      BY <1>3, <2>2 DEF Placed
    <3>2. i \in DOMAIN waves' /\ x \in waves'[i]
      BY <1>3, <3>1
    <3>3. QED
      BY <3>2 DEF Placed
  <2>3. ASSUME NEW x \in queue PROVE x \in Placed'
    <3>1. Len(waves) + 1 \in DOMAIN waves' /\ x \in waves'[Len(waves) + 1]
      BY <1>3, <2>3
    <3>2. QED
      BY <3>1 DEF Placed
  <2>4. QED
    BY <2>1, <2>2, <2>3
<1>5. \A a \in Present : in_degree'[a] = Cardinality(Edges(a, Present \ Placed'))
  <2> SUFFICES ASSUME NEW a \in Present
               PROVE in_degree'[a] = Cardinality(Edges(a, Present \ Placed'))
    OBVIOUS
  <2>1. in_degree'[a] = Cardinality(Edges(a, Present \ Placed)) - Cardinality(Edges(a, queue))
    BY DEF PlaceWave, Counted
  <2>2. queue \in SUBSET (Present \ Placed) /\ Present \ Placed \in SUBSET Algorithms
    BY <1>2
  <2>3. Cardinality(Edges(a, (Present \ Placed) \ queue))
          = Cardinality(Edges(a, Present \ Placed)) - Cardinality(Edges(a, queue))
    BY <2>2, EdgesSplit
  <2>4. (Present \ Placed) \ queue = Present \ Placed'
    BY <1>4
  <2>5. QED
    BY <2>1, <2>3, <2>4
<1>6. in_degree' \in [Present -> Nat]
  <2>1. \A a \in Present : in_degree'[a] \in Nat
    BY <1>2, <1>5, EdgesFinite
  <2>2. in_degree' = [a \in Present |-> in_degree'[a]]
    BY DEF PlaceWave
  <2>3. QED
    BY <2>1, <2>2
<1>7. queue' = {a \in Present \ Placed' : in_degree'[a] = 0}
  <2>1. \A a \in Present : in_degree[a] \in Nat
    BY DEF TypeOK
  <2>2. \A a \in Present : in_degree[a] = 0 <=> a \in Placed \cup queue
    BY PlacedWaitsForNobody DEF Counted
  <2>3. \A a \in Present : in_degree[a] > 0 <=> a \notin Placed'
    BY <1>4, <2>1, <2>2
  <2>4. queue' = {a \in Present : in_degree[a] > 0 /\ in_degree'[a] = 0}
    BY DEF PlaceWave
  <2>5. QED
    BY <2>3, <2>4
<1>8. TypeOK'
  BY <1>1, <1>3, <1>6, <1>7 DEF TypeOK
<1>9. Counted'
  BY <1>1, <1>5, <1>7 DEF Counted
<1>10. DependenciesFirst'
  <2> SUFFICES ASSUME NEW i \in 1..(Len(waves) + 1), NEW j \in Jobs, algorithm[j] \in waves'[i],
                      NEW d \in depends_on[j] \cap Present
               PROVE  \E k \in 1..(i - 1) : d \in waves'[k]
    BY <1>1, <1>3 DEF DependenciesFirst
  <2>1. CASE i \in 1..Len(waves)
    <3>1. \E k \in 1..(i - 1) : d \in waves[k]
      BY <1>3, <2>1 DEF DependenciesFirst
    <3>2. QED
      BY <1>3, <2>1, <3>1
  <2>2. CASE i = Len(waves) + 1
    <3>1. algorithm[j] \in queue
      BY <1>3, <2>2
    <3>2. Cardinality(Edges(algorithm[j], Present \ Placed)) = 0
      BY <3>1 DEF Counted
    <3>3. depends_on[j] \cap (Present \ Placed) = {}
      BY <1>2, <3>2, NoEdges
    <3>4. d \in Placed
      BY <3>3
    <3>5. PICK k \in 1..Len(waves) : d \in waves[k]
      BY <1>3, <3>4 DEF Placed
    <3>6. QED
      BY <1>3, <2>2, <3>5
  <2>3. QED
    BY <1>3, <2>1, <2>2
<1>11. OneWaveEach'
  <2> SUFFICES ASSUME NEW i \in 1..(Len(waves) + 1), NEW k \in 1..(Len(waves) + 1), i < k
               PROVE  waves'[i] \cap waves'[k] = {}
    BY <1>3 DEF OneWaveEach
  <2>1. i \in 1..Len(waves) /\ waves'[i] = waves[i] /\ waves[i] \subseteq Placed
    BY <1>3 DEF Placed
  <2>2. CASE k \in 1..Len(waves)
    BY <1>3, <2>1, <2>2 DEF OneWaveEach
  <2>3. CASE k = Len(waves) + 1
    BY <1>2, <1>3, <2>1, <2>3
  <2>4. QED
    BY <1>3, <2>2, <2>3
<1>12. Returned'
  <2>1. ~done
    BY DEF PlaceWave, Returned
  <2>2. QED
    BY <1>1, <2>1 DEF Returned
<1>13. QED
  BY <1>8, <1>9, <1>10, <1>11, <1>12

(***************************************************************************)
(* The inductive invariant holds in every reachable state.                 *)
(***************************************************************************)
THEOREM Invariance == Spec => []IInv
<1>1. Init => IInv
  <2> SUFFICES ASSUME Init PROVE IInv
    OBVIOUS
  <2>1. Placed = {}
    BY DEF Init, Placed
  <2>2. Present \subseteq Algorithms
    BY DEF Init, Present
  <2>3. \A a \in Present : IsFiniteSet(Edges(a, Present))
    <3>1. IsFiniteSet(Jobs \X Present)
      BY <2>2, WavesAssumption, FS_Subset, FS_Product
    <3>2. \A a \in Present : Edges(a, Present) \in SUBSET (Jobs \X Present)
      BY DEF Edges
    <3>3. QED
      BY <3>1, <3>2, FS_Subset
  <2>4. \A a \in Present : Cardinality(Edges(a, Present)) \in Nat
    BY <2>3, FS_CardinalityType
  <2>5. TypeOK
    <3>1. in_degree = [a \in Present |-> Cardinality(Edges(a, Present))]
      BY DEF Init
    <3>2. in_degree \in [Present -> Nat]
      BY <2>4, <3>1
    <3>3. queue \in SUBSET Present /\ waves \in Seq(SUBSET Present)
          /\ fallback \in SUBSET Present /\ done \in BOOLEAN
      <4>1. queue \in SUBSET Present
        BY DEF Init
      <4>2. waves = <<>> /\ fallback = {} /\ done = FALSE
        BY DEF Init
      <4>3. waves \in Seq(SUBSET Present)
        BY <4>2
      <4>4. fallback \in SUBSET Present
        BY <4>2
      <4>5. QED
        BY <4>1, <4>2, <4>3, <4>4
    <3>4. algorithm \in [Jobs -> Algorithms] /\ depends_on \in [Jobs -> SUBSET Algorithms]
      BY DEF Init
    <3>5. QED
      BY <3>2, <3>3, <3>4 DEF TypeOK
  <2>6. Counted
    <3>0. Present \ Placed = Present
      BY <2>1
    <3>1. \A a \in Present : in_degree[a] = Cardinality(Edges(a, Present \ Placed))
      BY <3>0 DEF Init
    <3>2. queue = {a \in Present \ Placed : in_degree[a] = 0}
      BY <3>0 DEF Init
    <3>3. QED
      BY <3>1, <3>2 DEF Counted
  <2>7. DependenciesFirst /\ OneWaveEach /\ Returned
    BY DEF Init, DependenciesFirst, OneWaveEach, Returned
  <2>8. QED
    BY <2>5, <2>6, <2>7 DEF IInv
<1>2. IInv /\ Return => IInv'
  <2> SUFFICES ASSUME IInv, Return PROVE IInv'
    OBVIOUS
  <2>1. /\ Present' = Present /\ Placed' = Placed /\ \A a, S : Edges(a, S)' = Edges(a, S)
        /\ UNCHANGED <<algorithm, depends_on, in_degree, queue, waves>>
    BY DEF Return, spec, Present, Placed, Edges
  <2>2. TypeOK' /\ Returned'
    BY <2>1 DEF IInv, Return, TypeOK, Returned
  <2>3. Counted' /\ DependenciesFirst' /\ OneWaveEach'
    BY <2>1 DEF IInv, Counted, DependenciesFirst, OneWaveEach
  <2>4. QED
    BY <2>2, <2>3 DEF IInv
<1>3. IInv /\ UNCHANGED vars => IInv'
  BY DEF vars, spec, IInv, TypeOK, Counted, DependenciesFirst, OneWaveEach, Returned,
     Present, Placed, Edges
<1>4. QED
  BY <1>1, <1>2, <1>3, WaveStep, PTL DEF Spec, Next

(***************************************************************************)
(* The counters stay natural numbers and the waves are waves of known      *)
(* algorithms.                                                             *)
(***************************************************************************)
THEOREM TypeCorrect == Spec => []TypeOK
  BY Invariance, PTL DEF IInv

(***************************************************************************)
(* The counters always tell who can come next.                             *)
(***************************************************************************)
THEOREM Bookkeeping == Spec => []Counted
  BY Invariance, PTL DEF IInv

(***************************************************************************)
(* Dependencies come in earlier waves, for any set of jobs.                *)
(***************************************************************************)
THEOREM Ordered == Spec => []DependenciesFirst
  BY Invariance, PTL DEF IInv

(***************************************************************************)
(* No algorithm comes twice.                                               *)
(***************************************************************************)
THEOREM Once == Spec => []OneWaveEach
  BY Invariance, PTL DEF IInv

(***************************************************************************)
(* The fallback wave is the part of the graph in which everybody waits for *)
(* somebody else of it.                                                    *)
(***************************************************************************)
THEOREM OnlyCycles == Spec => []FallbackMeansCycle
<1>1. IInv => FallbackMeansCycle
  <2> SUFFICES ASSUME IInv, NEW a \in fallback
               PROVE  \E j \in Jobs : algorithm[j] = a /\ depends_on[j] \cap fallback # {}
    BY DEF FallbackMeansCycle
  <2>1. queue = {} /\ fallback = Present \ Placed
    BY DEF IInv, Returned
  <2>2. in_degree[a] # 0 /\ in_degree[a] = Cardinality(Edges(a, Present \ Placed))
    BY <2>1 DEF IInv, Counted
  <2>3. QED
    BY <2>1, <2>2, NoEdges, PresentKnown DEF IInv
<1>2. QED
  BY <1>1, Invariance, PTL
=============================================================================
