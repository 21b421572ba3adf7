-------------------------- MODULE DomainCache_proofs --------------------------
(***************************************************************************)
(* Theorems about DomainCache and their proofs.                            *)
(***************************************************************************)
EXTENDS DomainCache, FiniteSetTheorems, TLAPS

\* A missing entry is not mistaken for one.
LEMMA AbsentIsNoEntry == Absent \notin Entry
  BY CacheAssumption DEF Absent, Entry, Versions

(***************************************************************************)
(* The inductive invariant.  Busy: a caller in the middle of a load knows  *)
(* its domain, and a reader holds the lock and has its stat.  Versioned:   *)
(* the mtime of a file tells its content, an entry is never newer than its *)
(* file and never claims a later mtime than its content has, and so for    *)
(* what a reader has seen.  Gated: a task whose worker waits to begin      *)
(* holds its gate, unless it was cancelled.                                *)
(***************************************************************************)
Busy ==
  \A c \in Callers :
    /\ pc[c] # "idle" => goal[c] \in Domains
    /\ pc[c] = "reading" => seen[c] \in Entry /\ lock = c
    /\ c \in abandoned => pc[c] \in {"worker", "reading"}

Versioned ==
  /\ \A d \in Domains : file[d].mtime = file[d].content
  /\ \A d \in Cached : entry[d].mtime <= entry[d].content /\ entry[d].content <= file[d].content
  /\ \A c \in Callers : pc[c] = "reading" =>
       seen[c].mtime = seen[c].content /\ seen[c].content <= file[goal[c]].content

Gated == \A c \in Callers \ abandoned : pc[c] = "worker" => gate[goal[c]] = c

IInv == TypeOK /\ Busy /\ Versioned /\ Gated /\ StaleOnlyWithinTTL /\ NeverServesOlder

\* Every step keeps the types.
LEMMA TypeStep == IInv /\ [Next]_vars => TypeOK'
<1> SUFFICES ASSUME IInv, [Next]_vars PROVE TypeOK'
  OBVIOUS
<1> USE DEF IInv, TypeOK
<1>1. ASSUME NEW d \in Edited, Edit(d) PROVE TypeOK'
  <2>1. d \in Domains
    BY CacheAssumption
  <2>2. file' \in [Domains -> File]
    BY <1>1, <2>1, CacheAssumption DEF Edit, File, Versions, Versioned
  <2>3. QED
    BY <1>1, <2>2 DEF Edit, cacheVars, callerVars, Cached
<1>2. ASSUME NEW d \in Domains, Expire(d) PROVE TypeOK'
  BY <1>2 DEF Expire, callerVars, Cached
<1>3. ASSUME NEW S \in SUBSET Domains, Invalidate(S) PROVE TypeOK'
  <2>1. Cached' = Cached \ S
    BY <1>3 DEF Invalidate, Cached
  <2>2. QED
    BY <1>3, <2>1 DEF Invalidate, callerVars
<1>4. ASSUME NEW c \in Callers, NEW d \in Domains, Load(c, d) PROVE TypeOK'
  <2>1. CASE Hit(c, d)
    <3>1. entry[d] \in Entry
      BY <2>1 DEF Hit, Cached
    <3>2. served' \in [Domains -> Versions] /\ built' \in [Domains -> Versions \cup {None}]
      BY <2>1, <3>1 DEF Hit, Serve, Entry
    <3>3. QED
      BY <2>1, <3>2 DEF Hit, Leave, cacheVars, Cached
  <2>2. CASE Revalidate(c, d)
    <3>1. entry[d] \in Entry /\ file[d].content \in Versions /\ d \in Cached
      BY <2>2 DEF Revalidate, Cached, File
    <3>2. served' \in [Domains -> Versions] /\ built' \in [Domains -> Versions \cup {None}]
      BY <2>2, <3>1 DEF Revalidate, Serve, Entry
    <3>3. before' \in SUBSET (Cached \X Cached) /\ fresh' \in SUBSET Cached
      BY <2>2, <3>1 DEF Revalidate, Stamp
    <3>4. Cached' = Cached
      BY <2>2 DEF Revalidate, Cached
    <3>5. QED
      BY <2>2, <3>1, <3>2, <3>3, <3>4 DEF Revalidate, Leave
  <2>3. CASE StartRead(c, d)
    <3>1. seen' \in [Callers -> Entry \cup {Absent}]
      BY <2>3 DEF StartRead, File, Entry
    <3>2. QED
      BY <2>3, <3>1 DEF StartRead, cacheVars, Cached
  <2>4. QED
    BY <1>4, <2>1, <2>2, <2>3 DEF Load
<1>5. ASSUME NEW c \in Callers, NEW d \in Domains, Queue(c, d) PROVE TypeOK'
  BY <1>5 DEF Queue, cacheVars, Cached
<1>6. ASSUME NEW c \in Callers, ReadOk(c) PROVE TypeOK'
  <2> DEFINE d == goal[c]
             others == (Cached \ Evicted(d)) \ {d}
  <2>0. d \in Domains /\ seen[c] \in Entry
    BY <1>6 DEF ReadOk, Busy
  <2>1. file[d].content \in Versions /\ seen[c].content \in Versions
        /\ seen[c].mtime \in Versions
    BY <2>0 DEF File, Entry
  <2>2. entry' \in [Domains -> Entry \cup {Absent}] /\ Cached' = others \cup {d}
    <3>1. entry' = [k \in Domains |->
                      IF k = d THEN [content |-> file[d].content, mtime |-> seen[c].mtime]
                      ELSE IF k \in others THEN entry[k] ELSE Absent]
      BY <1>6 DEF ReadOk, Keep
    <3>2. [content |-> file[d].content, mtime |-> seen[c].mtime] \in Entry
      BY <2>1 DEF Entry
    <3>3. QED
      BY <1>6, <2>0, <3>1, <3>2, AbsentIsNoEntry DEF Cached
  <2>3. before' \in SUBSET (Cached' \X Cached') /\ fresh' \in SUBSET Cached'
    BY <1>6, <2>0, <2>2 DEF ReadOk, Keep, Stamp
  <2>4. served' \in [Domains -> Versions] /\ built' \in [Domains -> Versions \cup {None}]
    BY <1>6, <2>0, <2>1 DEF ReadOk, Serve
  <2>5. QED
    BY <1>6, <2>0, <2>1, <2>2, <2>3, <2>4 DEF ReadOk, Leave
<1>7. ASSUME NEW c \in Callers, ReadFails(c) PROVE TypeOK'
  BY <1>7 DEF ReadFails, Leave, cacheVars, Cached
<1>8. ASSUME NEW c \in Callers, PassGateToHit(c) PROVE TypeOK'
  <2>1. goal[c] \in Domains /\ entry[goal[c]] \in Entry
    BY <1>8 DEF PassGateToHit, Cached, Busy
  <2>2. served' \in [Domains -> Versions] /\ built' \in [Domains -> Versions \cup {None}]
    BY <1>8, <2>1 DEF PassGateToHit, Serve, Entry
  <2>3. QED
    BY <1>8, <2>2 DEF PassGateToHit, Leave, cacheVars, Cached
<1>9. ASSUME NEW c \in Callers, PassGate(c) PROVE TypeOK'
  BY <1>9 DEF PassGate, cacheVars, Cached
<1>10. CASE UNCHANGED vars
  BY <1>10 DEF vars, Cached
<1>12. ASSUME NEW c \in Callers, CancelWaiting(c) \/ CancelWorking(c) PROVE TypeOK'
  BY <1>12 DEF CancelWaiting, CancelWorking, Leave, cacheVars, Cached
<1>11. QED
  <2>1. ASSUME Next PROVE TypeOK'
    <3>1. CASE Invalidate(Cached)
      BY <1>3, <3>1 DEF Cached
    <3>2. ASSUME NEW d \in Domains, Invalidate({d}) PROVE TypeOK'
      BY <1>3, <3>2
    <3>3. QED
      BY <1>1, <1>2, <1>4, <1>5, <1>6, <1>7, <1>8, <1>9, <1>12, <2>1, <3>1, <3>2
         DEF Next, EndRead, PassesGate
  <2>2. QED
    BY <1>10, <2>1

\* Every step keeps what is known of callers in the middle of a load.
LEMMA BusyStep == IInv /\ [Next]_vars => Busy' /\ Gated'
<1> SUFFICES ASSUME IInv, [Next]_vars PROVE Busy' /\ Gated'
  OBVIOUS
<1> USE DEF IInv, TypeOK, Busy, Gated
<1>0. None \notin Callers
  BY CacheAssumption
<1>1. ASSUME UNCHANGED callerVars PROVE Busy' /\ Gated'
  BY <1>1 DEF callerVars
<1>2. ASSUME NEW c \in Callers, pc[c] # "reading", lock' = lock, Leave(c) PROVE Busy' /\ Gated'
  BY <1>0, <1>2 DEF Leave
<1>3. ASSUME NEW c \in Callers, pc[c] = "reading", Leave(c) PROVE Busy' /\ Gated'
  <2>1. \A k \in Callers : pc[k] = "reading" => k = c
    BY <1>3
  <2>2. QED
    BY <1>0, <1>3, <2>1 DEF Leave
<1>4. ASSUME NEW c \in Callers, NEW d \in Domains, StartRead(c, d) PROVE Busy' /\ Gated'
  <2>1. \A k \in Callers : pc[k] # "reading"
    BY <1>0, <1>4 DEF StartRead, MayLoad
  <2>2. [content |-> file[d].content, mtime |-> file[d].mtime] \in Entry
    BY DEF File, Entry
  <2>3. QED
    BY <1>4, <2>1, <2>2 DEF StartRead
<1>5. ASSUME NEW c \in Callers, NEW d \in Domains, Queue(c, d) PROVE Busy' /\ Gated'
  BY <1>5 DEF Queue
<1>6. ASSUME NEW c \in Callers, PassGate(c) PROVE Busy' /\ Gated'
  BY <1>0, <1>6 DEF PassGate
<1>7. ASSUME NEW c \in Callers, PassGateToHit(c) \/ \E d \in Domains : Hit(c, d) \/ Revalidate(c, d)
      PROVE Busy' /\ Gated'
  BY <1>2, <1>7 DEF Hit, Revalidate, PassGateToHit, MayLoad
<1>8. ASSUME NEW c \in Callers, ReadOk(c) \/ ReadFails(c) PROVE Busy' /\ Gated'
  BY <1>3, <1>8 DEF ReadOk, ReadFails
<1>10. ASSUME NEW c \in Callers, CancelWaiting(c) PROVE Busy' /\ Gated'
  BY <1>2, <1>10 DEF CancelWaiting
<1>11. ASSUME NEW c \in Callers, CancelWorking(c) PROVE Busy' /\ Gated'
  BY <1>0, <1>11 DEF CancelWorking
<1>9. QED
  <2>1. ASSUME Next PROVE Busy' /\ Gated'
    BY <1>1, <1>4, <1>5, <1>6, <1>7, <1>8, <1>10, <1>11, <2>1
       DEF Next, Edit, Expire, Invalidate, Load, EndRead, PassesGate
  <2>2. QED
    BY <1>1, <2>1 DEF vars, callerVars

Current == Versioned /\ StaleOnlyWithinTTL /\ NeverServesOlder

\* Every step keeps what is known of the age of entries, reads and answers.
LEMMA CurrentStep == IInv /\ [Next]_vars => Current'
<1> SUFFICES ASSUME IInv, [Next]_vars PROVE Current'
  OBVIOUS
<1> USE DEF IInv, TypeOK, Current, Versioned, StaleOnlyWithinTTL, NeverServesOlder, Cached
<1>0. /\ \A d \in Domains : file[d].content \in Nat /\ file[d].mtime \in Nat
      /\ \A d \in Domains : checked[d] \in Nat /\ served[d] \in Nat
      /\ \A d \in Cached : entry[d].content \in Nat /\ entry[d].mtime \in Nat
  BY CacheAssumption DEF File, Entry, Versions
<1>1. ASSUME NEW d \in Edited, Edit(d) PROVE Current'
  <2>1. d \in Domains
    BY CacheAssumption
  <2>2. /\ \A k \in Domains \ {d} : file'[k] = file[k]
        /\ file'[d].content = file[d].content + 1 /\ file'[d].mtime = file[d].mtime + 1
    BY <1>1, <2>1 DEF Edit
  <2>3. \A k \in Domains : file'[k].mtime = file'[k].content /\ file[k].content <= file'[k].content
    BY <1>0, <2>1, <2>2
  <2>4. \A k \in Domains : file'[k].content \in Nat
    BY <1>0, <2>1, <2>2
  <2>5. \A c \in Callers : pc[c] = "reading" =>
          goal[c] \in Domains /\ seen[c].content \in Nat
    BY CacheAssumption DEF Busy, Entry, Versions
  <2>6. UNCHANGED <<entry, checked, pc, goal, seen, served>>
    BY <1>1 DEF Edit, cacheVars, callerVars
  <2>7. \A k \in Domains : \A n \in Nat : n <= file[k].content => n <= file'[k].content
    BY <1>0, <2>3, <2>4
  <2>8. Versioned'
    <3>1. \A k \in Domains : file'[k].mtime = file'[k].content
      BY <2>3
    <3>2. \A k \in Cached' : entry'[k].mtime <= entry'[k].content
                              /\ entry'[k].content <= file'[k].content
      BY <1>0, <2>6, <2>7
    <3>3. \A c \in Callers : pc'[c] = "reading" =>
            seen'[c].mtime = seen'[c].content /\ seen'[c].content <= file'[goal'[c]].content
      BY <2>5, <2>6, <2>7
    <3>4. QED
      BY <3>1, <3>2, <3>3
  <2>9. StaleOnlyWithinTTL' /\ NeverServesOlder'
    BY <1>0, <2>6, <2>7
  <2>10. QED
    BY <2>8, <2>9
<1>2. ASSUME NEW d \in Domains, Expire(d) PROVE Current'
  BY <1>2 DEF Expire, callerVars
<1>3. ASSUME NEW S \in SUBSET Domains, Invalidate(S) PROVE Current'
  BY <1>3 DEF Invalidate, callerVars
<1>4. ASSUME NEW c \in Callers, NEW d \in Domains, d \in Cached,
             Leave(c), Serve(c, d, entry[d].content), UNCHANGED <<file, entry>>,
             checked' = checked \/ (checked' = [checked EXCEPT ![d] = file[d].content]
                                      /\ entry[d].mtime >= file[d].mtime)
      PROVE Current'
  <2>1. \A k \in Cached : checked'[k] <= entry[k].content
    BY <1>0, <1>4
  <2>2. \A k \in Domains \ {d} : served'[k] = served[k]
    BY <1>4 DEF Serve
  <2>3. served'[d] \in {served[d], entry[d].content}
    BY <1>4 DEF Serve
  <2>4. \A k \in Callers : pc'[k] = "reading" =>
          pc[k] = "reading" /\ seen'[k] = seen[k] /\ goal'[k] = goal[k]
    BY <1>4 DEF Leave
  <2>5. NeverServesOlder'
    BY <1>0, <1>4, <2>2, <2>3
  <2>6. QED
    BY <1>4, <2>1, <2>4, <2>5
<1>5. ASSUME NEW c \in Callers, NEW d \in Domains, StartRead(c, d) PROVE Current'
  <2>1. seen'[c].content = file[d].content /\ seen'[c].mtime = file[d].mtime /\ goal'[c] = d
    BY <1>5 DEF StartRead
  <2>2. \A k \in Callers \ {c} : seen'[k] = seen[k] /\ goal'[k] = goal[k] /\ pc'[k] = pc[k]
    BY <1>5 DEF StartRead
  <2>3. UNCHANGED <<file, entry, checked, served>>
    BY <1>5 DEF StartRead, cacheVars
  <2>4. QED
    BY <1>0, <2>1, <2>2, <2>3
<1>6. ASSUME NEW c \in Callers, NEW d \in Domains, Queue(c, d) PROVE Current'
  BY <1>6 DEF Queue, cacheVars
<1>7. ASSUME NEW c \in Callers, ReadOk(c) PROVE Current'
  <2> DEFINE d == goal[c]
             others == (Cached \ Evicted(d)) \ {d}
  <2>1. d \in Domains /\ seen[c] \in Entry /\ pc[c] = "reading"
    BY <1>7 DEF ReadOk, Busy
  <2>2. seen[c].content \in Nat /\ seen[c].mtime = seen[c].content
        /\ seen[c].content <= file[d].content
    BY <2>1, CacheAssumption DEF Entry, Versions
  <2>3. entry'[d] = [content |-> file[d].content, mtime |-> seen[c].mtime]
        /\ \A k \in Domains \ {d} : entry'[k] = Absent \/ (k \in Cached /\ entry'[k] = entry[k])
    BY <1>7, <2>1 DEF ReadOk, Keep
  <2>4. checked'[d] = seen[c].content /\ \A k \in Domains \ {d} : checked'[k] = checked[k]
    BY <1>7, <2>1 DEF ReadOk
  <2>5. /\ served'[d] \in {served[d], file[d].content}
        /\ \A k \in Domains \ {d} : served'[k] = served[k]
    BY <1>7, <2>1 DEF ReadOk, Serve
  <2>6. file' = file
    BY <1>7 DEF ReadOk
  <2>7. \A k \in Callers : pc'[k] = "reading" =>
          pc[k] = "reading" /\ seen'[k] = seen[k] /\ goal'[k] = goal[k]
    BY <1>7 DEF ReadOk, Leave
  <2>8. Versioned'
    BY <1>0, <2>1, <2>2, <2>3, <2>6, <2>7
  <2>9. StaleOnlyWithinTTL'
    BY <1>0, <2>1, <2>2, <2>3, <2>4
  <2>10. NeverServesOlder'
    BY <1>0, <2>1, <2>3, <2>5, <2>6
  <2>11. QED
    BY <2>8, <2>9, <2>10
<1>8. ASSUME NEW c \in Callers, ReadFails(c) PROVE Current'
  BY <1>8 DEF ReadFails, Leave, cacheVars
<1>9. ASSUME NEW c \in Callers, PassGate(c) PROVE Current'
  BY <1>9 DEF PassGate, cacheVars
<1>10. CASE UNCHANGED vars
  BY <1>10 DEF vars
<1>11. ASSUME NEW c \in Callers, NEW d \in Domains, Hit(c, d) \/ Revalidate(c, d) PROVE Current'
  BY <1>4, <1>11 DEF Hit, Revalidate, cacheVars
<1>12. ASSUME NEW c \in Callers, PassGateToHit(c) PROVE Current'
  BY <1>4, <1>12 DEF PassGateToHit, Busy, cacheVars
<1>14. ASSUME NEW c \in Callers, CancelWaiting(c) \/ CancelWorking(c) PROVE Current'
  BY <1>14 DEF CancelWaiting, CancelWorking, Leave, cacheVars
<1>13. QED
  <2>1. ASSUME Next PROVE Current'
    <3>1. CASE Invalidate(Cached)
      BY <1>3, <3>1
    <3>2. ASSUME NEW d \in Domains, Invalidate({d}) PROVE Current'
      BY <1>3, <3>2
    <3>3. QED
      BY <1>1, <1>2, <1>5, <1>6, <1>7, <1>8, <1>9, <1>11, <1>12, <1>14, <2>1, <3>1, <3>2
         DEF Next, Load, EndRead, PassesGate
  <2>2. QED
    BY <1>10, <2>1

(***************************************************************************)
(* The inductive invariant holds in every reachable state.                 *)
(***************************************************************************)
THEOREM Invariance == Spec => []IInv
<1>1. Init => IInv
  <2>1. 0 \in Versions
    BY CacheAssumption DEF Versions
  <2>2. QED
    BY <2>1 DEF Init, IInv, TypeOK, Busy, Versioned, Gated, StaleOnlyWithinTTL,
       NeverServesOlder, Cached, File
<1>2. IInv /\ [Next]_vars => IInv'
  BY TypeStep, BusyStep, CurrentStep DEF Current, IInv
<1>3. QED
  BY <1>1, <1>2, PTL DEF Spec

(***************************************************************************)
(* The cache, its stamps and the callers' fields keep their types.         *)
(***************************************************************************)
THEOREM TypeCorrect == Spec => []TypeOK
  BY Invariance, PTL DEF IInv

(***************************************************************************)
(* A stale entry is never taken for current, wherever an edit falls        *)
(* between a stat and a read.                                              *)
(***************************************************************************)
THEOREM Detectable == Spec => []StaleIsDetectable
<1>1. IInv => StaleIsDetectable
  <2> SUFFICES ASSUME IInv, NEW d \in Cached, entry[d].content < file[d].content
               PROVE entry[d].mtime < file[d].mtime
    BY DEF StaleIsDetectable
  <2>1. d \in Domains /\ entry[d] \in Entry /\ file[d] \in File
    BY DEF IInv, TypeOK, Cached
  <2>2. entry[d].content \in Nat /\ entry[d].mtime \in Nat
        /\ file[d].content \in Nat /\ file[d].mtime \in Nat
    BY <2>1, CacheAssumption DEF Entry, File, Versions
  <2>3. entry[d].mtime <= entry[d].content /\ file[d].mtime = file[d].content
    BY <2>1 DEF IInv, Versioned
  <2>4. QED
    BY <2>2, <2>3
<1>2. QED
  BY <1>1, Invariance, PTL

(***************************************************************************)
(* An answer is never older than the file was at the entry's last stamp.   *)
(***************************************************************************)
THEOREM BoundedStaleness == Spec => []StaleOnlyWithinTTL
  BY Invariance, PTL DEF IInv

(***************************************************************************)
(* No caller is given an older spec than another one was given before.     *)
(***************************************************************************)
THEOREM Monotone == Spec => []NeverServesOlder
  BY Invariance, PTL DEF IInv

(***************************************************************************)
(* At most one worker per domain is on its way for a task that is still    *)
(* there (loader.py:141-147).                                              *)
(***************************************************************************)
THEOREM OneWorker == Spec => []NoStampede
<1>1. IInv => NoStampede
  BY DEF IInv, Gated, NoStampede
<1>2. QED
  BY <1>1, Invariance, PTL

(***************************************************************************)
(* The limit of the cache.  The eviction of load_domain looks for the      *)
(* smallest stamp among the cached entries, so the invariant says that     *)
(* the stamps order exactly those, strictly and without gaps.              *)
(***************************************************************************)
IsOrder(C, R) ==
  /\ R \subseteq C \X C
  /\ \A k \in C : <<k, k>> \notin R
  /\ \A i, j, k \in C : <<i, j>> \in R /\ <<j, k>> \in R => <<i, k>> \in R
  /\ \A j, k \in C : j = k \/ <<j, k>> \in R \/ <<k, j>> \in R

Bounded == IsOrder(Cached, before) /\ Cardinality(Cached) <= MaxSize

Oldest == {k \in Cached : \A j \in Cached : <<j, k>> \notin before}

\* The cached domains are finitely many.
LEMMA CachedFinite == IsFiniteSet(Cached) /\ Cardinality(Cached) \in Nat
  BY CacheAssumption, FS_Subset, FS_CardinalityType DEF Cached

\* An order keeps its shape on a part of the set, as when entries are removed.
LEMMA PartOfOrder ==
  ASSUME NEW C, NEW R, IsOrder(C, R), NEW P \in SUBSET C
  PROVE  IsOrder(P, {p \in R : p[1] \in P /\ p[2] \in P})
<1> DEFINE Q == {p \in R : p[1] \in P /\ p[2] \in P}
<1>1. \A j, k \in P : <<j, k>> \in Q <=> <<j, k>> \in R
  OBVIOUS
<1>2. Q \subseteq P \X P
  BY DEF IsOrder
<1> HIDE DEF Q
<1>3. /\ \A k \in P : <<k, k>> \notin Q
      /\ \A j, k \in P : j = k \/ <<j, k>> \in Q \/ <<k, j>> \in Q
  BY <1>1 DEF IsOrder
<1>4. \A i, j, k \in P : <<i, j>> \in Q /\ <<j, k>> \in Q => <<i, k>> \in Q
  BY <1>1 DEF IsOrder
<1>5. IsOrder(P, Q)
  BY <1>2, <1>3, <1>4 DEF IsOrder
<1>6. QED
  BY <1>5 DEF Q

\* And it has a new greatest element after a stamp.
LEMMA StampedOrder ==
  ASSUME NEW P, NEW Q, IsOrder(P, Q), NEW d, d \notin P
  PROVE  IsOrder(P \cup {d}, Q \cup (P \X {d}))
<1> DEFINE C == P \cup {d}
           R == Q \cup (P \X {d})
<1>1. Q \subseteq P \X P
  BY DEF IsOrder
<1>2. /\ \A j, k \in P : <<j, k>> \in R <=> <<j, k>> \in Q
      /\ \A j \in P : <<j, d>> \in R
      /\ \A k \in C : <<d, k>> \notin R
  BY <1>1
<1>3. R \subseteq C \X C
  BY <1>1
<1> HIDE DEF R
<1>4. /\ \A k \in C : <<k, k>> \notin R
      /\ \A j, k \in C : j = k \/ <<j, k>> \in R \/ <<k, j>> \in R
  BY <1>2 DEF IsOrder
<1>5. ASSUME NEW i \in C, NEW j \in C, NEW k \in C, <<i, j>> \in R, <<j, k>> \in R
      PROVE  <<i, k>> \in R
  <2>1. i \in P /\ j \in P
    BY <1>2, <1>5
  <2>2. CASE k = d
    BY <1>2, <2>1, <2>2
  <2>3. CASE k \in P
    BY <1>2, <1>5, <2>1, <2>3 DEF IsOrder
  <2>4. QED
    BY <2>2, <2>3
<1>6. IsOrder(C, R)
  BY <1>3, <1>4, <1>5 DEF IsOrder
<1>7. QED
  BY <1>6 DEF R

\* Of finitely many stamps there is an oldest.
LEMMA OldestExists ==
  ASSUME NEW C, IsFiniteSet(C), C # {}, NEW R, IsOrder(C, R)
  PROVE  \E m \in C : \A j \in C : <<j, m>> \notin R
<1> DEFINE Least(s) == \E m \in s : \A j \in s : <<j, m>> \notin R
           Bad == {s \in SUBSET C : s # {} /\ ~Least(s)}
<1> SUFFICES ASSUME Bad # {} PROVE FALSE
  OBVIOUS
<1>1. Bad \subseteq FiniteSubsetsOf(C)
  BY FS_Subset DEF FiniteSubsetsOf
<1>2. PICK s \in Bad : \A t \in Bad : <<t, s>> \notin StrictSubsetOrdering(C)
  <2> HIDE DEF Bad
  <2>1. QED
    BY <1>1, FS_StrictSubsetOrderingWellFounded, WFMin
<1>3. PICK x \in s : TRUE
  OBVIOUS
<1>4. s \ {x} \notin Bad
  BY <1>2, <1>3 DEF StrictSubsetOrdering
<1>5. CASE s \ {x} = {}
  <2>1. s = {x}
    BY <1>3, <1>5
  <2>2. <<x, x>> \notin R
    BY <1>3 DEF IsOrder
  <2>3. QED
    BY <2>1, <2>2
<1>6. CASE s \ {x} # {}
  <2>1. PICK m \in s \ {x} : \A j \in s \ {x} : <<j, m>> \notin R
    BY <1>4, <1>6
  <2>2. CASE <<x, m>> \notin R
    BY <2>1, <2>2
  <2>3. CASE <<x, m>> \in R
    <3>1. \A j \in s : <<j, x>> \notin R
      BY <1>3, <2>1, <2>3 DEF IsOrder
    <3>2. QED
      BY <1>3, <3>1
  <2>4. QED
    BY <2>2, <2>3
<1>7. QED
  BY <1>5, <1>6

\* The eviction finds exactly one entry.
LEMMA OldestIsOne ==
  ASSUME Bounded, Cached # {}
  PROVE  \E k \in Cached : Oldest = {k}
<1>1. PICK k \in Cached : \A j \in Cached : <<j, k>> \notin before
  BY CachedFinite, OldestExists DEF Bounded
<1>2. \A m \in Oldest : m = k
  BY <1>1 DEF Bounded, IsOrder, Oldest
<1>3. QED
  BY <1>1, <1>2 DEF Oldest

\* Every step keeps the order of the stamps and the limit.
LEMMA BoundedStep == IInv /\ Bounded /\ [Next]_vars => Bounded'
<1> SUFFICES ASSUME IInv, Bounded, [Next]_vars PROVE Bounded'
  OBVIOUS
<1>1. ASSUME UNCHANGED <<entry, before>> PROVE Bounded'
  BY <1>1 DEF Bounded, IsOrder, Cached
<1>2. ASSUME NEW S \in SUBSET Domains, Invalidate(S) PROVE Bounded'
  <2>1. Cached' = Cached \ S
    BY <1>2 DEF Invalidate, Cached
  <2>2. before' = {p \in before : p[1] \in Cached \ S /\ p[2] \in Cached \ S}
    BY <1>2 DEF Invalidate, IInv, TypeOK
  <2>3. IsOrder(Cached', before')
    BY <2>1, <2>2, PartOfOrder DEF Bounded
  <2>4. Cardinality(Cached') \in Nat /\ Cardinality(Cached') <= Cardinality(Cached)
    BY <2>1, CachedFinite, FS_Subset, FS_CardinalityType
  <2>5. QED
    BY <2>3, <2>4, CachedFinite, CacheAssumption DEF Bounded
<1>3. ASSUME NEW d, NEW others \in SUBSET Cached, d \notin others, Stamp(d, others),
             Cached' = others \cup {d}
      PROVE  IsOrder(Cached', before')
  <2>1. IsOrder(others, {p \in before : p[1] \in others /\ p[2] \in others})
    BY PartOfOrder DEF Bounded
  <2>2. QED
    BY <1>3, <2>1, StampedOrder DEF Stamp
<1>4. ASSUME NEW c \in Callers, NEW d \in Domains, Revalidate(c, d) PROVE Bounded'
  <2>1. d \in Cached /\ Cached' = Cached
    BY <1>4 DEF Revalidate, Cached
  <2>2. IsOrder(Cached', before')
    BY <1>3, <1>4, <2>1 DEF Revalidate
  <2>3. QED
    BY <2>1, <2>2 DEF Bounded
<1>5. ASSUME NEW c \in Callers, ReadOk(c) PROVE Bounded'
  <2> DEFINE d == goal[c]
             others == (Cached \ Evicted(d)) \ {d}
  <2>1. d \in Domains /\ seen[c] \in Entry
    BY <1>5 DEF ReadOk, IInv, Busy
  <2>2. Cached' = others \cup {d}
    <3>1. entry' = [k \in Domains |->
                      IF k = d THEN [content |-> file[d].content, mtime |-> seen[c].mtime]
                      ELSE IF k \in others THEN entry[k] ELSE Absent]
      BY <1>5 DEF ReadOk, Keep
    <3>2. [content |-> file[d].content, mtime |-> seen[c].mtime] \in Entry
      BY <2>1 DEF IInv, TypeOK, File, Entry
    <3>3. QED
      BY <2>1, <3>1, <3>2, AbsentIsNoEntry DEF Cached
  <2>3. Stamp(d, others)
    BY <1>5 DEF ReadOk, Keep
  <2>4. IsOrder(Cached', before')
    <3>1. others \in SUBSET Cached /\ d \notin others
      OBVIOUS
    <3> HIDE DEF others, d
    <3>2. QED
      BY <1>3, <2>2, <2>3, <3>1
  <2>5. Cardinality(others) \in Nat /\ Cardinality(others) < MaxSize
    <3>1. CASE d \in Cached
      <4>1. others = Cached \ {d}
        BY <3>1 DEF Evicted
      <4>2. Cardinality(Cached \ {d}) = Cardinality(Cached) - 1
        BY <3>1, CachedFinite, FS_RemoveElement
      <4>3. Cardinality(Cached) # 0
        BY <3>1, CachedFinite, FS_EmptySet
      <4> HIDE DEF others, d
      <4>4. QED
        BY <4>1, <4>2, <4>3, CachedFinite, CacheAssumption DEF Bounded
    <3>2. CASE d \notin Cached /\ Cardinality(Cached) < MaxSize
      <4>1. others = Cached
        BY <3>2 DEF Evicted
      <4>2. QED
        BY <3>2, <4>1, CachedFinite
    <3>3. CASE d \notin Cached /\ ~(Cardinality(Cached) < MaxSize)
      <4>1. Cardinality(Cached) = MaxSize /\ Cached # {}
        BY <3>3, CachedFinite, FS_EmptySet, CacheAssumption DEF Bounded
      <4>2. PICK k \in Cached : Oldest = {k}
        BY <4>1, OldestIsOne
      <4>3. others = Cached \ {k}
        BY <3>3, <4>2 DEF Evicted, Oldest
      <4>4. Cardinality(Cached \ {k}) = Cardinality(Cached) - 1
        BY <4>2, CachedFinite, FS_RemoveElement
      <4> HIDE DEF others, d
      <4>5. QED
        BY <4>1, <4>3, <4>4, CacheAssumption
    <3>4. QED
      BY <3>1, <3>2, <3>3
  <2>6. IsFiniteSet(others) /\ d \notin others
    BY CachedFinite, FS_Subset
  <2> HIDE DEF others, d
  <2>7. Cardinality(others \cup {d}) = Cardinality(others) + 1
    BY <2>6, FS_AddElement
  <2>8. QED
    BY <2>2, <2>4, <2>5, <2>7, CacheAssumption DEF Bounded
<1>6. ASSUME Next PROVE Bounded'
  <2>1. CASE Invalidate(Cached)
    BY <1>2, <2>1 DEF Cached
  <2>2. ASSUME NEW d \in Domains, Invalidate({d}) PROVE Bounded'
    BY <1>2, <2>2
  <2>3. ASSUME NEW c \in Callers, NEW d \in Domains, Hit(c, d) \/ StartRead(c, d) \/ Queue(c, d)
        PROVE Bounded'
    BY <1>1, <2>3 DEF Hit, StartRead, Queue, cacheVars
  <2>4. ASSUME NEW c \in Callers, ReadFails(c) \/ PassesGate(c) PROVE Bounded'
    BY <1>1, <2>4 DEF ReadFails, PassesGate, PassGate, PassGateToHit, cacheVars
  <2>7. ASSUME NEW c \in Callers, CancelWaiting(c) \/ CancelWorking(c) PROVE Bounded'
    BY <1>1, <2>7 DEF CancelWaiting, CancelWorking, cacheVars
  <2>5. ASSUME NEW d, Edit(d) \/ Expire(d) PROVE Bounded'
    BY <1>1, <2>5 DEF Edit, Expire, cacheVars
  <2>6. QED
    BY <1>4, <1>5, <1>6, <2>1, <2>2, <2>3, <2>4, <2>5, <2>7 DEF Next, Load, EndRead
<1>7. QED
  BY <1>1, <1>6 DEF vars

\* The stamps order the cached entries, of which there are at most _max_size.
THEOREM BoundedInvariance == Spec => []Bounded
<1>1. Init => Bounded
  <2>1. ASSUME Init PROVE Cached = {} /\ before = {}
    BY <2>1 DEF Init, Cached
  <2>2. Cardinality({}) = 0
    BY FS_EmptySet
  <2>3. ASSUME Init PROVE IsOrder(Cached, before) /\ Cardinality(Cached) <= MaxSize
    BY <2>1, <2>2, <2>3, CacheAssumption DEF IsOrder
  <2>4. QED
    BY <2>3 DEF Bounded
<1>2. QED
  BY <1>1, BoundedStep, Invariance, PTL DEF Spec

(***************************************************************************)
(* The cache never exceeds _max_size, for any size and number of domains,  *)
(* however loads, revalidations, invalidations and expiries interleave.    *)
(***************************************************************************)
THEOREM SizeBounded == Spec => [](Cardinality(Cached) <= MaxSize)
<1>1. Bounded => Cardinality(Cached) <= MaxSize
  BY DEF Bounded
<1>2. QED
  BY <1>1, BoundedInvariance, PTL

(***************************************************************************)
(* When load_domain has to make room it evicts one entry, never several    *)
(* and never none.                                                         *)
(***************************************************************************)
THEOREM EvictsOne ==
  Spec => [](\A d \in Domains \ Cached :
               Cardinality(Cached) = MaxSize => \E k \in Cached : Evicted(d) = {k})
<1>1. Bounded => \A d \in Domains \ Cached :
               Cardinality(Cached) = MaxSize => \E k \in Cached : Evicted(d) = {k}
  <2> SUFFICES ASSUME Bounded, NEW d \in Domains \ Cached, Cardinality(Cached) = MaxSize
               PROVE \E k \in Cached : Evicted(d) = {k}
    OBVIOUS
  <2>1. Cached # {} /\ ~(Cardinality(Cached) < MaxSize)
    BY FS_EmptySet, CacheAssumption
  <2>2. Evicted(d) = Oldest
    BY <2>1 DEF Evicted, Oldest
  <2>3. QED
    BY <2>1, <2>2, OldestIsOne
<1>2. QED
  BY <1>1, BoundedInvariance, PTL

(***************************************************************************)
(* Whoever holds _lock is reading a file, and whoever holds the gate of a  *)
(* domain is loading that domain and was not cancelled: no failed read,    *)
(* hit, revalidation, invalidation or cancellation leaves a lock behind    *)
(* for the others to wait for.                                             *)
(***************************************************************************)
LocksOwned ==
  /\ lock # None => lock \in Callers /\ pc[lock] = "reading"
  /\ \A d \in Domains : gate[d] # None =>
       /\ gate[d] \in Callers \ abandoned
       /\ goal[gate[d]] = d /\ pc[gate[d]] \in {"worker", "reading"}

\* Every step that takes a lock or a gate is one of a load, and leaving gives all back.
LEMMA LocksStep == IInv /\ LocksOwned /\ [Next]_vars => LocksOwned'
<1> SUFFICES ASSUME IInv, LocksOwned, [Next]_vars PROVE LocksOwned'
  OBVIOUS
<1> USE DEF LocksOwned
<1>0. /\ pc \in [Callers -> {"idle", "queued", "worker", "reading"}]
      /\ goal \in [Callers -> Domains \cup {None}]
      /\ gate \in [Domains -> Callers \cup {None}]
      /\ None \notin Callers
      /\ \A c \in Callers : pc[c] = "reading" => lock = c
      /\ \A c \in abandoned : c \in Callers /\ pc[c] \in {"worker", "reading"}
  BY CacheAssumption DEF IInv, TypeOK, Busy
<1>1. CASE UNCHANGED callerVars
  BY <1>1 DEF callerVars
<1>2. ASSUME NEW c \in Callers, Leave(c), lock' = None \/ (lock' = lock /\ lock = None)
      PROVE LocksOwned'
  BY <1>0, <1>2 DEF Leave
<1>3. ASSUME NEW c \in Callers, NEW d \in Domains, StartRead(c, d) PROVE LocksOwned'
  BY <1>0, <1>3 DEF StartRead, MayLoad
<1>4. ASSUME NEW c \in Callers, NEW d \in Domains, Queue(c, d) PROVE LocksOwned'
  BY <1>0, <1>4 DEF Queue
<1>5. ASSUME NEW c \in Callers, PassGate(c) PROVE LocksOwned'
  BY <1>0, <1>5 DEF PassGate
<1>6. ASSUME NEW c \in Callers, PassGateToHit(c) \/ ReadOk(c) \/ ReadFails(c)
             \/ \E d \in Domains : Hit(c, d) \/ Revalidate(c, d)
      PROVE LocksOwned'
  BY <1>2, <1>6 DEF PassGateToHit, ReadOk, ReadFails, Hit, Revalidate, MayLoad
<1>9. ASSUME NEW c \in Callers, CancelWaiting(c) PROVE LocksOwned'
  BY <1>0, <1>9 DEF CancelWaiting, Leave
<1>10. ASSUME NEW c \in Callers, CancelWorking(c) PROVE LocksOwned'
  BY <1>0, <1>10 DEF CancelWorking
<1>7. ASSUME Next PROVE LocksOwned'
  BY <1>1, <1>3, <1>4, <1>5, <1>6, <1>7, <1>9, <1>10
     DEF Next, Edit, Expire, Invalidate, Load, EndRead, PassesGate
<1>8. QED
  BY <1>1, <1>7 DEF vars, callerVars

\* No lock or gate outlives the load that took it, for any callers and domains.
THEOREM LocksAreReleased == Spec => []LocksOwned
<1>1. Init => LocksOwned
  BY DEF Init, LocksOwned
<1>2. QED
  BY <1>1, LocksStep, Invariance, PTL DEF Spec
=============================================================================
