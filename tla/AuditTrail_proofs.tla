--------------------------- MODULE AuditTrail_proofs ---------------------------
(***************************************************************************)
(* Theorems about AuditTrail and their proofs.                             *)
(***************************************************************************)
EXTENDS AuditTrail, TLAPS

(***************************************************************************)
(* InFlight, entry by entry.                                               *)
(***************************************************************************)
LEMMA InFlightMember ==
  \A x : x \in InFlight <=> \E a \in Flushers : x \in batch[a]
  BY DEF InFlight

\* What is in flight after a step, spelled out batch by batch.
LEMMA InFlightMemberNext ==
  \A x : x \in InFlight' <=> \E a \in Flushers : x \in batch'[a]
  BY DEF InFlight

(***************************************************************************)
(* Type correctness (engine/compliance/audit.py:297-394).                  *)
(***************************************************************************)
THEOREM TypeCorrect == Spec => []TypeOK
<1>1. Init => TypeOK
  BY AuditAssumption DEF Init, TypeOK, Lives
<1>2. TypeOK /\ [Next]_vars => TypeOK'
  <2> SUFFICES ASSUME TypeOK, [Next]_vars PROVE TypeOK'
    OBVIOUS
  <2> USE DEF TypeOK, Lives
  <2>1. ASSUME NEW e \in Entries, Emit(e) PROVE TypeOK'
    BY <2>1 DEF Emit
  <2>2. ASSUME NEW a \in Requests \cup {Loop}, StartFlush(a) PROVE TypeOK'
    BY <2>2 DEF StartFlush, Drain
  <2>3. ASSUME NEW a \in Flushers, InsertSucceeds(a) PROVE TypeOK'
    BY <2>3 DEF InsertSucceeds
  <2>4. ASSUME NEW a \in Flushers, InsertFails(a) PROVE TypeOK'
    <3>1. warned' \in BOOLEAN
      BY <2>4 DEF InsertFails
    <3>2. QED
      BY <2>4, <3>1 DEF InsertFails
  <2>5. CASE CancelLoop
    BY <2>5 DEF CancelLoop, CutOff, Flushers
  <2>6. CASE FinalFlush
    BY <2>6 DEF FinalFlush, Drain
  <2>7. CASE Close
    BY <2>7 DEF Close
  <2>8. CASE UNCHANGED vars
    BY <2>8 DEF vars
  <2>9. ASSUME NEW r \in Requests, CancelRequest(r) PROVE TypeOK'
    BY <2>9 DEF CancelRequest, CutOff, Flushers
  <2>10. QED
    BY <2>1, <2>2, <2>3, <2>4, <2>5, <2>6, <2>7, <2>8, <2>9 DEF Next
<1>3. QED
  BY <1>1, <1>2, PTL DEF Spec

(***************************************************************************)
(* Which flushers can be at work in each phase of the shutdown, and that   *)
(* the last flush leaves nothing in the buffer unless it fails.            *)
(***************************************************************************)
PhaseInv ==
  /\ \A r \in Requests \cup {Loop} : life # "running" => batch[r] = {}
  /\ life # "closing" => batch[Final] = {}
  /\ life \in {"closing", "down"} /\ ~warned => buffer = {}

IInv == TypeOK /\ PhaseInv

\* The inductive invariant: types, and what each phase of the life cycle says of
\* the batches of the loop and of the last flush (boot.py, startup and shutdown).
THEOREM Phases == Spec => []IInv
<1>1. Init => IInv
  BY AuditAssumption DEF Init, TypeOK, Lives, IInv, PhaseInv, Flushers
<1>2. TypeOK /\ TypeOK' /\ PhaseInv /\ [Next]_vars => PhaseInv'
  <2> SUFFICES ASSUME TypeOK, TypeOK', PhaseInv, [Next]_vars PROVE PhaseInv'
    OBVIOUS
  <2> USE AuditAssumption DEF PhaseInv, Flushers
  <2>1. ASSUME NEW e \in Entries, Emit(e) PROVE PhaseInv'
    BY <2>1 DEF Emit
  <2>2. ASSUME NEW a \in Requests \cup {Loop}, StartFlush(a) PROVE PhaseInv'
    BY <2>2 DEF StartFlush, Drain, TypeOK
  <2>3. ASSUME NEW a \in Flushers, InsertSucceeds(a) PROVE PhaseInv'
    BY <2>3 DEF InsertSucceeds, TypeOK
  <2>4. ASSUME NEW a \in Flushers, InsertFails(a) PROVE PhaseInv'
    <3>1. CASE a = Final
      <4>1. life = "closing" /\ warned'
        BY <2>4, <3>1 DEF InsertFails
      <4>2. QED
        BY <2>4, <3>1, <4>1 DEF InsertFails, TypeOK
    <3>2. CASE a # Final
      <4>1. life = "running"
        BY <2>4, <3>2 DEF InsertFails
      <4>2. QED
        BY <2>4, <3>2, <4>1 DEF InsertFails, TypeOK
    <3>3. QED
      BY <3>1, <3>2
  <2>5. CASE CancelLoop
    BY <2>5 DEF CancelLoop, CutOff, TypeOK
  <2>6. CASE FinalFlush
    BY <2>6 DEF FinalFlush, Drain, TypeOK
  <2>7. CASE Close
    BY <2>7 DEF Close
  <2>8. CASE UNCHANGED vars
    BY <2>8 DEF vars
  <2>9. ASSUME NEW r \in Requests, CancelRequest(r) PROVE PhaseInv'
    BY <2>9 DEF CancelRequest, CutOff, TypeOK
  <2>10. QED
    BY <2>1, <2>2, <2>3, <2>4, <2>5, <2>6, <2>7, <2>8, <2>9 DEF Next
<1>3. QED
  BY <1>1, <1>2, TypeCorrect, PTL DEF Spec, IInv

(***************************************************************************)
(* No record is lost (audit.py:323-370): what is drained is written or put *)
(* back, unless the insert was cancelled, with its request or with the     *)
(* loop, or the last flush failed with a warning.                          *)
(***************************************************************************)
THEOREM NoRecordLost == Spec => []NothingLost
<1> DEFINE Held == logged \ cut \subseteq buffer \cup InFlight \cup stored
<1> DEFINE Kept == (life = "down" /\ warned) \/ Held
<1>1. Init => Kept
  BY DEF Init
<1>2. IInv /\ IInv' /\ Kept /\ [Next]_vars => Kept'
  <2> SUFFICES ASSUME IInv, IInv', Kept, [Next]_vars PROVE Kept'
    OBVIOUS
  <2> USE AuditAssumption, InFlightMember, InFlightMemberNext
  <2>1. ASSUME NEW e \in Entries, Emit(e) PROVE Kept'
    BY <2>1 DEF Emit
  <2>2. ASSUME NEW a \in Flushers, Drain(a), life' # "down", life # "down", logged' = logged
        PROVE Kept'
    BY <2>2 DEF Drain, IInv, TypeOK
  <2>3. ASSUME NEW a \in Requests \cup {Loop}, StartFlush(a) PROVE Kept'
    BY <2>2, <2>3 DEF StartFlush, Flushers
  <2>4. ASSUME NEW a \in Flushers, InsertSucceeds(a) PROVE Kept'
    <3>1. life # "down"
      BY <2>4 DEF InsertSucceeds, IInv, PhaseInv, Flushers
    <3>2. QED
      BY <2>4, <3>1 DEF InsertSucceeds, IInv, TypeOK
  <2>5. ASSUME NEW a \in Flushers, InsertFails(a) PROVE Kept'
    <3>1. life # "down"
      BY <2>5 DEF InsertFails, IInv, PhaseInv, Flushers
    <3>2. QED
      BY <2>5, <3>1 DEF InsertFails, IInv, TypeOK
  <2>11. ASSUME NEW a \in Flushers, CutOff(a), life # "down" PROVE Kept'
    <3>1. \A x \in InFlight : x \in InFlight' \/ x \in cut'
      BY <2>11 DEF CutOff, IInv, TypeOK
    <3>2. stored \subseteq stored' /\ cut \subseteq cut' /\ UNCHANGED <<logged, buffer>>
      BY <2>11 DEF CutOff
    <3>3. QED
      BY <2>11, <3>1, <3>2
  <2>6. CASE CancelLoop
    BY <2>6, <2>11 DEF CancelLoop, Flushers
  <2>12. ASSUME NEW r \in Requests, CancelRequest(r) PROVE Kept'
    <3>1. life = "running"
      BY <2>12 DEF CancelRequest, IInv, PhaseInv
    <3>2. QED
      BY <2>11, <2>12, <3>1 DEF CancelRequest, Flushers
  <2>7. CASE FinalFlush
    BY <2>2, <2>7 DEF FinalFlush, Flushers
  <2>8. CASE Close
    <3>1. warned \/ buffer = {}
      BY <2>8 DEF Close, IInv, PhaseInv
    <3>2. QED
      BY <2>8, <3>1 DEF Close
  <2>9. CASE UNCHANGED vars
    BY <2>9 DEF vars
  <2>10. QED
    BY <2>1, <2>3, <2>4, <2>5, <2>6, <2>7, <2>8, <2>9, <2>12 DEF Next
<1>3. Kept => NothingLost
  BY DEF NothingLost
<1>4. QED
  BY <1>1, <1>2, <1>3, Phases, PTL DEF Spec

(***************************************************************************)
(* Nothing is in flight once the engine is down (engine/boot.py:212-232),  *)
(* and without a warning every record whose insert nobody cancelled is in  *)
(* the table.                                                              *)
(***************************************************************************)
THEOREM CleanShutdown == Spec => []CleanShutdownStoresAll
<1>1. IInv /\ NothingLost => CleanShutdownStoresAll
  <2> SUFFICES ASSUME IInv, NothingLost, life = "down"
               PROVE  InFlight = {} /\ (warned \/ logged \ cut \subseteq stored)
    BY DEF CleanShutdownStoresAll
  <2>1. InFlight = {}
    BY InFlightMember DEF IInv, PhaseInv, Flushers
  <2>2. ~warned => buffer = {}
    BY DEF IInv, PhaseInv
  <2>3. QED
    BY <2>1, <2>2 DEF NothingLost
<1>2. QED
  BY <1>1, Phases, NoRecordLost, PTL

(***************************************************************************)
(* Every record is held once (audit.py:323-325, 361-367), for any number   *)
(* of flushes, failures, cancellations and lost acknowledgements.          *)
(***************************************************************************)
Separate ==
  /\ \A a \in Flushers : batch[a] \cap buffer = {}
  /\ \A a, b \in Flushers : a # b => batch[a] \cap batch[b] = {}

\* No two flushes insert the same row, and none inserts what is still buffered
\* (audit.py, flush_to_store).
THEOREM OnePlaceOnly == Spec => []HeldOnce
<1>1. Init => Separate
  BY DEF Init, Separate
<1>2. TypeOK /\ Separate /\ [Next]_vars => Separate'
  <2> SUFFICES ASSUME TypeOK, Separate, [Next]_vars PROVE Separate'
    OBVIOUS
  <2> USE DEF Separate
  <2>1. ASSUME NEW e \in Entries, Emit(e) PROVE Separate'
    BY <2>1 DEF Emit, TypeOK
  <2>2. ASSUME NEW a \in Flushers, Drain(a) PROVE Separate'
    BY <2>2 DEF Drain, TypeOK
  <2>3. ASSUME NEW a \in Requests \cup {Loop}, StartFlush(a) PROVE Separate'
    BY <2>2, <2>3 DEF StartFlush, Flushers
  <2>4. ASSUME NEW a \in Flushers, InsertSucceeds(a) PROVE Separate'
    BY <2>4 DEF InsertSucceeds, TypeOK
  <2>5. ASSUME NEW a \in Flushers, InsertFails(a) PROVE Separate'
    BY <2>5 DEF InsertFails, TypeOK
  <2>6. ASSUME NEW a \in Flushers, CutOff(a) PROVE Separate'
    BY <2>6 DEF CutOff, TypeOK
  <2>7. CASE FinalFlush
    BY <2>2, <2>7 DEF FinalFlush, Flushers
  <2>8. CASE Close
    BY <2>8 DEF Close
  <2>9. CASE UNCHANGED vars
    BY <2>9 DEF vars
  <2>10. QED
    BY <2>1, <2>3, <2>4, <2>5, <2>6, <2>7, <2>8, <2>9
       DEF Next, CancelLoop, CancelRequest, Flushers
<1>3. Separate => HeldOnce
  BY InFlightMember DEF Separate, HeldOnce
<1>4. QED
  BY <1>1, <1>2, <1>3, TypeCorrect, PTL DEF Spec

(***************************************************************************)
(* The audit trail implements the contract of an append-only table, with   *)
(* failing inserts, lost acknowledgements and cancelled requests: rows are *)
(* only added, from what was pending, and pending entries leave without    *)
(* being written only when their insert is cancelled or the engine goes    *)
(* down.                                                                   *)
(***************************************************************************)
THEOREM Refinement == Spec => ImplementsContract
<1> USE InFlightMember, InFlightMemberNext
<1>1. Init => Contract!Init
  BY DEF Init, Contract!Init, Pending, InFlight
<1>2. IInv /\ HeldOnce /\ [Next]_vars => [Contract!Next]_(Contract!contractVars)
  <2> SUFFICES ASSUME IInv, HeldOnce, Next
               PROVE  Contract!Next \/ UNCHANGED Contract!contractVars
    BY DEF vars, Contract!contractVars, Pending, InFlight
  <2> USE DEF IInv, TypeOK, Pending
  <2>1. ASSUME NEW e \in Entries, Emit(e) PROVE Contract!Accept(e)
    <3>1. Pending' = Pending \cup {e}
      BY <2>1 DEF Emit
    <3>2. QED
      BY <2>1, <3>1 DEF Emit, Contract!Accept
  <2>2. ASSUME NEW a \in Flushers, Drain(a), (life = "running") = (life' = "running")
        PROVE UNCHANGED Contract!contractVars
    <3>1. Pending' = Pending
      BY <2>2 DEF Drain
    <3>2. QED
      BY <2>2, <3>1 DEF Drain, Contract!contractVars
  <2>3. ASSUME NEW a \in Requests \cup {Loop}, StartFlush(a)
        PROVE UNCHANGED Contract!contractVars
    BY <2>2, <2>3 DEF StartFlush, Flushers
  <2>4. ASSUME NEW a \in Flushers, InsertSucceeds(a) PROVE Contract!Persist(batch[a])
    <3>1. Pending' = Pending \ batch[a]
      BY <2>4 DEF InsertSucceeds
    <3>2. QED
      BY <2>4, <3>1 DEF InsertSucceeds, Contract!Persist
  <2>5. ASSUME NEW a \in Flushers, InsertFails(a)
        PROVE  Contract!Persist(stored' \ stored)
    <3>1. \A x : x \in buffer' \cup InFlight' <=> x \in buffer \cup InFlight
      BY <2>5 DEF InsertFails
    <3>2. stored \subseteq stored' /\ cut' = cut /\ life' = life
      BY <2>5 DEF InsertFails
    <3>3. QED
      BY <3>1, <3>2 DEF Contract!Persist
  <2>6. ASSUME NEW a \in Flushers, InsertSucceeds(a) \/ InsertFails(a)
        PROVE  \E S \in SUBSET Pending : Contract!Persist(S)
    <3>1. CASE InsertSucceeds(a)
      <4>1. batch[a] \in SUBSET Pending
        BY <3>1 DEF InsertSucceeds, Insertable
      <4>2. QED
        BY <2>4, <3>1, <4>1
    <3>2. CASE InsertFails(a)
      <4>1. stored' \ stored \in SUBSET Pending
        BY <3>2 DEF InsertFails, Insertable
      <4>2. QED
        BY <2>5, <3>2, <4>1
    <3>3. QED
      BY <2>6, <3>1, <3>2
  <2>7. ASSUME NEW a \in Flushers, CutOff(a)
        PROVE  batch[a] \in SUBSET (Pending \cup stored) /\ Contract!Abandon(batch[a])
    <3>1. batch[a] \cap buffer = {} /\ \A b \in Flushers \ {a} : batch[b] \cap batch[a] = {}
      BY DEF HeldOnce
    <3>2. \A b \in Flushers : batch'[b] = IF b = a THEN {} ELSE batch[b]
      BY <2>7 DEF CutOff
    <3>3. \A x : x \in InFlight' <=> x \in InFlight /\ x \notin batch[a]
      BY <3>1, <3>2
    <3>4. stored' \in {stored, stored \cup batch[a]} /\ buffer' = buffer
      BY <2>7 DEF CutOff
    <3>5. Pending' = Pending \ batch[a]
      BY <3>1, <3>3, <3>4
    <3>6. cut' = cut \cup batch[a]
      BY <2>7 DEF CutOff
    <3>7. Contract!Abandon(batch[a])
      BY <3>4, <3>5, <3>6 DEF Contract!Abandon
    <3>8. QED
      BY <3>7
  <2>11. CASE CancelLoop
    <3>1. Contract!Close(batch[Loop])
      BY <2>7, <2>11 DEF CancelLoop, Contract!Close, Flushers
    <3>2. QED
      BY <2>7, <2>11, <3>1 DEF CancelLoop, Contract!Next, Flushers
  <2>12. ASSUME NEW r \in Requests, CancelRequest(r) PROVE Contract!Next
    <3>1. life = "running" /\ r \in Flushers
      BY <2>12 DEF CancelRequest, PhaseInv, Flushers
    <3>2. Contract!Cancel(batch[r])
      BY <2>7, <2>12, <3>1 DEF CancelRequest, Contract!Cancel
    <3>3. QED
      BY <2>7, <2>12, <3>1, <3>2 DEF CancelRequest, Contract!Next
  <2>8. CASE FinalFlush
    BY <2>2, <2>8 DEF FinalFlush, Flushers
  <2>9. CASE Close
    <3>1. life # "running" /\ life' # "running" /\ stored' = stored /\ cut' = cut
      BY <2>9 DEF Close
    <3>2. Pending' = {}
      BY <2>9 DEF Close, IInv, PhaseInv, Flushers
    <3>3. QED
      BY <3>1, <3>2 DEF Contract!Discard, Contract!Next
  <2>10. QED
    BY <2>1, <2>3, <2>6, <2>8, <2>9, <2>11, <2>12 DEF Next, Contract!Next
<1>3. QED
  BY <1>1, <1>2, Phases, OnePlaceOnly, PTL DEF Spec, ImplementsContract, Contract!Spec
=============================================================================
