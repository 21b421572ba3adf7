-------------------------- MODULE PacketStore_proofs --------------------------
(***************************************************************************)
(* The packet store keeps its promises for any calls, payloads, tenants    *)
(* and restarts: pairs are whole, only repeats are dropped, and a key is   *)
(* stored once.                                                            *)
(*                                                                         *)
(* The invariant ties a call's place to what its open transaction holds    *)
(* (TransactionsOK), what is stored to calls that have ended               *)
(* (StoredHasEnded), and a request row that was not inserted to the row    *)
(* that kept it out (SkippedIsStored).                                     *)
(***************************************************************************)
EXTENDS PacketStore, TLAPS

\* A transaction holds its request row, then both rows, and nothing before it
\* begins or after it ends.
TransactionsOK ==
    \A c \in Calls :
        /\ pc[c] = "requested" => inserted[c] \in {{}, {"request"}}
        /\ pc[c] = "responded" => inserted[c] = Parts
        /\ pc[c] \notin {"requested", "responded"} => inserted[c] = {}

\* Only calls that are answered, or died on their commit, have committed.
StoredHasEnded == \A c \in edges : pc[c] \in {"answered", "dead"}

\* A request row is left out of a transaction only if a stored one has its key.
SkippedIsStored ==
    \A c \in Calls :
        pc[c] = "requested" /\ inserted[c] = {} =>
            \E d \in edges \ {c} : Key(d) = Key(c)

Holds(c) == c \in edges \/ "request" \in inserted[c]

\* uq_content_hash: of the calls with one payload and tenant at most one has
\* its request row stored or in an open transaction.
KeysOnce ==
    \A c, d \in Calls : Holds(c) /\ Holds(d) /\ Key(c) = Key(d) => c = d

IInv ==
    /\ TypeOK
    /\ TransactionsOK
    /\ PairsAreWhole
    /\ StoredHasEnded
    /\ SkippedIsStored
    /\ OnlyRepeatsAreDropped
    /\ KeysOnce

\* No call has arrived: nothing is open, stored or answered.
LEMMA InitHolds == Init => IInv
<1> SUFFICES ASSUME Init PROVE IInv
  OBVIOUS
<1>1. TypeOK
  <2>1. restarts \in 0..MaxRestarts
    BY StoreAssumption DEF Init
  <2> QED
    BY <2>1 DEF Init, TypeOK
<1>2. TransactionsOK /\ PairsAreWhole /\ StoredHasEnded /\ SkippedIsStored
  BY DEF Init, TransactionsOK, PairsAreWhole, StoredHasEnded, SkippedIsStored
<1>3. OnlyRepeatsAreDropped /\ KeysOnce
  BY DEF Init, OnlyRepeatsAreDropped, KeysOnce, Holds
<1> QED
  BY <1>1, <1>2, <1>3 DEF IInv

\* A call arrives: its key and its place are its own.
LEMMA HandleKeeps ==
    ASSUME IInv, NEW c \in Calls, NEW p \in Payloads, NEW t \in Tenants,
           Handle(c, p, t)
    PROVE  IInv'
<1>1. TypeOK'
  BY DEF IInv, TypeOK, Handle, pooling, database
<1>2. TransactionsOK'
  BY DEF IInv, TransactionsOK, Handle
<1>3. PairsAreWhole'
  BY DEF IInv, PairsAreWhole, Handle, database
<1>4. StoredHasEnded'
  BY DEF IInv, StoredHasEnded, Handle, database
<1>5. SkippedIsStored'
  BY DEF IInv, StoredHasEnded, SkippedIsStored, Key, Handle, database
<1>6. OnlyRepeatsAreDropped'
  BY DEF IInv, StoredHasEnded, OnlyRepeatsAreDropped, Key, Handle, database
<1>7. KeysOnce'
  BY DEF IInv, TransactionsOK, StoredHasEnded, KeysOnce, Key, Holds, Handle,
         database
<1> QED
  BY <1>1, <1>2, <1>3, <1>4, <1>5, <1>6, <1>7 DEF IInv

\* So does an outcomes call.
LEMMA HandleOutcomeKeeps ==
    ASSUME IInv, NEW c \in Calls, NEW p \in Payloads, NEW t \in Tenants,
           HandleOutcome(c, p, t)
    PROVE  IInv'
<1>1. TypeOK'
  BY DEF IInv, TypeOK, HandleOutcome, pooling, database
<1>2. TransactionsOK'
  BY DEF IInv, TransactionsOK, HandleOutcome
<1>3. PairsAreWhole'
  BY DEF IInv, PairsAreWhole, HandleOutcome, database
<1>4. StoredHasEnded'
  BY DEF IInv, StoredHasEnded, HandleOutcome, database
<1>5. SkippedIsStored'
  BY DEF IInv, StoredHasEnded, SkippedIsStored, Key, HandleOutcome, database
<1>6. OnlyRepeatsAreDropped'
  BY DEF IInv, StoredHasEnded, OnlyRepeatsAreDropped, Key, HandleOutcome, database
<1>7. KeysOnce'
  BY DEF IInv, TransactionsOK, StoredHasEnded, KeysOnce, Key, Holds, HandleOutcome,
         database
<1> QED
  BY <1>1, <1>2, <1>3, <1>4, <1>5, <1>6, <1>7 DEF IInv

\* Opening the pool touches nothing that is stored or held.
LEMMA PoolKeeps ==
    ASSUME IInv, NEW c \in Calls, BeginOpen(c) \/ FinishOpen(c)
    PROVE  IInv'
<1>1. TypeOK'
  BY DEF IInv, TypeOK, BeginOpen, FinishOpen, calls, database
<1>2. TransactionsOK'
  BY DEF IInv, TransactionsOK, BeginOpen, FinishOpen
<1>3. PairsAreWhole'
  BY DEF IInv, PairsAreWhole, BeginOpen, FinishOpen, database
<1>4. StoredHasEnded'
  BY DEF IInv, StoredHasEnded, BeginOpen, FinishOpen, database
<1>5. SkippedIsStored'
  BY DEF IInv, SkippedIsStored, Key, BeginOpen, FinishOpen, calls, database
<1>6. OnlyRepeatsAreDropped'
  BY DEF IInv, OnlyRepeatsAreDropped, Key, BeginOpen, FinishOpen, calls, database
<1>7. KeysOnce'
  BY DEF IInv, KeysOnce, Key, Holds, BeginOpen, FinishOpen, calls, database
<1> QED
  BY <1>1, <1>2, <1>3, <1>4, <1>5, <1>6, <1>7 DEF IInv

\* record_outcome writes nothing.
LEMMA RecordKeeps ==
    ASSUME IInv, NEW c \in Calls, RecordOutcome(c)
    PROVE  IInv'
<1>1. TypeOK'
  BY DEF IInv, TypeOK, RecordOutcome, calls, database
<1>2. TransactionsOK'
  BY DEF IInv, TransactionsOK, RecordOutcome
<1>3. PairsAreWhole'
  BY DEF IInv, PairsAreWhole, RecordOutcome, database
<1>4. StoredHasEnded'
  BY DEF IInv, StoredHasEnded, RecordOutcome, database
<1>5. SkippedIsStored'
  BY DEF IInv, SkippedIsStored, Key, RecordOutcome, calls, database
<1>6. OnlyRepeatsAreDropped'
  BY DEF IInv, OnlyRepeatsAreDropped, Key, RecordOutcome, calls, database
<1>7. KeysOnce'
  BY DEF IInv, KeysOnce, Key, Holds, RecordOutcome, calls, database
<1> QED
  BY <1>1, <1>2, <1>3, <1>4, <1>5, <1>6, <1>7 DEF IInv

\* The request row is inserted when its key is free, and is left out only when its key
\* is stored.
LEMMA InsertRequestKeeps ==
    ASSUME IInv, NEW c \in Calls, InsertRequest(c)
    PROVE  IInv'
<1>1. TypeOK'
  BY DEF IInv, TypeOK, Parts, InsertRequest, calls, pooling, database
<1>2. TransactionsOK'
  BY DEF IInv, TypeOK, TransactionsOK, InsertRequest
<1>3. PairsAreWhole'
  BY DEF IInv, PairsAreWhole, InsertRequest, database
<1>4. StoredHasEnded'
  BY DEF IInv, StoredHasEnded, InsertRequest, database
<1>5. SkippedIsStored'
  <2> SUFFICES ASSUME NEW d \in Calls, pc'[d] = "requested", inserted'[d] = {}
               PROVE  \E e \in edges \ {d} : Key(e) = Key(d)
    BY DEF SkippedIsStored, InsertRequest, database, calls, Key
  <2>1. CASE d = c
    <3>1. KeyStored(c)
      BY <2>1 DEF IInv, TypeOK, InsertRequest
    <3>2. PICK e \in Calls : Key(e) = Key(c) /\ <<e, "request">> \in rows
      BY <3>1 DEF KeyStored
    <3>3. e \in edges
      BY <3>2 DEF IInv, PairsAreWhole
    <3>4. e # c
      BY <3>3 DEF IInv, StoredHasEnded, InsertRequest
    <3> QED
      BY <2>1, <3>2, <3>3, <3>4
  <2>2. CASE d # c
    BY <2>2 DEF IInv, SkippedIsStored, InsertRequest
  <2> QED
    BY <2>1, <2>2
<1>6. OnlyRepeatsAreDropped'
  BY DEF IInv, OnlyRepeatsAreDropped, Key, InsertRequest, calls, database
<1>7. KeysOnce'
  <2>1. /\ \A d \in Calls : Key(d)' = Key(d)
        /\ edges' = edges /\ edges \in SUBSET Calls
    BY DEF IInv, TypeOK, InsertRequest, calls, database, Key
  <2>2. ASSUME NEW d \in Calls, d # c
        PROVE  Holds(d)' = Holds(d)
    BY <2>2, <2>1 DEF Holds, InsertRequest
  <2>3. ASSUME Holds(c)', NEW d \in Calls, d # c, Holds(d)
        PROVE  Key(c) # Key(d)
    <3>1. CASE KeyStored(c)
      BY <2>1, <2>3, <3>1 DEF IInv, KeysOnce, Holds, InsertRequest
    <3>2. CASE ~KeyStored(c)
      BY <2>3, <3>2 DEF IInv, PairsAreWhole, Holds, KeyStored, KeyHeld, InsertRequest
    <3> QED
      BY <3>1, <3>2
  <2> QED
    BY <2>1, <2>2, <2>3 DEF IInv, KeysOnce
<1> QED
  BY <1>1, <1>2, <1>3, <1>4, <1>5, <1>6, <1>7 DEF IInv

\* The response row joins the request row.
LEMMA InsertResponseKeeps ==
    ASSUME IInv, NEW c \in Calls, InsertResponse(c)
    PROVE  IInv'
<1>1. TypeOK'
  BY DEF IInv, TypeOK, InsertResponse, calls, pooling, database
<1>2. TransactionsOK'
  BY DEF IInv, TypeOK, TransactionsOK, InsertResponse
<1>3. PairsAreWhole'
  BY DEF IInv, PairsAreWhole, InsertResponse, database
<1>4. StoredHasEnded'
  BY DEF IInv, StoredHasEnded, InsertResponse, database
<1>5. SkippedIsStored'
  BY DEF IInv, TypeOK, SkippedIsStored, Key, InsertResponse, calls, database
<1>6. OnlyRepeatsAreDropped'
  BY DEF IInv, OnlyRepeatsAreDropped, Key, InsertResponse, calls, database
<1>7. KeysOnce'
  BY DEF IInv, KeysOnce, Key, Holds, InsertResponse, calls, database
<1> QED
  BY <1>1, <1>2, <1>3, <1>4, <1>5, <1>6, <1>7 DEF IInv

\* A pair is dropped whole, and then a stored one has its key.
LEMMA ParentMissingKeeps ==
    ASSUME IInv, NEW c \in Calls, ParentMissing(c)
    PROVE  IInv'
<1>1. TypeOK'
  BY DEF IInv, TypeOK, ParentMissing, RolledBack, calls, pooling, database
<1>2. TransactionsOK'
  BY DEF IInv, TransactionsOK, ParentMissing, RolledBack
<1>3. PairsAreWhole'
  BY DEF IInv, PairsAreWhole, ParentMissing, database
<1>4. StoredHasEnded'
  BY DEF IInv, StoredHasEnded, ParentMissing, database
<1>5. SkippedIsStored'
  BY DEF IInv, TransactionsOK, SkippedIsStored, Key, ParentMissing, RolledBack, calls,
         database
<1>6. OnlyRepeatsAreDropped'
  BY DEF IInv, TransactionsOK, SkippedIsStored, OnlyRepeatsAreDropped, Key,
         ParentMissing, calls, database
<1>7. KeysOnce'
  BY DEF IInv, KeysOnce, Key, Holds, ParentMissing, RolledBack, calls, database
<1> QED
  BY <1>1, <1>2, <1>3, <1>4, <1>5, <1>6, <1>7 DEF IInv

\* Both rows are committed with the edge, whether or not the acknowledgement arrives.
LEMMA CommitKeeps ==
    ASSUME IInv, NEW c \in Calls, Commit(c) \/ AckLost(c)
    PROVE  IInv'
<1>1. TypeOK'
  BY DEF IInv, TypeOK, Commit, AckLost, Committed, RolledBack, calls, pooling
<1>2. TransactionsOK'
  BY DEF IInv, TypeOK, TransactionsOK, Commit, AckLost, Committed, RolledBack
<1>3. PairsAreWhole'
  <2>1. inserted[c] = {"request", "response"}
    BY DEF IInv, TransactionsOK, Parts, Commit, AckLost
  <2>2. rows' = rows \cup ({c} \X inserted[c]) /\ edges' = edges \cup {c}
    BY DEF Commit, AckLost, Committed
  <2> QED
    BY <2>1, <2>2 DEF IInv, PairsAreWhole
<1>4. StoredHasEnded'
  BY DEF IInv, TypeOK, StoredHasEnded, Commit, AckLost, Committed
<1>5. SkippedIsStored'
  BY DEF IInv, TypeOK, SkippedIsStored, Key, Commit, AckLost, Committed, RolledBack, calls
<1>6. OnlyRepeatsAreDropped'
  BY DEF IInv, TypeOK, OnlyRepeatsAreDropped, Key, Commit, AckLost, Committed, calls
<1>7. KeysOnce'
  <2>1. \A d \in Calls : Key(d)' = Key(d)
    BY DEF Commit, AckLost, Committed, calls, Key
  <2>2. "request" \in inserted[c]
    BY DEF IInv, TransactionsOK, Parts, Commit, AckLost
  <2>3. \A d \in Calls : Holds(d)' = Holds(d)
    BY <2>2 DEF IInv, TypeOK, Holds, Commit, AckLost, Committed, RolledBack
  <2> QED
    BY <2>1, <2>3 DEF IInv, KeysOnce
<1> QED
  BY <1>1, <1>2, <1>3, <1>4, <1>5, <1>6, <1>7 DEF IInv

\* A failure rolls back whatever the transaction held.
LEMMA PersistFailsKeeps ==
    ASSUME IInv, NEW c \in Calls, PersistFails(c)
    PROVE  IInv'
<1>1. TypeOK'
  BY DEF IInv, TypeOK, PersistFails, RolledBack, calls, database
<1>2. TransactionsOK'
  BY DEF IInv, TypeOK, TransactionsOK, PersistFails, RolledBack
<1>3. PairsAreWhole'
  BY DEF IInv, PairsAreWhole, PersistFails, database
<1>4. StoredHasEnded'
  BY DEF IInv, StoredHasEnded, PersistFails, database
<1>5. SkippedIsStored'
  BY DEF IInv, TypeOK, SkippedIsStored, Key, PersistFails, RolledBack, calls, database
<1>6. OnlyRepeatsAreDropped'
  BY DEF IInv, OnlyRepeatsAreDropped, Key, PersistFails, calls, database
<1>7. KeysOnce'
  BY DEF IInv, KeysOnce, Key, Holds, PersistFails, RolledBack, calls, database
<1> QED
  BY <1>1, <1>2, <1>3, <1>4, <1>5, <1>6, <1>7 DEF IInv

\* A cancelled call leaves its pair whole or not at all.
LEMMA CancelKeeps ==
    ASSUME IInv, NEW c \in Calls, Cancel(c)
    PROVE  IInv'
<1>1. TypeOK'
  BY DEF IInv, TypeOK, Cancel, Committed, RolledBack, calls, database
<1>2. TransactionsOK'
  BY DEF IInv, TypeOK, TransactionsOK, Cancel, RolledBack
<1>3. PairsAreWhole'
  <2>1. CASE UNCHANGED database
    BY <2>1 DEF IInv, PairsAreWhole, database
  <2>2. CASE pc[c] = "responded" /\ Committed(c)
    <3>1. inserted[c] = {"request", "response"}
      BY <2>2 DEF IInv, TransactionsOK, Parts
    <3>2. rows' = rows \cup ({c} \X inserted[c]) /\ edges' = edges \cup {c}
      BY <2>2 DEF Committed
    <3> QED
      BY <3>1, <3>2 DEF IInv, PairsAreWhole
  <2> QED
    BY <2>1, <2>2 DEF Cancel
<1>4. StoredHasEnded'
  BY DEF IInv, TypeOK, StoredHasEnded, Cancel, Committed, database
<1>5. SkippedIsStored'
  BY DEF IInv, TypeOK, SkippedIsStored, Key, Cancel, Committed, RolledBack, calls,
         database
<1>6. OnlyRepeatsAreDropped'
  BY DEF IInv, TypeOK, OnlyRepeatsAreDropped, Key, Cancel, Committed, calls, database
<1>7. KeysOnce'
  <2>1. \A d \in Calls : Key(d)' = Key(d)
    BY DEF Cancel, calls, Key
  <2>2. pc[c] = "responded" => "request" \in inserted[c]
    BY DEF IInv, TransactionsOK, Parts
  <2>3. \A d \in Calls : Holds(d)' => Holds(d)
    BY <2>2 DEF IInv, TypeOK, Holds, Cancel, Committed, RolledBack, database
  <2> QED
    BY <2>1, <2>3 DEF IInv, KeysOnce
<1> QED
  BY <1>1, <1>2, <1>3, <1>4, <1>5, <1>6, <1>7 DEF IInv

\* A restart rolls back every open transaction and keeps what is committed.
LEMMA RestartKeeps ==
    ASSUME IInv, Restart
    PROVE  IInv'
<1>1. TypeOK'
  <2>1. /\ restarts' \in 0..MaxRestarts
        /\ UNCHANGED <<payload, tenant, rows, edges>>
    BY StoreAssumption DEF IInv, TypeOK, Restart, Alive, calls, database
  <2>2. /\ pc' \in [Calls -> {"new", "record", "persist", "requested", "responded",
                              "answered", "dead"}]
        /\ failed' \in SUBSET Calls
    BY DEF IInv, TypeOK, Restart, Alive
  <2>3. inserted' \in [Calls -> SUBSET Parts] /\ opening' = {} /\ pool' = FALSE
    BY DEF Restart
  <2> QED
    BY <2>1, <2>2, <2>3 DEF IInv, TypeOK
<1>2. TransactionsOK'
  BY DEF TransactionsOK, Restart, Alive
<1>3. PairsAreWhole'
  BY DEF IInv, PairsAreWhole, Restart, database
<1>4. StoredHasEnded'
  BY DEF IInv, TypeOK, StoredHasEnded, Restart, Alive, database
<1>5. SkippedIsStored'
  BY DEF SkippedIsStored, Restart, Alive
<1>6. OnlyRepeatsAreDropped'
  BY DEF IInv, OnlyRepeatsAreDropped, Key, Restart, Alive, calls, database
<1>7. KeysOnce'
  BY DEF IInv, KeysOnce, Key, Holds, Restart, Alive, calls, database
<1> QED
  BY <1>1, <1>2, <1>3, <1>4, <1>5, <1>6, <1>7 DEF IInv

\* No step breaks the invariant.
LEMMA NextKeeps == IInv /\ [Next]_vars => IInv'
<1> SUFFICES ASSUME IInv, [Next]_vars PROVE IInv'
  OBVIOUS
<1>1. CASE UNCHANGED vars
  BY <1>1
  DEF vars, calls, pooling, database, IInv, TypeOK, TransactionsOK, PairsAreWhole,
      StoredHasEnded, SkippedIsStored, OnlyRepeatsAreDropped, KeysOnce, Holds, Key
<1>2. ASSUME NEW c \in Calls, NEW p \in Payloads, NEW t \in Tenants,
             Handle(c, p, t) \/ HandleOutcome(c, p, t)
      PROVE  IInv'
  BY <1>2, HandleKeeps, HandleOutcomeKeeps
<1>3. ASSUME NEW c \in Calls, Progress(c)
      PROVE  IInv'
  BY <1>3, PoolKeeps, RecordKeeps, InsertRequestKeeps, InsertResponseKeeps,
     ParentMissingKeeps, CommitKeeps
  DEF Progress
<1>4. ASSUME NEW c \in Calls, Failure(c)
      PROVE  IInv'
  BY <1>4, CommitKeeps, PersistFailsKeeps, CancelKeeps DEF Failure
<1> QED
  BY <1>1, <1>2, <1>3, <1>4, RestartKeeps DEF Next

\* The invariant holds however calls, failures and restarts interleave.
THEOREM Invariance == Spec => []IInv
  BY InitHolds, NextKeeps, PTL DEF Spec

\* Every variable has its type: a restart leaves no call in a place it cannot be in.
THEOREM TypeCorrect == Spec => []TypeOK
<1>1. IInv => TypeOK
  BY DEF IInv
<1> QED
  BY <1>1, Invariance, PTL

\* A pair is stored whole or not at all, for any number of calls and restarts.
THEOREM PairsWhole == Spec => []PairsAreWhole
<1>1. IInv => PairsAreWhole
  BY DEF IInv
<1> QED
  BY <1>1, Invariance, PTL

\* Without a failure only a repeat of a stored request is dropped.
THEOREM RepeatsDropped == Spec => []OnlyRepeatsAreDropped
<1>1. IInv => OnlyRepeatsAreDropped
  BY DEF IInv
<1> QED
  BY <1>1, Invariance, PTL

\* Two stored pairs never have the same payload and tenant.
THEOREM StoredOnce ==
    Spec => [](\A c, d \in edges : Key(c) = Key(d) => c = d)
<1>1. IInv => \A c, d \in edges : Key(c) = Key(d) => c = d
  BY DEF IInv, TypeOK, KeysOnce, Holds
<1> QED
  BY <1>1, Invariance, PTL
=============================================================================
