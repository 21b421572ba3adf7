----------------------------- MODULE AuditContract -----------------------------
(***************************************************************************)
(* What the audit buffer promises to packet_audit_log, the append-only     *)
(* table of engine/packet/packet_store.sql: rows are only added, each row  *)
(* was pending before, and a pending entry is dropped only when its insert *)
(* is cancelled or once the process is going down.                         *)
(***************************************************************************)
CONSTANT Entries

VARIABLES
  pending,    \* accepted, not in the table yet
  durable,    \* rows of the table
  abandoned,  \* entries whose insert was cancelled
  open        \* the process still accepts entries

contractVars == <<pending, durable, abandoned, open>>

Init == pending = {} /\ durable = {} /\ abandoned = {} /\ open = TRUE

Accept(e) ==
  /\ open
  /\ e \notin pending \cup durable \cup abandoned
  /\ pending' = pending \cup {e}
  /\ UNCHANGED <<durable, abandoned, open>>

Persist(S) ==
  /\ pending' = pending \ S
  /\ durable' = durable \cup S
  /\ UNCHANGED <<abandoned, open>>

\* The insert of S is cancelled; it may have been written as a whole.
Abandon(S) ==
  /\ abandoned' = abandoned \cup S
  /\ pending' = pending \ S
  /\ durable' \in {durable, durable \cup S}

\* A request in its flush is cancelled.
Cancel(S) == open /\ UNCHANGED open /\ Abandon(S)

\* Shutting down cancels the flush of the loop.
Close(S) == open /\ open' = FALSE /\ Abandon(S)

Discard ==
  /\ ~open
  /\ pending' = {}
  /\ UNCHANGED <<durable, abandoned, open>>

Next ==
  \/ \E e \in Entries : Accept(e)
  \/ \E S \in SUBSET pending : Persist(S)
  \/ \E S \in SUBSET (pending \cup durable) : Cancel(S) \/ Close(S)
  \/ Discard

Spec == Init /\ [][Next]_contractVars
=============================================================================
