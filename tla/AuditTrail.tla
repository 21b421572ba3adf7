------------------------------ MODULE AuditTrail ------------------------------
(***************************************************************************)
(* The audit trail of one domain: the AuditLogger buffer of its            *)
(* ComplianceEngine, the request tasks and the 60 s loop that flush it     *)
(* into packet_audit_log, and the shutdown of the engine                   *)
(* (engine/compliance/audit.py, engine/compliance/engine.py,               *)
(* engine/boot.py, engine/handlers.py).                                    *)
(*                                                                         *)
(* A flush drains the buffer without an await (one step) and then awaits   *)
(* one executemany, which PostgreSQL runs as a whole or not at all.  The   *)
(* primary key audit_id refuses a row that is already there, and the       *)
(* driver a row it cannot encode: metadata is a dict, which goes into a    *)
(* JSONB column only over a connection with a codec for it.  The pool of   *)
(* boot.py has none, so there no insert ever succeeds.  The order of a     *)
(* batch is not modelled: rows carry their own timestamps.  All entries    *)
(* are logged by handlers, that is, in the event loop's own thread.        *)
(*                                                                         *)
(* Only a logger with a connection pool is modelled: without one           *)
(* flush_audit returns before it touches the buffer.                       *)
(***************************************************************************)
EXTENDS FiniteSets, Naturals

CONSTANTS
  Entries,        \* audit entries, told apart by audit_id
  Requests,       \* request tasks of handle_match and handle_sync
  Loop,           \* the task of _compliance_flush_loop
  Final,          \* the last flush, in GraphLifecycle.shutdown
  Encodable,      \* entries the connections of the pool can encode ({} for boot.py's)
  StoreMayFail,   \* an insert may fail
  AckMayBeLost    \* a failed insert may have been committed

ASSUME AuditAssumption ==
  /\ Loop \notin Requests /\ Final \notin Requests /\ Loop # Final
  /\ Encodable \subseteq Entries
  /\ {StoreMayFail, AckMayBeLost} \subseteq BOOLEAN

Flushers == Requests \cup {Loop, Final}

VARIABLES
  life,     \* running, draining (loop cancelled), closing (last flush), or down
  logged,   \* entries the domain's logger has put into the structured log
  buffer,   \* _buffer
  batch,    \* per flusher: the entries it has drained and is inserting
  stored,   \* packet_audit_log
  cut,      \* history: entries whose insert was cancelled
  warned    \* "Final compliance flush failed" was logged

vars == <<life, logged, buffer, batch, stored, cut, warned>>

Lives == {"running", "draining", "closing", "down"}

TypeOK ==
  /\ life \in Lives
  /\ logged \in SUBSET Entries
  /\ buffer \in SUBSET logged
  /\ batch \in [Flushers -> SUBSET logged]
  /\ stored \in SUBSET logged
  /\ cut \in SUBSET logged
  /\ warned \in BOOLEAN

Init ==
  /\ life = "running"
  /\ logged = {} /\ buffer = {} /\ stored = {} /\ cut = {}
  /\ batch = [a \in Flushers |-> {}]
  /\ warned = FALSE

(***************************************************************************)
(* log_query, log_access, log_mutation: _emit appends to the buffer.  A    *)
(* full buffer is only remarked upon in the debug log.                     *)
(***************************************************************************)
Emit(e) ==
  /\ life = "running"
  /\ e \notin logged
  /\ logged' = logged \cup {e}
  /\ buffer' = buffer \cup {e}
  /\ UNCHANGED <<life, batch, stored, cut, warned>>

\* Mutant: the buffer is copied and not cleared.
DrainKeepsBuffer(a) ==
  /\ batch[a] = {} /\ buffer # {}
  /\ batch' = [batch EXCEPT ![a] = buffer]
  /\ UNCHANGED <<buffer, stored, cut, warned>>

(***************************************************************************)
(* flush_to_store.                                                         *)
(***************************************************************************)
Drain(a) ==
  /\ batch[a] = {} /\ buffer # {}
  /\ batch' = [batch EXCEPT ![a] = buffer]
  /\ buffer' = {}
  /\ UNCHANGED <<stored, cut, warned>>

\* The flush of a request, or of the loop when its timer fires.
StartFlush(a) ==
  /\ life = "running"
  /\ Drain(a)
  /\ UNCHANGED <<life, logged>>

\* The table and the driver take a batch whose rows are all new and encodable.
Insertable(S) == S \cap stored = {} /\ S \subseteq Encodable

InsertSucceeds(a) ==
  /\ batch[a] # {} /\ Insertable(batch[a])
  /\ stored' = stored \cup batch[a]
  /\ batch' = [batch EXCEPT ![a] = {}]
  /\ UNCHANGED <<life, logged, buffer, cut, warned>>

\* Mutant: the handler of the failure puts nothing back.
InsertFailsNoRebuffer(a) ==
  /\ batch[a] # {}
  /\ StoreMayFail
  /\ batch' = [batch EXCEPT ![a] = {}]
  /\ UNCHANGED <<life, logged, buffer, stored, cut, warned>>

\* Mutant: the batch replaces the buffer instead of going in front of it.
InsertFailsOverwrites(a) ==
  /\ batch[a] # {}
  /\ StoreMayFail
  /\ batch' = [batch EXCEPT ![a] = {}]
  /\ buffer' = batch[a]
  /\ UNCHANGED <<life, logged, stored, cut, warned>>

\* Any exception, a refused row included: the entries go back in front of the
\* buffer and the exception is raised again.
InsertFails(a) ==
  /\ batch[a] # {}
  /\ StoreMayFail \/ ~Insertable(batch[a])
  /\ batch' = [batch EXCEPT ![a] = {}]
  /\ buffer' = batch[a] \cup buffer
  /\ stored' \in {stored} \cup
       {S \in {stored \cup batch[a]} : AckMayBeLost /\ Insertable(batch[a])}
  /\ warned' = (warned \/ a = Final)
  /\ UNCHANGED <<life, logged, cut>>

(***************************************************************************)
(* Cancelling a flusher in its insert: CancelledError is no Exception, so  *)
(* the batch is not put back; PostgreSQL may or may not have committed it. *)
(***************************************************************************)
CutOff(a) ==
  /\ cut' = cut \cup batch[a]
  /\ batch' = [batch EXCEPT ![a] = {}]
  /\ stored' \in {stored} \cup {S \in {stored \cup batch[a]} : Insertable(batch[a])}
  /\ UNCHANGED <<logged, buffer, warned>>

\* The request is cancelled while it awaits its own flush.
CancelRequest(r) ==
  /\ batch[r] # {}
  /\ CutOff(r)
  /\ UNCHANGED life

\* GraphLifecycle.shutdown, once the server has let its requests finish.
CancelLoop ==
  /\ life = "running"
  /\ \A r \in Requests : batch[r] = {}
  /\ life' = "draining"
  /\ CutOff(Loop)

FinalFlush ==
  /\ life = "draining"
  /\ life' = "closing"
  /\ Drain(Final)
  /\ UNCHANGED logged

\* Mutant: state.shutdown does not wait for the last flush.
CloseEarly ==
  /\ life = "draining"
  /\ life' = "down"
  /\ buffer' = {}
  /\ UNCHANGED <<logged, batch, stored, cut, warned>>

\* state.shutdown: the engine, its logger and what is left in it are dropped.
Close ==
  /\ \/ life = "draining" /\ buffer = {}
     \/ life = "closing" /\ batch[Final] = {}
  /\ life' = "down"
  /\ buffer' = {}
  /\ UNCHANGED <<logged, batch, stored, cut, warned>>

Next ==
  \/ \E e \in Entries : Emit(e)
  \/ \E a \in Requests \cup {Loop} : StartFlush(a)
  \/ \E a \in Flushers : InsertSucceeds(a) \/ InsertFails(a)
  \/ \E r \in Requests : CancelRequest(r)
  \/ CancelLoop \/ FinalFlush \/ Close

Spec == Init /\ [][Next]_vars

-----------------------------------------------------------------------------
InFlight == UNION {batch[a] : a \in Flushers}

(***************************************************************************)
(* While requests and the loop flush over one another, inserts fail and    *)
(* requests are cancelled, a record that is neither buffered, in flight    *)
(* nor stored is one of a batch whose insert was cancelled; after the end  *)
(* it may also be one that the last flush warned of.                       *)
(***************************************************************************)
NothingLost ==
  (life = "down" /\ warned) \/ logged \ cut \subseteq buffer \cup InFlight \cup stored

(***************************************************************************)
(* A record is held once: no two flushes insert the same row, and none     *)
(* inserts what is still buffered, however often batches are put back into *)
(* a buffer that others drain.                                             *)
(***************************************************************************)
HeldOnce ==
  /\ buffer \cap InFlight = {}
  /\ \A a, b \in Flushers : a # b => batch[a] \cap batch[b] = {}

(***************************************************************************)
(* Once down, nothing is in flight: the last flush was waited for, and     *)
(* unless it warned, the table lacks cancelled batches only.               *)
(***************************************************************************)
CleanShutdownStoresAll ==
  life = "down" => InFlight = {} /\ (warned \/ logged \ cut \subseteq stored)

(***************************************************************************)
(* The trail implements the contract of an append-only table.              *)
(***************************************************************************)
Pending == (buffer \cup InFlight) \ stored

Contract == INSTANCE AuditContract WITH
  pending <- Pending, durable <- stored, abandoned <- cut, open <- life = "running"

ImplementsContract == Contract!Spec
=============================================================================
