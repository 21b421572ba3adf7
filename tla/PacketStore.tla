----------------------------- MODULE PacketStore -----------------------------
(***************************************************************************)
(* The packet store of engine/packet/packet_store.py as the handler        *)
(* wrappers use it (chassis/handler_registration.py, chassis/actions.py):  *)
(* each call to an action is answered after its request and response       *)
(* packets have been offered to PostgreSQL in one transaction.  An         *)
(* outcomes call tries first to write its outcome onto the row of an       *)
(* earlier match, which never succeeds: packet_store has no column         *)
(* outcome_jsonb.  The task of a call may be cancelled wherever it awaits. *)
(*                                                                         *)
(* A call stands for its two packets.  The request row is keyed by payload *)
(* hash and tenant (packet_store.sql, uq_content_hash); the response       *)
(* carries times of its own, so its key never repeats.  A second insert of *)
(* a key waits for the transaction that holds the first.                   *)
(***************************************************************************)
EXTENDS Naturals, FiniteSets

CONSTANTS
    Calls,
    Payloads,
    Tenants,
    None,
    MaxRestarts     \* bound on restarts of the process

ASSUME StoreAssumption ==
    /\ IsFiniteSet(Calls)
    /\ None \notin Calls
    /\ MaxRestarts \in Nat

Parts == {"request", "response"}

VARIABLES
    pc,         \* where each call is
    payload,    \* its payload, by hash
    tenant,     \* and its tenant
    opening,    \* calls that are awaiting asyncpg.create_pool
    pool,       \* whether _PoolManager._pool is set
    inserted,   \* the packet rows of each call's open transaction
    rows,       \* the committed packet rows
    edges,      \* the committed lineage edges, by call
    failed,     \* calls whose pair met a failing pool or query, a cancellation or
                \* a restart
    restarts

calls == <<payload, tenant>>
pooling == <<opening, pool>>
database == <<rows, edges>>
vars == <<pc, calls, pooling, inserted, database, failed, restarts>>

Key(c) == <<payload[c], tenant[c]>>

Init ==
    /\ pc = [c \in Calls |-> "new"]
    /\ payload = [c \in Calls |-> None]
    /\ tenant = [c \in Calls |-> None]
    /\ opening = {}
    /\ pool = FALSE
    /\ inserted = [c \in Calls |-> {}]
    /\ rows = {}
    /\ edges = {}
    /\ failed = {}
    /\ restarts = 0

\* A call arrives and its handler has run, with success or not.
Handle(c, p, t) ==
    /\ pc[c] = "new"
    /\ payload' = [payload EXCEPT ![c] = p]
    /\ tenant' = [tenant EXCEPT ![c] = t]
    /\ pc' = [pc EXCEPT ![c] = "persist"]
    /\ UNCHANGED <<pooling, inserted, database, failed, restarts>>

\* An outcomes call that names a match packet reports on it before its own
\* pair is persisted.
HandleOutcome(c, p, t) ==
    /\ pc[c] = "new"
    /\ payload' = [payload EXCEPT ![c] = p]
    /\ tenant' = [tenant EXCEPT ![c] = t]
    /\ pc' = [pc EXCEPT ![c] = "record"]
    /\ UNCHANGED <<pooling, inserted, database, failed, restarts>>

\* get_pool finds no pool and awaits create_pool.
BeginOpen(c) ==
    /\ pc[c] \in {"record", "persist"}
    /\ ~pool
    /\ c \notin opening
    /\ opening' = opening \cup {c}
    /\ UNCHANGED <<pc, calls, pool, inserted, database, failed, restarts>>

\* It assigns what it created, whatever has been assigned in between.
FinishOpen(c) ==
    /\ c \in opening
    /\ opening' = opening \ {c}
    /\ pool' = TRUE
    /\ UNCHANGED <<pc, calls, inserted, database, failed, restarts>>

HasPool(c) == pool /\ c \notin opening

\* record_outcome: the pool cannot be had, or the UPDATE fails for its unknown
\* column; whatever is raised is caught, and the call goes on.
RecordOutcome(c) ==
    /\ pc[c] = "record"
    /\ HasPool(c) \/ c \in opening
    /\ opening' = opening \ {c}
    /\ pc' = [pc EXCEPT ![c] = "persist"]
    /\ UNCHANGED <<calls, pool, inserted, database, failed, restarts>>

KeyStored(c) == \E d \in Calls : Key(d) = Key(c) /\ <<d, "request">> \in rows

KeyHeld(c) == \E d \in Calls \ {c} : Key(d) = Key(c) /\ "request" \in inserted[d]

\* Mutant: the request row is not inserted while another transaction holds its key.
MutInsertRequest(c) ==
    /\ pc[c] = "persist" /\ HasPool(c)
    /\ inserted' = IF KeyStored(c) \/ KeyHeld(c) THEN inserted
                   ELSE [inserted EXCEPT ![c] = {"request"}]
    /\ pc' = [pc EXCEPT ![c] = "requested"]
    /\ UNCHANGED <<calls, pooling, database, failed, restarts>>

\* The request row and its hops: ON CONFLICT DO NOTHING, once no other open
\* transaction holds the key.
InsertRequest(c) ==
    /\ pc[c] = "persist" /\ HasPool(c)
    /\ ~KeyHeld(c)
    /\ inserted' = IF KeyStored(c) THEN inserted
                   ELSE [inserted EXCEPT ![c] = {"request"}]
    /\ pc' = [pc EXCEPT ![c] = "requested"]
    /\ UNCHANGED <<calls, pooling, database, failed, restarts>>

\* The response row, its hop, and the lineage edge from the request's row.
InsertResponse(c) ==
    /\ pc[c] = "requested"
    /\ "request" \in inserted[c]
    /\ inserted' = [inserted EXCEPT ![c] = Parts]
    /\ pc' = [pc EXCEPT ![c] = "responded"]
    /\ UNCHANGED <<calls, pooling, database, failed, restarts>>

\* Mutant: a failed transaction keeps its rows and their locks.
MutRolledBack(c) == inserted

RolledBack(c) == [inserted EXCEPT ![c] = {}]

\* Mutant: the response is kept when its request row is missing.
MutParentMissing(c) ==
    /\ pc[c] = "requested"
    /\ "request" \notin inserted[c]
    /\ rows' = rows \cup {<<c, "response">>}
    /\ inserted' = RolledBack(c)
    /\ pc' = [pc EXCEPT ![c] = "answered"]
    /\ UNCHANGED <<calls, pooling, edges, failed, restarts>>

\* Without the request's row the foreign key of the edge fails, and with it
\* the whole transaction.
ParentMissing(c) ==
    /\ pc[c] = "requested"
    /\ "request" \notin inserted[c]
    /\ inserted' = RolledBack(c)
    /\ pc' = [pc EXCEPT ![c] = "answered"]
    /\ UNCHANGED <<calls, pooling, database, failed, restarts>>

\* The open transaction of a call becomes durable.
Committed(c) ==
    /\ rows' = rows \cup ({c} \X inserted[c])
    /\ edges' = edges \cup {c}

\* The transaction commits and the call is answered.
Commit(c) ==
    /\ pc[c] = "responded"
    /\ Committed(c)
    /\ inserted' = RolledBack(c)
    /\ pc' = [pc EXCEPT ![c] = "answered"]
    /\ UNCHANGED <<calls, pooling, failed, restarts>>

\* The pool, a query or the commit fails; persist's caller logs a warning and
\* answers.
PersistFails(c) ==
    /\ \/ pc[c] \in {"requested", "responded"}
       \/ pc[c] = "persist" /\ (c \in opening \/ HasPool(c))
    /\ opening' = opening \ {c}
    /\ inserted' = RolledBack(c)
    /\ failed' = failed \cup {c}
    /\ pc' = [pc EXCEPT ![c] = "answered"]
    /\ UNCHANGED <<calls, pool, database, restarts>>

\* The commit takes effect, but its acknowledgement is lost.
AckLost(c) ==
    /\ pc[c] = "responded"
    /\ Committed(c)
    /\ inserted' = RolledBack(c)
    /\ failed' = failed \cup {c}
    /\ pc' = [pc EXCEPT ![c] = "answered"]
    /\ UNCHANGED <<calls, pooling, restarts>>

Alive(c) == pc[c] \notin {"new", "answered", "dead"}

\* The task of a call is cancelled, which no except clause on its way catches:
\* its transaction rolls back, unless its commit was already on its way.
Cancel(c) ==
    /\ Alive(c)
    /\ \/ UNCHANGED database
       \/ pc[c] = "responded" /\ Committed(c)
    /\ opening' = opening \ {c}
    /\ inserted' = RolledBack(c)
    /\ failed' = failed \cup {c}
    /\ pc' = [pc EXCEPT ![c] = "dead"]
    /\ UNCHANGED <<calls, pool, restarts>>

\* The process dies: open transactions roll back (a commit on its way is a
\* cancellation before), and its calls are never answered.
Restart ==
    LET alive == {c \in Calls : Alive(c)}
    IN  /\ restarts < MaxRestarts
        /\ restarts' = restarts + 1
        /\ pc' = [c \in Calls |-> IF c \in alive THEN "dead" ELSE pc[c]]
        /\ failed' = failed \cup alive
        /\ opening' = {}
        /\ pool' = FALSE
        /\ inserted' = [c \in Calls |-> {}]
        /\ UNCHANGED <<calls, database>>

\* What the store's code and the database do when nothing else fails.
Progress(c) ==
    \/ BeginOpen(c)
    \/ FinishOpen(c)
    \/ RecordOutcome(c)
    \/ InsertRequest(c)
    \/ InsertResponse(c)
    \/ ParentMissing(c)
    \/ Commit(c)

Failure(c) ==
    \/ AckLost(c)
    \/ PersistFails(c)
    \/ Cancel(c)

Next ==
    \/ \E c \in Calls, p \in Payloads, t \in Tenants :
          \/ Handle(c, p, t)
          \/ HandleOutcome(c, p, t)
    \/ \E c \in Calls : Progress(c) \/ Failure(c)
    \/ Restart

Spec == Init /\ [][Next]_vars

\* The event loop resumes each call and PostgreSQL executes each query that
\* waits for no lock; the 30 s command timeout is not relied on.
Fairness == \A c \in Calls : WF_vars(Progress(c))

FairSpec == Spec /\ Fairness

-----------------------------------------------------------------------------
TypeOK ==
    /\ pc \in [Calls -> {"new", "record", "persist", "requested",
                         "responded", "answered", "dead"}]
    /\ payload \in [Calls -> Payloads \cup {None}]
    /\ tenant \in [Calls -> Tenants \cup {None}]
    /\ opening \in SUBSET Calls
    /\ pool \in BOOLEAN
    /\ inserted \in [Calls -> SUBSET Parts]
    /\ rows \in SUBSET (Calls \X Parts)
    /\ edges \in SUBSET Calls
    /\ failed \in SUBSET Calls
    /\ restarts \in 0..MaxRestarts

\* A pair is stored as a whole, with the edge that links it, or not at all,
\* whatever fails and wherever a call is cancelled or the process dies.
PairsAreWhole ==
    \A c \in Calls :
        /\ <<c, "request">> \in rows <=> c \in edges
        /\ <<c, "response">> \in rows <=> c \in edges

\* The only pair that is dropped while nothing failed is one whose request
\* repeats one that is stored: of several calls with the same payload and
\* tenant one survives, in whatever order their transactions run.
OnlyRepeatsAreDropped ==
    \A c \in Calls :
        pc[c] = "answered" /\ c \notin failed /\ c \notin edges =>
            \E d \in edges \ {c} : Key(d) = Key(c)

\* Persisting never keeps a call from being answered: no lock outlives its
\* transaction, and no two transactions wait for each other.
HandledIsAnswered ==
    \A c \in Calls : pc[c] \in {"record", "persist"} ~> pc[c] \in {"answered", "dead"}
=============================================================================
