# Cognitive Engine Graphs: a verification development

TLA+ models of the concurrent core of the engine, TLC runs that check them on
small instances, and TLAPS proofs of their main properties for every size.
Paths below are relative to the root of the repository. The machine-readable
index (components, runs, mutants, map of definitions to source lines, findings,
hazards, theorems) is `PROJECT.json`.

Contents: 1 the system, 2 the models and what the runs show, 3 fairness,
4 proofs, 5 disagreements found, 6 what is not modelled, 7 plan, 8 how to run.

## 1. The system

The engine is one asyncio process per node. The chassis receives a packet,
dispatches it to an action handler (`engine/handlers.py`), and the handler loads
the domain pack, checks tenant, capability and compliance, compiles gates and
scoring into Cypher, and runs it through `GraphDriver` against one Neo4j database
per tenant. PostgreSQL keeps packets and audit entries.

| Component (source) | State it keeps | Operations | What makes it correct |
|---|---|---|---|
| Circuit breaker (`engine/graph/circuit_breaker.py`) | state, failure and probe counters, time of opening, totals | `call`, `force_open`, `force_close`, `reset_metrics` | the backend gets no call while open, at most the probe budget while half-open; it heals |
| Database provisioning (`engine/graph/driver.py`) | `_ensured_databases`, `_provisioning` (task per database) | `ensure_database`, done callback, `execute_query`/`execute_write` | one CREATE at a time, retry after failure, no query before its CREATE is over |
| Audit trail (`engine/compliance/audit.py`, `engine/compliance/engine.py`, `engine/boot.py`) | buffer per domain, batches being inserted, the table | `log_*`, `flush_to_store`, flush loop, shutdown | no record lost or held twice |
| Domain pack cache (`engine/config/loader.py`) | cache with stamps, a lock, a gate per domain | `load_domain`, `load_domain_async`, `invalidate` | bounded size and staleness, no stampede, edits are picked up |
| GDS jobs (`engine/gds/scheduler.py`, `engine/boot.py`, `engine/handlers.py`) | history per scheduler, graph catalog of the database, timers | cron fire, trigger, `execute_job`, status and health | projections do not leak or collide, health tells the truth |
| GDS waves (`engine/gds/scheduler.py`) | local to one call | `_build_execution_dag` | dependencies come first, nobody is left out, cycles are isolated |
| Packet store (`engine/packet/`, `chassis/handler_registration.py`, `chassis/actions.py`) | pool, rows of five tables | `persist`, `record_outcome` | a pair is stored whole or not at all, only repeats are dropped, no call waits for ever |
| Capabilities (`engine/auth/capabilities.py`, `engine/handlers.py`) | registry of tokens, derivation tree | delegate, revoke, expiry | rights only shrink, revocation is deep and exact |
| Outcome feedback (`engine/feedback/`, `engine/handlers.py`) | outcomes, weights and boosts in the graph | convergence cycle per outcome | no recalculation is missed, no outcome forgotten |
| Entity resolution (`engine/resolution/`, `engine/handlers.py`) | RESOLVED_FROM edges in the graph | resolve one entity, resolve a batch | a hub stays canonical, groups are merged |
| Gates (`engine/gates/`, the filter of `handle_match`) | none | `compile_all_gates` and its evaluation | nulls do what the gate says, matches fail only for a cause |
| Nightly health scan (`engine/health/`) | a module-level set | `run_nightly_health_scan` | no candidate is left out |
| Lifecycle (`engine/boot.py`, `engine/state.py`) | singletons, background tasks | `startup`, `shutdown` | everything started is stopped, in order |
| Chassis (`chassis/`) | audit sinks, health probes, handler table | dispatch, `flush`, aggregate | no action without a handler |
| Traversal, scoring, embeddings, personas, intake, sync | none, or inside the database | pure compilers and arithmetic | per-function correctness |

How they interact. Handlers call the loader and the driver; the driver provisions
the database and then calls the breaker, which calls Neo4j outside its lock.
Handlers append to the audit buffer and flush it, and so does a 60 s loop that
`boot` starts and stops. `boot` and the admin actions each make GDS schedulers,
which share the catalog of the database and run their queries through the driver.
Around every handler a wrapper offers the request and response packets to
PostgreSQL, and `handle_outcomes` tries to write onto the packet row of an earlier
match.

Hard behaviours. All of it is interleaving at `await`: results that arrive after
the state they belong to has gone (breaker), an entry that is looked up by one
task while the callback of another is about to remove it (provisioning), several
flushes of one buffer (audit), a file edited under a reader (cache), two
executions of one job (GDS), two requests that change one graph a query at a time
(outcomes, resolution), a transaction that waits for another (packets). On top of
that come cancellation of whoever awaits (`CancelledError` passes
`except Exception`, and a worker thread outlives its task), answers lost after the effect took place, restarts,
and limits (probe budget, history). The hazards of `PROJECT.json`
name 40 of these, each at its line and with the properties that would notice.

## 2. The models and what the runs show

Each component has a specification, an `MC` module that TLC starts from, and a
`_proofs` module; the handlers share one of each. Operators commented `Mutant:` are
variants of the definition after them, with a bug that would be easy to make; for
each checked property `PROJECT.json` names one that breaks it.

`INSTANCE` without substitution puts parts that share no state side by side in one
`MC` module (`MCHandlers`); TLC then checks each in behaviours of its own.

The asyncio rule used throughout: code between two awaits of one task is atomic.
A critical section of an `asyncio.Lock` that contains no await is therefore one
step. Threads appear only in `DomainCache`, where `asyncio.to_thread` makes them.

### CircuitBreaker, CircuitBreakerMetrics

`state`, `consecutiveFailures`, `halfOpenCalls` are the fields of the same names;
`cooled` is the one question asked of the clock. `call()` is two steps: admission
(`Reject`, `AdmitClosed`, `AdmitFirstProbe`, `AdmitProbe`) and result (`Succeed`,
`Fail`, `Cancel`); everything may happen in between. `_transition_to` is the
operator `TransitionTo`. `probes` and `abandoned` are history variables that
remember which running calls were admitted in this half-open period.

- `breaker` (3 callers, threshold 2, 2 probes, 1 operator call, 9.9 k states):
  `ProbeAccounting` (the counter is the running plus the cancelled probes),
  `ClosedBelowThreshold`, `OpenShieldsBackend`,
  `TransitionsAreEarned`, and `HealsUnlessProbesLost`. Three callers and two
  probes give a call left over from an earlier period beside a full budget.
  The result of a call admitted in CLOSED may close or reopen a half-open
  breaker; that is how the code works, and the properties hold in spite of it.
- `breaker_metrics` (5 calls, 40 k states): `EveryCallAccounted`, across resets.

### ProvisioningContract, DatabaseProvisioning

The contract: per database at most one CREATE in flight, none for a database
known to exist, a failed one may be retried. The detailed module has the two
tables, tasks with their done callbacks, and callers. `ensure_database` is one
step up to the wait: `KnownToExist`, `JoinCreate` or `StartCreate`. A finished
task, its callback (`Forget`) and its waiters (`Resume`) are separate steps in
any order. `Cancel` cancels a waiter; the shield keeps the task.

- `provisioning` (3 callers, 1 database, 3 tasks, 42 k states):
  `QueryAfterProvisioning` (and a caller told True queries a database that
  exists, although a CREATE may take effect without an answer),
  `ImplementsContract` (refinement), `EveryWaiterAnswered`. Three tasks are needed for a finished task, its retry
  and another retry to be alive together; databases do not interact.

### AuditContract, AuditTrail

The contract of an append-only table: rows are only added, each was pending
before, pending entries are dropped only once the process goes down. The detailed
module has the buffer, one batch per flusher (`Requests`, `Loop`, `Final`), the
table, and the phases of the shutdown. `Drain` is the section under the lock,
`InsertSucceeds` and `InsertFails` the end of `executemany`; `InsertFails` puts
the batch back, also for a row that the table or the driver refuses.
`CancelRequest` cancels a request that awaits its inline flush, whose batch is then
in no list (`cut`), stored or not. `CancelLoop`, `FinalFlush` and `Close` are the
shutdown of `boot.py` and `state.py` in their order. `Encodable` are the entries
whose metadata the connections of the pool can encode: none of them with the pool
that `boot.py` makes (disagreement B), so nothing is claimed of when an entry is
stored, only of where it is until then.

- `audit_trail` (3 entries of which one cannot be encoded, 2 requests, failing and
  cancelled inserts, lost acknowledgements, 1.2 k states): `NothingLost`,
  `HeldOnce`, `CleanShutdownStoresAll`, `ImplementsContract`. Three entries allow
  one in the buffer, one in a failing batch and one in another batch.

### DomainCache

`entry`, `before`, `fresh` stand for `_cache` and its stamps (only their order
and whether the TTL is over matter); `lock` is `_lock`, `gate` is `_async_locks`.
`load_domain` is `Hit`, `Revalidate`, or `StartRead` followed by `ReadOk` or
`ReadFails`; the file is edited (`Edit`) without a lock, also between the stat
and the read. `load_domain_async` is `Hit`, or `Queue` and then `PassGateToHit`
or `PassGate`. A task is cancelled at the gate or before its worker begins
(`CancelWaiting`), or while its worker runs (`CancelWorking`): the gate is free at
once, and the worker goes on for nobody (`abandoned`). `checked`, `served` and
`built` are history variables.

- `domain_cache` (2 domains, 1 entry, 2 callers, 2 edits of one file, 51 k states):
  `StaleOnlyWithinTTL`, `NoStampede`, `NeverServesOlder`, `HotReload`,
  `QueuedIsAnswered`. One entry makes every second domain evict, and two edits let
  a file break and be repaired. `NoStampede` counts the workers of tasks that are
  still there: cancellation may leave another one behind.
- `domain_hot_reload`: finding 1.

### GDSScheduler

Up to two schedulers of one domain over one catalog. An execution is a slot in
`Runs` that goes `pre_drop`, `project`, `write`, `drop` for a Louvain job, once
per stability run, and `query` for the others. Each query answers, fails without
effect or fails after its effect, and a triggered execution may be cancelled in any of them (`Cancel`): it
records nothing, and in the middle of a projection it still passes the `finally`
clause (`Unwind`). `Restart` ends the process at any point. `Health` reads the
history of the scheduler that the admin actions made, as `gds_health` does.
`spoiled` remembers which executions met a failing query or a rival.

- `gds_scheduler` (2 jobs, 2 executions, 2 stability runs, history of 1, 86 k
  states): `NoOrphans`, `AloneSucceeds`, `HealthFollowsRuns`,
  `LeftoversGo`. A history of one is at its limit with every record.
- `gds_shared_projection`: finding 2.

### GDSWaves

One step per round of Kahn's loop, over every dependency relation among 3 jobs
and 3 algorithm names, with unknown names, self-dependencies and jobs that share
an algorithm.

- `gds_waves` (14 k initial states, 33 k states):
  `DependenciesFirst`, `FallbackMeansCycle`, `EndsComplete`.

### PacketStore

A call stands for its two packets. `Handle` is the handler; `BeginOpen` and
`FinishOpen` are `get_pool` around its await; `InsertRequest` and `InsertResponse`
run in one transaction, in which a conflicting key makes them wait for its holder
(`KeyHeld`), skip, or break a foreign key (`ParentMissing`, `RolledBack`).
`AckLost` commits without telling, `Cancel` ends a call wherever it awaits, its
commit on the way or not, and `Restart` ends the process. `RecordOutcome` is the
UPDATE of an `outcomes` call on the row of an earlier match, which always fails
(disagreement C) and is always survived. The role behind the DSN is taken to be one
that row-level security does not bind, as nothing sets `app.current_tenant`.

- `packet_store` (3 calls, 2 payloads, 2 tenants, 1 restart, 129 k states):
  `PairsAreWhole`, `OnlyRepeatsAreDropped`, `HandledIsAnswered`. Three calls give a
  repeat, a transaction that waits behind it, and one that does neither.

### Capabilities

The registry is a sequence of tokens, as the dict iterates; `granted_by` is
`parent`. `Delegate` and `DelegateFromNewRoot` are the admin action with its search
for a token that covers the request, `DeriveRaises` the same with a lifetime that
cannot be compared with zero, `Revoke` is the other action, `Tick` the clock.
`RevokedBy` is the recursion of `revoke_capability` as a recursive function;
`Descendants`, of which the properties speak, is defined without it, as a least set.
`reported` remembers which tokens an answer has named: the audit that follows the
registration loads the domain pack and may raise.

### OutcomeParameters, OutcomeFeedback

Calls of `handle_outcomes` a query at a time: `CreateOutcome`, `Propagate`, `Check`
(`should_recalculate`), `ReadTotals`, one `StoreWeight` per dimension, `Answer`;
and runs of the scheduled job `feedback_recalculation` (`StartJob`). Each query may
fail, or its task be cancelled, before or after its effect (`CreateFails`,
`LoopFails`). A weight is the set of outcomes it was computed from, so "forgotten"
can be said without its value. A query is one step, and the times it writes are
those of its effect.

### EntityResolution

Resolve requests a query at a time: `Pick` scores the candidates and chooses the
canonical entity by a query of its own, `CreateResolution` adds one edge,
`GroupDone` and `Answer` go on, `Fail` is a query that fails or is cancelled, before
or after its effect. The pre-filter returns at most `limit` (`max_candidates`) of
the entities that share a property with the one to resolve, in no order (`Scored`);
which pairs share one and which are similar are inputs, and `swaying` pairs pass the
threshold only as their neighbours, hence the edges, allow.

### GateCompiler, MCGateCompiler

One step from gates, candidate and query to the outcome of a match. `Predicate`
is what the ten `_compile_*` methods produce, evaluated in Cypher's three truth
values; `Wrapped` the null wrapper; `Value` and `Raises` are `compile` as functions
of the nesting depth. `wellnamed` says whether `sanitize_label` and the table of
operators accept what a gate names; a traversal gate compiles, to a pattern that
Cypher refuses (`NotRun`). `AdmittedExactly` compares the clause with a reading in
two values, `FailureHasACause` the failures with the reachability relation of the
composites, which the code never computes.

- `gates_explicit_pass`: finding 3.

### HealthScan

Scans of several domains in one process. `Start` clears the module-level set,
`Scan` is everything after the await of the entity loader.

### MCHandlers

Capabilities, outcomes, resolution, gates and scans share no state, so `MCHandlers`
is their sum and not their product: the initial state picks the handler, and the
variables of the others keep a value that means nothing. `HandlersSpec` is what the
theorems are about; `MCSpec` differs in its initial states only, which bound the
gates of a match (`Inputs`) and leave out graphs that show nothing new
(`ResolutionInputs`). One set of model values serves the tenants of one part, the
runs of another and so on, which keeps the symmetry sets few; symmetry is sound as
the run has no liveness property.

- `handlers` (1.3 M states): of tokens `AuthorityShrinks`,
  `ActiveOnlyUnderActive`, `UnreportedOnlyAfterError`, `RevocationIsExact`
  (chains of 3 tokens, lifetimes 0 and 1, clock to 3: a grandchild expires after,
  with and before its ancestors); of resolution `HubStaysCanonical`,
  `BatchMergesGroups` (3 entities, 2 requests, degrees to 1; every similarity
  relation under a limit of 2, which cuts nothing, with at most one swaying pair,
  and under a limit of 1, which cuts a group of three); of outcomes
  `TriggerNotMissed`, `ForgottenOnlyWhenLate` (3 calls, 2 dimensions, threshold 2;
  one candidate, as the candidate bears on the boosts only); of matches
  `AdmittedExactly`, `FailureHasACause` (a gate of any type with any inputs, a
  composite over two gates, two composites over a gate and one another, nesting to
  3); of scans `MissesOnlySharedIds` (3 scans, 2 ids).

## 3. Fairness

Safety properties are checked of, and proved from, `Spec`, which has none.
`FairSpec` adds what the code or its surroundings ensure:

- the event loop runs whatever is ready: callbacks, resumed waiters, the flush
  loop and the cron timer (weak fairness of these actions);
- a call to a database ends, because the drivers have timeouts (weak fairness of
  "answers or fails", never of "answers" alone);
- time passes: the cooldown and the TTL run out;
- a lock or gate is handed on: CPython's locks are not strictly fair, so this is
  strong fairness of whoever waits, and an assumption;
- the environment where the property is about it: requests keep arriving
  (`Call` in the breaker, `Load` in the cache), not every pre-cleanup fails or is
  cancelled (strong fairness in `GDSScheduler`). "The backend stays up" is a premise
  of the breaker's property instead.

Nobody is assumed to cancel, to refrain from cancelling, to intervene or to shut
down, and every task that awaits may be cancelled: calls of the breaker, waiters for
a database, requests in their flush and the flush loop, tasks at the gate of a
domain and in its worker, triggered jobs, resolve and outcome requests, and packet
calls. A scan or a match that is cancelled takes no further step, which is a
behaviour of a specification without fairness. `AuditTrail` has no liveness property and no fairness. TLC's deadlock check is off in `audit_trail`, `gds_waves`, `handlers`,
`packet_store` and `gates_explicit_pass`, whose systems do stop (a process that is
down; a function that has returned; calls that are all answered).

In `PacketStore` every call whose step is enabled takes it (weak fairness): a
transaction ends, and who waits for its lock goes on. Nothing forces a restart.

## 4. Proofs

Eight modules, some 5660 obligations, all checked by `tlapm`. They hold for any
number of callers, databases, tasks, entries, domains, jobs, stability runs,
tokens, outcomes, dimensions, packets, payloads, tenants, entities, scans and
gates. Nothing is assumed but the named assumptions on constants (finite sets,
positive limits, distinct model values), which TLC evaluates in the runs, and one
hypothesis that a theorem states, `ShallowNesting` in `FailuresHaveCauses`: there are
at most one more names of gates than nested calls of `compile`. Python allows
hundreds, and with fewer than the gates of a chain a deep but acyclic composite would
raise, too. `MaxCaps` stands, beside being a bound, below that limit on nested calls,
so that the recursion of `revoke_capability` ends. `HandlersAssumption` says that
entities and gate names are finitely many, as the rows of a graph and the lines of a
pack are.

| Module | Theorems | Inductive invariant, and why it is needed |
|---|---|---|
| `CircuitBreaker_proofs` | `TypeCorrect`, `ProbesAccounted`, `HalfOpenWaits`, `ClosedHasBudget`, `BackendShielded`, `TransitionsEarned` | `IInv` joins the types with `ProbeAccounting`, `ClosedBelowThreshold` and the fact that a half-open period has counted its first probe; the bound on the probe counter is not inductive without the accounting |
| (metrics) | `BooksBalance` | the metered breaker implements the breaker, so `IInv` is available; each step moves one call between running and over, which is arithmetic on cardinalities (`StartCountsOne`, `EndCountsOne`) |
| `DatabaseProvisioning_proofs` | `TypeCorrect`, `SingleCreate`, `NoOrphanedCreate`, `EnsuredIsTrue`, `QueriesWait`, `Refinement` | `RunningIsRegistered` is the key: uniqueness of the CREATE follows from it, and the late callback keeps it only because it compares the task; `SlotsNameTheirTask`, `RunningNotEnsured`, `SucceededExists` and `WaitersHaveTasks` tie tasks to tables |
| `AuditTrail_proofs` | `TypeCorrect`, `NoRecordLost`, `CleanShutdown`, `OnePlaceOnly`, `Refinement` | a phase invariant: who may still hold a batch in each phase of the shutdown, and that no two flushers hold one entry |
| `DomainCache_proofs` | `TypeCorrect`, `Detectable`, `BoundedStaleness`, `Monotone`, `OneWorker`, `BoundedInvariance`, `SizeBounded`, `EvictsOne`, `LocksAreReleased` | `Versioned`: nothing cached or seen by a reader is newer than the file or claims a later mtime than its content has; `Busy` and `Gated` say what a caller in the middle of a load holds, a cancelled one included. The bound on the size needs `Bounded`, that `before` orders the cached entries strictly and totally: only then does an eviction find exactly one oldest entry. `LocksOwned` ties each lock to a load in progress |
| `GDSScheduler_proofs` | `TypeCorrect`, `NoProjectionLeaks`, `UndisturbedSucceeds`, `HealthIsCurrent` | executions in flight have a job and a scheduler, and of two executions of one job both are spoiled. `HealthIsCurrent` adds that a Louvain job never waits for a plain query, and lemmas about the bounded deque: a record that is pushed is the newest of its job, and of another job the newest record stays the newest until it falls out |
| `GDSWaves_proofs` | `TypeCorrect`, `Bookkeeping`, `Ordered`, `Once`, `OnlyCycles` | `Counted` and "who has a wave waits for nobody"; counting edges needs the cardinality lemmas `EdgesSplit` and `NoEdges` |
| `PacketStore_proofs` | `TypeCorrect`, `PairsWhole`, `RepeatsDropped`, `StoredOnce` | `TransactionsOK` ties the place of a call to the rows its transaction holds; `KeysOnce` is the unique key over stored and open rows together, which is what makes a transaction wait; `SkippedIsStored` remembers whose row the conflict clause skipped for; `StoredHasEnded` says that only calls that have ended are stored, cancelled on their commit or answered |
| `Handlers_proofs`, tokens | `TypeCorrect`, `AuthorityNeverGrows`, `NoActiveOrphans`, `UnreportedAfterError`, `RevocationExact` | `Links`: what one link from a token to its parent guarantees (order, actions, domain, expiry, revocation); the properties speak of chains, and follow from it because `Descendants` is the least set closed under children. That the recursion of `revoke_capability` visits just that set goes by the least number of tokens issued after a counterexample |
| outcomes | `TriggerHolds`, `ForgottenWhenLate` | `Positions`, `ReadAll` and `PassedAll` say how far each call is and what its sample and the weights it has passed must contain; the two properties are conjuncts and not inductive without them |
| scans | `ScansMissOnlySharedIds` | `SkipsOnlyOthers`: what is in the shared set and is not a scan's own comes from a scan of another domain |
| resolution | `EntitiesInvariance`, `HubsStayCanonical`, `BatchesMergeGroups` | `HubEdges` and `HubMerges` say of stored edges, and of those a request is about to create, that none leaves a hub and that all of its group lead to it, so no degree overtakes the hub's; `BatchProgress` says that a group a batch has not come to is on its list as a whole, and otherwise all but one of it are merged or about to be; `GroupBounds` is where the limit on candidates enters |
| matches | `AdmitsExactly`, `FailuresHaveCauses` | the invariant is small, as a match is one step; the work is in the lemmas that unfold `Value`, `Raises`, `HoldsNotRun` and `Satisfied` once and go by induction on the nesting depth |

Each proof has the same shape: `Init` establishes the invariant, one step per
action shows that it is kept, and the theorem combines the two with PTL. In
`Handlers_proofs`, `OneHandler` says that a step of the composition is a step of
the one handler that runs and that the others stutter.

The provers take no induction theorem with an operator for a parameter. Where an
argument needs induction it is stated over sets instead: `NaturalsByInduction`,
`UptoByInduction` and `SubsetsByInduction` say that a set with the base case and
closed under the step is everything, and follow from well-foundedness. With them
the sum of degrees in resolution, and the functions of `GateCompiler` over nested
composites, can be reasoned about: `IterationExists` gives the values of a
recursive function, and one unfolding lemma for each of them is all that is used
of its definition.

Some theorems state what no run checks separately. `SizeBounded`, `EvictsOne`,
`BoundedInvariance` and `LocksAreReleased` are about the cache alone. The others are implied by, or imply,
a property that a run does check: `HalfOpenWaits`, `SingleCreate`,
`NoOrphanedCreate`, `EnsuredIsTrue`, `Detectable`, `Bookkeeping`, `Once`,
`StoredOnce`, `EntitiesInvariance`, and the `TypeCorrect` of each module.

Every safety invariant and action property of the passing runs is proved. Only
model-checked are the liveness properties (`HealsUnlessProbesLost`,
`EveryWaiterAnswered`, `HotReload`, `QueuedIsAnswered`, `LeftoversGo`, `EndsComplete`, `HandledIsAnswered`), since fairness and ENABLED are
out of the prover's reach, and the three disagreements of the next section, which
TLC refutes.

## 5. Where the code and its documentation disagree

Three are runs that TLC must refute; the quotation is in `PROJECT.json`.

1. `domain_hot_reload`: an edit "will be picked up". The loader does, but the
   compliance engine built from the first spec is kept for ever.
2. `gds_shared_projection`: "drop stale projection". The pre-cleanup of an
   execution drops the projection that another execution of the job is using.
3. `gates_explicit_pass`: `nullbehavior: pass` compiles to "candidate.prop IS NULL
   OR predicate". For boolean, freshness and traversal gates a declared pass
   gives way to the default of the type, which is fail.

The models show these too; each is the case that a property excuses.

- A. Probes that are cancelled record no result and are never given back, so a
  whole budget lost that way leaves the breaker half-open, rejecting everything,
  for ever. `HealsUnlessProbesLost` shows that nothing else does.
- B. No audit insert over the pool of `boot.py` ever succeeds: `metadata` goes into
  a JSONB column as a dict (`engine/compliance/audit.py:356`,
  `engine/packet/packet_store.sql:142`) over connections without a codec for it
  (`engine/boot.py:108`), so every flush fails and puts its batch back, although the
  entries are to be kept in the table (`engine/compliance/audit.py:116`). With a
  codec, a batch that was committed without an acknowledgement would violate the
  primary key in every later flush, with all that is buffered after it. And a
  cancelled request (`engine/handlers.py:638`) or a shutdown that cancels the flush
  loop in the middle of an insert leaves its batch in no list (`cut` in
  `NothingLost`), as `except Exception` (`engine/compliance/audit.py:364`) does not
  see it.
- C. The pair of a repeated payload is dropped: the request row is skipped, and
  the rows that name its new id break their foreign keys
  (`OnlyRepeatsAreDropped`), although the wrapper means the trail not to be lossy
  (`chassis/handler_registration.py:66`). And an outcome is never linked to its
  match: `record_outcome` updates a column that `packet_store.sql` does not create,
  of packets that it calls immutable (`engine/packet/packet_store.sql:202`) and
  whose ids no answer names.
- D. `resolved_set` holds resolution ids and is asked for entity ids
  (`engine/resolution/resolver.py:155`), so a batch resolves every member of a
  group again and edges are created twice. Among members with equally many
  relationships each request chooses anew, so two can be merged into each other;
  and the pre-filter returns any `max_candidates` of the entities that share a
  property (`engine/resolution/similarity.py:247`), so of a larger group some may
  never be merged (`WithinLimit` in `HubStaysCanonical` and `BatchMergesGroups`).
- E. The boost of an outcome is applied once per outcome row of its candidate
  (`Propagate`), not once per outcome.
- F. The first store of a recalculation resets the count of new outcomes for all
  dimensions; what is recorded meanwhile, or after a failure half-way, is not
  counted again (`ForgottenOnlyWhenLate`). An outcome whose CREATE took effect
  without an answer counts, but its call does not go on to recalculate
  (`TriggerNotMissed`).
- G. The admin action delegates from the first token that covers the actions; if
  that one is too narrow in its domain the delegation is refused although another
  token would do. A token whose audit fails is active and never reported,
  and so is a root from which nothing could be derived, as for an
  `expires_in_seconds` of null (`engine/auth/capabilities.py:238`;
  `UnreportedOnlyAfterError`).
- H. Subgates of a composite are also gates of their own and stay hard filters, so
  an OR composite over gates in force never loosens anything; a range gate with
  an open bound passes under `fail` (`AdmittedExactly` counts both as they are). A
  match with a traversal gate fails altogether, as its pattern introduces a variable
  (`engine/gates/compiler.py:392`, and `:290` on why that is invalid); such packs are
  said to reject every candidate (`engine/config/loader.py:43`).
- I. A scan may miss an entity because another domain has one of the same id
  (`MissesOnlySharedIds`).
- J. `gds_health` and `gds_status` know the scheduler of the admin actions only
  (`engine/handlers.py:1090`), which the first of them makes: they say nothing of
  the executions of the scheduler that `boot` starts, contrary to
  `docs/FEATURE_GATES.md:138`. A cancelled trigger leaves no record at all
  (`HealthFollowsRuns` excepts both).
- K. Cancelling a task that awaits its worker frees the gate of its domain while the
  worker reads on, so the next task sends another (`NoStampede` counts the tasks
  that are still there).

Met while reading, and outside the models: learned weights are stored and read
under different keys (`engine/scoring/assembler.py:120`,
`engine/feedback/signal_weights.py:179`); `validate_action` has no caller; the GDPR
erasure entry goes to a logger that is never flushed (`engine/handlers.py:1074`);
the audit buffer has no limit (`engine/compliance/audit.py:392`, promised at
`engine/config/settings.py:145`); nothing sets `app.current_tenant`, which the
policies of `packet_store.sql` compare;
`_ensured_databases` is never invalidated; the shutdown stops no scheduler made at
boot; waves are computed from `depends_on` and only logged, and of two jobs with
one algorithm only the last is in a wave; `get_pool` may open two pools; temporal
range gates ignore `candidateprop_start` and `_end`, and range gates
`queryparam_min` and `_max`, so they compile to a parameter nobody supplies; the
role exemption is never passed by `handle_match`; `total_skipped` of a scan counts
only within the first hundred.

## 6. What is not modelled, and why

Floating-point arithmetic and Cypher text (scoring, embeddings, similarity,
traversal, personas, causal and HopRAG queries): nothing a model checker can tell
apart. HTTP, authentication, PII patterns and schema validation: pure functions of
one input. Startup: one sequential pass. `handle_sync`, `handle_enrich`, the health
actions and the read-only admin actions: single queries. The chassis audit logger:
nothing but its tests makes one. Tools, scripts and agents: not part of the running
engine. The inside of Neo4j, PostgreSQL, APScheduler and the SDK: external,
modelled by how the code uses them. They are most of the repository by size, which
is why the map covers a small share of it.

Within the modelled parts: the order of rows in a batch, reported timestamps, log
messages, and the Cypher of each algorithm, which is one query that answers or
fails. `AuditTrail` takes all `log_*` calls from the event loop's thread, which is
where all of them come from, and leaves out `flush`, `flush_sync` and `emit_async`,
which nothing calls. In `DomainCache` every edit has a later mtime: with one that
has not, nothing in the code tells the two files apart. `Capabilities` leaves out
proof hashes, which always match. `GateCompiler` leaves out `validate_gates`, which
only warns, and `compile_relaxed`, which only tests call; a predicate is one bit of
the values it compares. `HealthScan` leaves out scores and the cost ceiling.
`OutcomeFeedback` leaves out drift detection and pattern matching, which only read.

## 7. Plan

Done, in this order: CircuitBreaker and its metrics, DatabaseProvisioning with
its contract, AuditTrail with its contract, DomainCache, GDSScheduler, GDSWaves,
Capabilities, PacketStore, OutcomeFeedback, EntityResolution, GateCompiler,
HealthScan.

Left, the most useful first:

1. `GraphDriver`: composition of DatabaseProvisioning and CircuitBreaker as
   `execute_query` composes them.
2. The order of startup and shutdown over the singletons, with the two scheduler
   registries.
3. A coarse clock in `DomainCache`, and an abstract packet store for
   `PacketStore` to implement.
4. Proofs: the safety properties of what 1 to 3 add; those of the present models
   are all proved.

## 8. How to run

    tlc -workers 2 -config breaker.cfg MCCircuitBreaker
    tlapm CircuitBreaker_proofs.tla

The module of every run is in `PROJECT.json`. Each run takes between one second
and about two minutes.
