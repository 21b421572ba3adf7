------------------------------ MODULE HealthScan ------------------------------
(***************************************************************************)
(* The nightly health scans of several domains in one process              *)
(* (engine/health/nightly_health_scan.py): run_nightly_health_scan gives   *)
(* way once, where it awaits the entity loader, and the set that keeps an  *)
(* entity from being assessed twice in a run is a module-level variable.   *)
(*                                                                         *)
(* An entity is known by its id only, which entities of two domains may    *)
(* share.  What an assessment comes to is an input; the order, the budget  *)
(* and the report of a scan are functions of what it assessed.             *)
(***************************************************************************)
EXTENDS FiniteSets

CONSTANTS
    Scans,      \* calls of run_nightly_health_scan, one per domain
    Ids         \* entity ids

VARIABLES
    at,         \* where each scan is
    scanned,    \* _scanned_this_run
    given,      \* the candidates of each scan that its profile does not exclude
    broken,     \* those whose assessment raises
    assessed,   \* those a scan has assessed
    others      \* history: ids that other scans took while a scan was loading

vars == <<at, scanned, given, broken, assessed, others>>

Init ==
    /\ at = [s \in Scans |-> "new"]
    /\ scanned = {}
    /\ given \in [Scans -> SUBSET Ids]
    /\ broken \in [Scans -> SUBSET Ids]
    /\ \A s \in Scans : broken[s] \subseteq given[s]
    /\ assessed = [s \in Scans |-> {}]
    /\ others = [s \in Scans |-> {}]

\* Mutant: the set is not cleared for the next run.
StartUncleared(s) ==
    /\ at[s] = "new"
    /\ UNCHANGED scanned
    /\ at' = [at EXCEPT ![s] = "loading"]
    /\ UNCHANGED <<given, broken, assessed, others>>

\* The set is cleared before the domain pack is loaded, which may raise.
Start(s) ==
    /\ at[s] = "new"
    /\ scanned' = {}
    /\ \E next \in {"loading", "failed"} : at' = [at EXCEPT ![s] = next]
    /\ UNCHANGED <<given, broken, assessed, others>>

LoaderFails(s) ==
    /\ at[s] = "loading"
    /\ at' = [at EXCEPT ![s] = "failed"]
    /\ UNCHANGED <<scanned, given, broken, assessed, others>>

\* The rest of the scan runs without giving way.
Scan(s) ==
    /\ at[s] = "loading"
    /\ at' = [at EXCEPT ![s] = "done"]
    /\ assessed' = [assessed EXCEPT ![s] = given[s] \ (scanned \cup broken[s])]
    /\ scanned' = scanned \cup given[s]
    /\ others' = [r \in Scans |->
                    IF r # s /\ at[r] = "loading" THEN others[r] \cup given[s] ELSE others[r]]
    /\ UNCHANGED <<given, broken>>

Next == \E s \in Scans : Start(s) \/ LoaderFails(s) \/ Scan(s)

Spec == Init /\ [][Next]_vars
-----------------------------------------------------------------------------
(***************************************************************************)
(* "Track scanned entities to prevent re-scan within same run": a scan     *)
(* leaves no candidate of its domain out because of earlier runs.  What it *)
(* misses, other than entities it cannot assess, has an id that a scan of  *)
(* another domain took while this one was waiting for its loader.          *)
(***************************************************************************)
MissesOnlySharedIds ==
    \A s \in Scans : at[s] = "done" =>
        given[s] \ (assessed[s] \cup broken[s]) \subseteq others[s]
=============================================================================
