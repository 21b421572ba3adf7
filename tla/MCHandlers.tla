------------------------------ MODULE MCHandlers ------------------------------
(***************************************************************************)
(* The action handlers of admin capabilities, of entity resolution, of     *)
(* outcomes and of matches, and the nightly scans.  They share no state,   *)
(* so interleaving them adds nothing: each behaviour is one of the token   *)
(* registry's, of the entity graph's, of the feedback loop's, of a match's *)
(* or of the scans', and the variables of the others stay as they are.     *)
(***************************************************************************)
EXTENDS Capabilities, OutcomeParameters, TLC

CONSTANTS Entities, Runs, Limits, MaxDegree, MaxSwaying, Scans, Ids, Names, MaxDepth

\* A graph has finitely many entities, a domain spec finitely many gates, and
\* Python allows a number of nested calls.
ASSUME HandlersAssumption ==
    /\ IsFiniteSet(Entities)
    /\ IsFiniteSet(Names)
    /\ MaxDepth \in Nat

VARIABLES
    handler, pc,
    limit, sharing, similar, swaying, base, edge, mode, todo, canonical, merging,
    kind, candidate, outcomes, fresh, sample, next, by, boost, late,
    gate, data, outcome,
    at, scanned, given, broken, assessed, others

Resolution == INSTANCE EntityResolution
Feedback == INSTANCE OutcomeFeedback
Match == INSTANCE MCGateCompiler
Nightly == INSTANCE HealthScan

resolutionVars == <<limit, sharing, similar, swaying, base, edge, mode, todo, canonical, merging>>
feedbackVars == <<kind, candidate, outcomes, fresh, sample, next, by, boost, late>>
matchVars == <<gate, data, outcome>>
scanVars == <<at, scanned, given, broken, assessed, others>>

NoResolution ==
    /\ limit = None /\ sharing = None /\ similar = None /\ swaying = None
    /\ base = None /\ edge = None /\ mode = None /\ todo = None /\ canonical = None /\ merging = None

NoFeedback ==
    /\ kind = None /\ candidate = None /\ outcomes = None /\ fresh = None
    /\ sample = None /\ next = None /\ by = None /\ boost = None /\ late = None

NoMatch == gate = None /\ data = None /\ outcome = None

NoScan ==
    /\ at = None /\ scanned = None /\ given = None
    /\ broken = None /\ assessed = None /\ others = None

AdminStarts == handler = "admin" /\ pc = None /\ NoResolution /\ NoFeedback /\ NoMatch /\ NoScan

ResolutionStarts == handler = "resolve" /\ Resolution!Init /\ NoFeedback /\ NoMatch /\ NoScan

FeedbackStarts == handler = "outcomes" /\ Feedback!Init /\ NoResolution /\ NoMatch /\ NoScan

MatchStarts ==
    handler = "match" /\ pc = None /\ Match!Init /\ NoResolution /\ NoFeedback /\ NoScan

ScanStarts ==
    handler = "scan" /\ pc = None /\ Nightly!Init /\ NoResolution /\ NoFeedback /\ NoMatch

HandlersInit ==
    /\ Init
    /\ AdminStarts \/ ResolutionStarts \/ FeedbackStarts \/ MatchStarts \/ ScanStarts

HandlersNext ==
    \/ /\ handler = "admin" /\ Next
       /\ UNCHANGED <<handler, pc, resolutionVars, feedbackVars, matchVars, scanVars>>
    \/ /\ handler = "resolve" /\ Resolution!Next
       /\ UNCHANGED <<handler, vars, feedbackVars, matchVars, scanVars>>
    \/ /\ handler = "outcomes" /\ Feedback!Next
       /\ UNCHANGED <<handler, vars, resolutionVars, matchVars, scanVars>>
    \/ /\ handler = "match" /\ Match!Next
       /\ UNCHANGED <<handler, vars, pc, resolutionVars, feedbackVars, scanVars>>
    \/ /\ handler = "scan" /\ Nightly!Next
       /\ UNCHANGED <<handler, vars, pc, resolutionVars, feedbackVars, matchVars>>

allVars == <<handler, pc, vars, resolutionVars, feedbackVars, matchVars, scanVars>>

HandlersSpec == HandlersInit /\ [][HandlersNext]_allVars

-----------------------------------------------------------------------------
\* What TLC starts from: of three entities, a limit of one cuts candidates whose
\* scores do not sway, and a limit of two, which cuts nothing, leaves any pair to
\* be similar; with a swaying pair at most one entity has relationships of its own.
ResolutionInputs ==
    /\ limit = 1 => swaying = {}
    /\ limit = 2 => sharing = Resolution!Pairs
    /\ swaying # {} => \E h \in Entities : \A x \in Entities \ {h} : base[x] = 0

MCInit ==
    /\ Init
    /\ \/ AdminStarts
       \/ ResolutionStarts /\ ResolutionInputs
       \/ FeedbackStarts
       \/ Match!Inputs /\ MatchStarts
       \/ ScanStarts

MCSpec == MCInit /\ [][HandlersNext]_allVars

Symmetry ==
    UNION {Permutations(S) : S \in {Tenants, Entities, Runs, Calls, Candidates, Scans, Ids}}

\* _find_canonical: see EntityResolution.
HubStaysCanonical == handler = "resolve" => Resolution!HubStaysCanonical

\* resolve_batch: see EntityResolution.
BatchMergesGroups == handler = "resolve" => Resolution!BatchMergesGroups

\* should_recalculate: see OutcomeFeedback.
TriggerNotMissed == handler = "outcomes" => Feedback!TriggerNotMissed

\* recalculate_weights: see OutcomeFeedback.
ForgottenOnlyWhenLate == handler = "outcomes" => Feedback!ForgottenOnlyWhenLate

\* compile_all_gates: see GateCompiler.
AdmittedExactly == handler = "match" => Match!AdmittedExactly

\* compile_all_gates and the query of handle_match: see GateCompiler.
FailureHasACause == handler = "match" => Match!FailureHasACause

\* run_nightly_health_scan: see HealthScan.
MissesOnlySharedIds == handler = "scan" => Nightly!MissesOnlySharedIds
=============================================================================
