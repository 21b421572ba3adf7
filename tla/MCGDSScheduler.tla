---------------------------- MODULE MCGDSScheduler ----------------------------
(***************************************************************************)
(* Instances of GDSScheduler for TLC: a Louvain job that is run twice for  *)
(* stability and a job of another kind.                                    *)
(***************************************************************************)
EXTENDS GDSScheduler

CONSTANTS louvain_job, other_job

MCStabilityRuns == [j \in {louvain_job} |-> 2]
=============================================================================
