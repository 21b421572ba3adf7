----------------------- MODULE MCDatabaseProvisioning -----------------------
(***************************************************************************)
(* The instance of DatabaseProvisioning for TLC.  One database with three  *)
(* callers and three tasks is where the interleavings are: two databases   *)
(* share nothing but the tables.  The liveness properties rule out         *)
(* symmetry.                                                               *)
(***************************************************************************)
EXTENDS DatabaseProvisioning
=============================================================================
