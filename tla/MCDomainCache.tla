---------------------------- MODULE MCDomainCache ----------------------------
(***************************************************************************)
(* Instances of DomainCache for TLC: two domains compete for a cache of    *)
(* one entry.  The liveness properties rule out symmetry.                  *)
(***************************************************************************)
EXTENDS DomainCache
=============================================================================
