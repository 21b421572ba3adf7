------------------------------ MODULE MCGDSWaves ------------------------------
(***************************************************************************)
(* All dependencies among three jobs over three algorithm names: chains,   *)
(* cycles, names nobody has, and two jobs of one algorithm.                *)
(***************************************************************************)
EXTENDS GDSWaves
=============================================================================
