------------------------------ MODULE MCCubeFS ------------------------------
(* Instances of CubeFS for TLC.  *)
EXTENDS CubeFS, TLC
=============================================================================
