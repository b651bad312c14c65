------------------------------ MODULE MCReaper ------------------------------
(* A small instance of Reaper for TLC.                                     *)
EXTENDS Reaper, TLC
=============================================================================
