---------------------------- MODULE MCSupervisor ----------------------------
(* Small instances of Supervisor for TLC.                                  *)
EXTENDS Supervisor, TLC

PidSymmetry == Permutations(Pid)
=============================================================================
