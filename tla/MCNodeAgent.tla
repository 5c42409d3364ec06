---------------------------- MODULE MCNodeAgent ----------------------------
(* Values for the constants of NodeAgent. *)
EXTENDS NodeAgent, TLC

AllModes == {"off", "warn", "enforce"}
Enforce == {"enforce"}
JobSymmetry == Permutations(Job)
=============================================================================
