-------------------------- MODULE MCDataDirectory --------------------------
(* Bounds: as many processes as the configuration names; each starts once. *)
EXTENDS DataDirectory, TLC

Symmetry == Permutations(Processes)

(* Every property is about an undisputed directory.  Disputed ones are      *)
(* followed only until there is a database, so that a restore that has     *)
(* lost its lock or its claim is still met.                                *)
Followed == excused => opened = {} /\ live = None

(* For the counterexample: servers that start, crash and stop.             *)
OnlyServers ==
  /\ live # None /\ ~excused
  /\ \A p \in Processes : IsServer(p) /\ ~proc[p].stalled

=============================================================================
