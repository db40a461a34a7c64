---------------------------- MODULE MCKeyCustody ----------------------------
(* Three overlapping requests and two passphrases for TLC.  Requests are   *)
(* interchangeable, and so are passphrases.                                *)
EXTENDS KeyCustody, TLC

Symmetry == Permutations(Requests) \cup Permutations(Passphrases)
=============================================================================
