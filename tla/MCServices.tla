------------------------------ MODULE MCServices ------------------------------
(***************************************************************************)
(* Services with two actors, passphrases and unattended keys, three days   *)
(* and two versions of the app.                                            *)
(***************************************************************************)
EXTENDS Services, TLC

SymmetricValues == Permutations(Actors)

(* Bounds, with the variables of each part: the copies made (v8) and the   *)
(* entries (v4) together; the backfill (v12) before any request (v8), as   *)
(* neither reads what the other writes; the recovery keys (v2) and the     *)
(* sessions (v4) together, fewer where the user is excused (v15); and some *)
(* form that is not excused (v12).                                         *)
Bounded ==
  /\ part = "copies" => v8 + Len(v4) <= 3
  /\ part = "market" => ~v12.done \/ \A r \in Actors : v8[r].at = "new"
  /\ part = "browser" => v2 + v4 <= (IF v15 THEN 1 ELSE 3)
  /\ part = "entry" => Screen!Forms \ v12 # {}
=============================================================================
