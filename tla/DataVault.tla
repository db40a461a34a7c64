----------------------------- MODULE DataVault -----------------------------
(***************************************************************************)
(* What sign-in, setup, upgrade, recovery and passphrase changes promise   *)
(* together about the stored data, whatever order they run in: one         *)
(* passphrase, one data key that never changes once it is there, values    *)
(* that are all readable with it, and nothing read or written while the    *)
(* vault is shut.                                                          *)
(***************************************************************************)
CONSTANTS Passphrases, Keys, None

VARIABLES
  passphrase,  \* the passphrase that opens the vault (None: no user yet)
  key,         \* the data key (None: nothing is encrypted yet)
  open,        \* the key is in memory
  values       \* the keys the stored values are sealed under

vars == <<passphrase, key, open, values>>

Init ==
  /\ passphrase \in Passphrases \cup {None}
  /\ key \in Keys \cup {None}
  /\ key # None => passphrase # None
  /\ open \in BOOLEAN
  /\ open => key # None
  /\ values \subseteq {key}

Register ==
  /\ passphrase = None /\ passphrase' \in Passphrases
  /\ UNCHANGED <<key, open, values>>

(* Everything stored is sealed in the same step.                           *)
Encrypt ==
  /\ key = None /\ key' \in Keys
  /\ passphrase' \in IF passphrase = None THEN Passphrases ELSE {passphrase}
  /\ open' = TRUE
  /\ values' = IF values = {} THEN {} ELSE {key'}

Renew ==
  /\ passphrase # None /\ passphrase' \in Passphrases
  /\ open' \in IF key = None THEN {open} ELSE {open, TRUE}
  /\ UNCHANGED <<key, values>>

OpenOrShut ==
  /\ key # None /\ open' \in BOOLEAN
  /\ UNCHANGED <<passphrase, key, values>>

Store ==
  /\ key = None \/ open
  /\ values' = {key}
  /\ UNCHANGED <<passphrase, key, open>>

Next == Register \/ Encrypt \/ Renew \/ OpenOrShut \/ Store

Spec == Init /\ [][Next]_vars
=============================================================================
