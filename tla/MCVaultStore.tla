---------------------------- MODULE MCVaultStore ----------------------------
(* Model checking of VaultStore: three ids for a vault of two secrets, secrets  *)
(* of one to three bytes of which two are allowed, and a file of three bytes.   *)
EXTENDS VaultStore, TLC

IdSymmetry == Permutations(SecretIds) \cup Permutations(Passphrases)
=============================================================================
