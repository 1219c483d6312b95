----------------------------- MODULE MCHostKeys -----------------------------
(* Instance of HostKeys for TLC: see README, section 3.                        *)
EXTENDS HostKeys, TLC

Symmetry == Permutations(Keys)
=============================================================================
