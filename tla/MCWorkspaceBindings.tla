------------------------- MODULE MCWorkspaceBindings -------------------------
(* Model checking of WorkspaceBindings: two Workspaces, one saved profile next *)
(* to tabs without one, two session ids in each of two runs of isshd.          *)
EXTENDS WorkspaceBindings, TLC
Symmetry == Permutations(Workspaces) \cup Permutations(Profiles)
==============================================================================
