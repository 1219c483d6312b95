--------------------------- MODULE MCTerminalTabs ---------------------------
(* Model checking of TerminalTabs: two tabs, three sessions and one restart of  *)
(* isshd, so that a tab reconnects, ids are given out again and a tab of the    *)
(* old isshd meets a session of the new one. The tabs are alike.                *)
EXTENDS TerminalTabs, TLC

TabSymmetry == Permutations(Tabs)
=============================================================================
