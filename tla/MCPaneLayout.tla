---------------------------- MODULE MCPaneLayout ----------------------------
(* The instance of PaneLayout that TLC checks.                               *)
EXTENDS PaneLayout
=============================================================================
