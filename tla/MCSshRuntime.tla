---------------------------- MODULE MCSshRuntime ----------------------------
(* Model checking of SshRuntime: two requests at a time on one session, and two *)
(* addresses that share a port, so that the keys of two forwards collide while  *)
(* their addresses do not, and two kinds that share an address.                 *)
EXTENDS SshRuntime
=============================================================================
