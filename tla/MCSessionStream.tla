---------------------------- MODULE MCSessionStream ----------------------------
(* Model checking of SessionStream: bytes come in units, an event holds at most *)
(* two of them, a batch two and the ring three, so that events of both sizes,   *)
(* batches cut short, and drops with output after them all happen.              *)
EXTENDS SessionStream
================================================================================
