----------------------------- MODULE ByteStream -----------------------------
(***************************************************************************)
(* What a terminal session promises to its one reader: the bytes the       *)
(* process wrote reach the screen in the order they were written, and the  *)
(* only bytes that never do are those the bounded buffer gave up, oldest   *)
(* first. A tab starts with two requests that may overlap, so the reader   *)
(* may be set back, twice at most, and show again what it has shown.       *)
(***************************************************************************)
EXTENDS Integers

VARIABLES
    written,   \* bytes the session has accepted from the process
    lost,      \* the buffer has given up the bytes below this offset
    position,  \* the next run goes on at this offset
    seen,      \* the bytes (offsets) the reader has seen
    setbacks   \* how often the reader may still be set back

vars == <<written, lost, position, seen, setbacks>>

Init == written = 0 /\ lost = 0 /\ position = 0 /\ seen = {} /\ setbacks = 2

\* New bytes arrive; the buffer may give up its oldest ones to hold them.
Accept ==
    /\ written' \in Nat /\ written < written'
    /\ lost <= lost' /\ lost' <= written'
    /\ UNCHANGED <<position, seen, setbacks>>

\* The reader is given a run of bytes, or only told where to go on (an empty run).
\* Nothing before the run is both kept and unseen; a run that starts before the
\* reader's position takes a setback.
Deliver ==
    \E from \in 0..written : \E to \in from..written :
        /\ 0..(from - 1) \subseteq seen \cup 0..(lost - 1)
        /\ position' = to
        /\ seen' = seen \cup from..(to - 1)
        /\ setbacks' \in 0..setbacks
        /\ from < position => setbacks' < setbacks
        /\ UNCHANGED <<written, lost>>

\* The overlap is over, so no setback may come of it any more.
Settle ==
    /\ setbacks' \in 0..(setbacks - 1)
    /\ UNCHANGED <<written, lost, position, seen>>

Next == Accept \/ Deliver \/ Settle

Spec == Init /\ [][Next]_vars
=============================================================================
