---------------------------- MODULE SessionStream ----------------------------
(***************************************************************************)
(* One terminal session, from the process behind it to the tab that shows  *)
(* it: the output ring of the runtime (crates/session), the reader that    *)
(* fills it (the PTY reader thread of a local shell, the pump of an SSH     *)
(* shell), the session.subscribe and session.close requests of isshd, and  *)
(* the polling loop of the tab (App.svelte).                               *)
(*                                                                         *)
(* The data of an output event is the slice [from, to) of the bytes the    *)
(* process has written, so that order, loss and repetition can be told.    *)
(*                                                                         *)
(* Every runtime step runs under the mutex of the session store or of the  *)
(* session's output, so one request or one push is one step. Between the   *)
(* request and the answer of a poll anything may happen.                   *)
(***************************************************************************)
EXTENDS Integers, Sequences

CONSTANTS
    MaxSessionBufferBytes,  \* MAX_SESSION_BUFFER_BYTES
    MaxSessionEventBytes,   \* MAX_SESSION_EVENT_BYTES
    MaxSessionBatchBytes,   \* MAX_SESSION_BATCH_BYTES, also what the tab asks for
    MaxEvents,              \* maxEvents of the tab's subscription
    MaxOutput               \* bound: bytes the process ever writes

ASSUME LimitAssumption ==
    /\ MaxSessionEventBytes \in Nat \ {0}
    /\ MaxSessionBatchBytes \in Nat
    /\ MaxSessionBufferBytes \in Nat
    /\ MaxSessionEventBytes <= MaxSessionBatchBytes
    /\ MaxSessionEventBytes <= MaxSessionBufferBytes
    /\ MaxEvents \in Nat \ {0}
    /\ MaxOutput \in Nat

VARIABLES
    kind,      \* "local" or "ssh"
    produced,  \* bytes the process has written
    process,   \* "running", "exited"
    reader,    \* "reading", "done": the PTY reader thread, or the SSH pump
    taken,     \* bytes the reader has moved into the ring
    output,    \* OutputState of the session
    stored,    \* is the session in the store's map?
    tab,       \* "open", "closed"
    cursor,    \* tab.sequence
    screen,    \* the slices written to the terminal, in order (history)
    polls      \* the subscribe requests of the tab that are under way

runtimeVars == <<reader, taken, output, stored>>
tabVars     == <<tab, cursor, screen, polls>>
vars == <<kind, produced, process, runtimeVars, tabVars>>

Pollers == {"mount", "timer"}
Slice   == [sequence: Nat, from: Nat, to: Nat]
Idle    == [stage |-> "idle"]

---------------------------------------------------------------------------
(* The output ring: OutputState.                                            *)

\* OutputState::new
NewOutput == [ state |-> "running", nextSequence |-> 1, events |-> << >>,
               bufferedBytes |-> 0, droppedBytes |-> 0 ]

\* Mutated forms of Trim: the dropped bytes are not counted; the new bytes are not
\* counted before the loop.
TrimUncounted(all, n, size, left) ==
    [output EXCEPT !.events = SubSeq(all, n + 1, Len(all)), !.bufferedBytes = left]
TrimTwice(all, n, size, left) ==
    [output EXCEPT !.events = SubSeq(all, n + 1, Len(all)),
                   !.bufferedBytes = @ - (size - left), !.droppedBytes = @ + (size - left)]

\* The ring when its n oldest events are gone: left of the size bytes remain.
Trim(all, n, size, left) ==
    [output EXCEPT !.events = SubSeq(all, n + 1, Len(all)),
                   !.bufferedBytes = left, !.droppedBytes = @ + (size - left)]

\* OutputState::push of the slices that cut bytes [from, to), with the loop that
\* pops the n oldest events while the ring is over its limit. The reader pushes
\* consecutive slices (RingAccounts), so what is left after n pops is the stretch
\* from the end of the n-th event to the end of the new data.
Push(slices, from, to) ==
    LET all     == output.events \o slices
        size    == output.bufferedBytes + (to - from)
        left(n) == IF n = 0 THEN size ELSE to - all[n].to
    IN \E n \in 0..Len(all) :
        /\ left(n) <= MaxSessionBufferBytes
        /\ n > 0 => left(n - 1) > MaxSessionBufferBytes
        /\ output' = [Trim(all, n, size, left(n)) EXCEPT !.nextSequence = @ + Len(slices)]

\* The k events of at most MaxSessionEventBytes that carry bytes [from, to).
Chunks(k, from, to) ==
    [i \in 1..k |->
        [ sequence |-> output.nextSequence + (i - 1),
          from     |-> from + (i - 1) * MaxSessionEventBytes,
          to       |-> IF i = k THEN to ELSE from + i * MaxSessionEventBytes ]]

\* Mutated form of Exited: the test is inverted.
ExitedInverted(state) == IF state = "running" THEN state ELSE "exited"

\* A "running" session becomes "exited"; other states stay.
Exited(state) == IF state = "running" THEN "exited" ELSE state
MarkExited(o) == [o EXCEPT !.state = Exited(@)]

\* LocalSession::stop closes whatever the state was, SshSession::stop only a
\* running session.
Stopped(state) == IF kind = "local" \/ state = "running" THEN "closed" ELSE state

\* LocalSession::snapshot asks the child first; SshSession::snapshot does not.
Snapshot(o) == IF kind = "local" /\ process = "exited" THEN MarkExited(o) ELSE o

---------------------------------------------------------------------------
(* The process and its reader.                                              *)

Produce ==
    /\ process = "running"
    /\ \E n \in 1..(MaxOutput - produced) : produced' = produced + n
    /\ UNCHANGED <<kind, process, runtimeVars, tabVars>>

Exit ==
    /\ process = "running"
    /\ process' = "exited"
    /\ UNCHANGED <<kind, produced, runtimeVars, tabVars>>

\* read_output: one read of at most MaxSessionEventBytes, one push.
ReadLocal ==
    /\ kind = "local" /\ reader = "reading"
    /\ \E n \in 1..MaxSessionEventBytes :
        /\ taken + n <= produced
        /\ Push(Chunks(1, taken, taken + n), taken, taken + n)
        /\ taken' = taken + n
    /\ UNCHANGED <<kind, produced, process, reader, stored, tabVars>>

\* flush_ssh_output, push_ssh_output: whatever message the server sent, cut into
\* events under one lock; nothing is stored once the session left the map.
PumpOutput ==
    /\ kind = "ssh" /\ reader = "reading" /\ stored
    /\ \E n \in 1..(produced - taken) : \E k \in 1..n :
        /\ (k - 1) * MaxSessionEventBytes < n
        /\ n <= k * MaxSessionEventBytes
        /\ Push(Chunks(k, taken, taken + n), taken, taken + n)
        /\ taken' = taken + n
    /\ UNCHANGED <<kind, produced, process, reader, stored, tabVars>>

\* read_output sees the end of the PTY: everything was read. The entry may
\* already have left the map: the thread holds its own reference.
EndOfPty ==
    /\ kind = "local" /\ reader = "reading"
    /\ process = "exited" /\ taken = produced
    /\ reader' = "done"
    /\ output' = MarkExited(output)
    /\ UNCHANGED <<kind, produced, process, taken, stored, tabVars>>

\* open_interactive's reading task stops at exit-status, EOF or close, whichever
\* the server sends first, and the pump then marks the session. The exit status
\* may come before the last data.
EndOfChannel ==
    /\ kind = "ssh" /\ reader = "reading" /\ stored
    /\ process = "exited"
    /\ reader' = "done"
    /\ output' = MarkExited(output)
    /\ UNCHANGED <<kind, produced, process, taken, stored, tabVars>>

\* A write or a resize fails on a broken channel: the pump leaves its loop and
\* marks nothing.
PumpWriteFails ==
    /\ kind = "ssh" /\ reader = "reading" /\ stored /\ output.state = "running"
    /\ reader' = "done"
    /\ UNCHANGED <<kind, produced, process, taken, output, stored, tabVars>>

---------------------------------------------------------------------------
(* session.close, by the tab or by another client (Agent Bridge).            *)

\* SessionStore::close removes the entry and stops it; isshd has aborted the pump.
Close ==
    /\ stored
    /\ stored' = FALSE
    /\ output' = [output EXCEPT !.state = Stopped(@)]
    /\ reader' = IF kind = "ssh" THEN "done" ELSE reader
    /\ UNCHANGED <<kind, produced, process, taken, tabVars>>

---------------------------------------------------------------------------
(* The tab.                                                                  *)

\* pollOutput sends session.subscribe with the cursor the tab has now. The poll
\* of mountTerminal is under way from the start and does not set pollInFlight: the
\* timer, which keeps one poll of its own, may tick before that one has ended.
Ask ==
    /\ tab = "open" /\ polls["timer"] = Idle
    /\ polls' = [polls EXCEPT !["timer"] = [stage |-> "asked", after |-> cursor]]
    /\ UNCHANGED <<kind, produced, process, runtimeVars, tab, cursor, screen>>

\* Mutated form of Unread: off by one, the event at the cursor is sent again.
UnreadFromCursor(event, after) == event.sequence >= after

\* collect_events: the filter on the sequence number.
Unread(event, after) == event.sequence > after

\* collect_events: the next cursor.
NextAfter(events, after) == IF events = << >> THEN after ELSE events[Len(events)].sequence

\* SessionStore::subscribe and collect_events: the snapshot, then the events
\* after the cursor, from index lo to hi, up to the limits of the request.
Answer(p) ==
    /\ polls[p].stage = "asked" /\ stored
    /\ output' = Snapshot(output)
    /\ LET ev    == output.events
           after == polls[p].after
       IN \E lo \in 1..(Len(ev) + 1) : \E hi \in (lo - 1)..Len(ev) :
        /\ \A i \in 1..(lo - 1) : ~Unread(ev[i], after)
        /\ lo <= Len(ev) => Unread(ev[lo], after)
        /\ hi - lo + 1 <= MaxEvents
        /\ hi >= lo => ev[hi].to - ev[lo].from <= MaxSessionBatchBytes
        /\ hi < Len(ev) =>
              \/ hi - lo + 1 = MaxEvents
              \/ ev[hi + 1].to - ev[lo].from > MaxSessionBatchBytes
        /\ polls' = [polls EXCEPT ![p] =
              [ stage  |-> "answered",
                state  |-> output'.state,
                events |-> SubSeq(ev, lo, hi),
                next   |-> NextAfter(SubSeq(ev, lo, hi), after) ]]
    /\ UNCHANGED <<kind, produced, process, reader, taken, stored, tab, cursor, screen>>

\* pollOutput gets the answer: cursor, terminal, and closeTab when the session
\* no longer runs. The terminal of a closed tab is disposed.
Show(p) ==
    /\ polls[p].stage = "answered" /\ tab = "open"
    /\ cursor' = polls[p].next
    /\ screen' = screen \o polls[p].events
    /\ tab' = IF polls[p].state = "running" THEN "open" ELSE "closed"
    /\ polls' = [polls EXCEPT ![p] = Idle]
    /\ UNCHANGED <<kind, produced, process, runtimeVars>>

\* Mutated form of PollFails: pollInFlight stays set after an error.
PollFailsForGood(p) ==
    /\ polls[p].stage \in {"asked", "answered"}
    /\ polls' = [polls EXCEPT ![p] = [stage |-> "failed"]]
    /\ UNCHANGED <<kind, produced, process, runtimeVars, tab, cursor, screen>>

\* The request fails: no such session, or the pipe timed out before or after the
\* runtime answered. The cursor stays, the next tick asks again. An answer for a
\* closed tab is dropped.
PollFails(p) ==
    /\ polls[p] # Idle
    /\ polls' = [polls EXCEPT ![p] = Idle]
    /\ UNCHANGED <<kind, produced, process, runtimeVars, tab, cursor, screen>>

\* The user closes the tab (closeTab); session.close follows as Close.
CloseTab ==
    /\ tab = "open"
    /\ tab' = "closed"
    /\ UNCHANGED <<kind, produced, process, runtimeVars, cursor, screen, polls>>

---------------------------------------------------------------------------
Init ==
    /\ kind \in {"local", "ssh"}
    /\ produced = 0 /\ process = "running"
    /\ reader = "reading" /\ taken = 0 /\ output = NewOutput /\ stored = TRUE
    /\ tab = "open" /\ cursor = 0 /\ screen = << >>
    /\ polls = [p \in Pollers |->
                  IF p = "mount" THEN [stage |-> "asked", after |-> 0] ELSE Idle]

Read == ReadLocal \/ PumpOutput \/ EndOfPty \/ EndOfChannel

Next ==
    \/ Produce \/ Exit
    \/ Read \/ PumpWriteFails
    \/ Close
    \/ Ask \/ CloseTab
    \/ \E p \in Pollers : Answer(p) \/ Show(p) \/ PollFails(p)

Spec == Init /\ [][Next]_vars

\* Fairness: the reader threads and the pump run; the 250 ms timer keeps ticking
\* and the requests it makes do not fail for ever; the pipe timeout ends every poll.
Fairness ==
    /\ WF_vars(Read)
    /\ WF_vars(Ask)
    /\ WF_vars(Show("mount") \/ PollFails("mount"))
    /\ SF_vars(Answer("timer")) /\ SF_vars(Show("timer"))

FairSpec == Spec /\ Fairness

---------------------------------------------------------------------------
(* Properties.                                                               *)

\* The type invariant.
TypeOK ==
    /\ kind \in {"local", "ssh"}
    /\ produced \in Nat /\ taken \in Nat
    /\ process \in {"running", "exited"}
    /\ reader \in {"reading", "done"}
    /\ output \in [ state: {"running", "exited", "closed"}, nextSequence: Nat \ {0},
                    events: Seq(Slice), bufferedBytes: Nat, droppedBytes: Nat ]
    /\ stored \in BOOLEAN
    /\ tab \in {"open", "closed"}
    /\ cursor \in Nat
    /\ screen \in Seq(Slice)
    /\ polls \in [Pollers ->
                    [stage: {"idle"}] \cup [stage: {"asked"}, after: Nat]
                    \cup [stage: {"answered"}, state: {"running", "exited", "closed"},
                          events: Seq(Slice), next: Nat]]

\* A run of slices with consecutive sequence numbers and bytes, none empty.
Contiguous(s) ==
    /\ \A i \in 1..Len(s) : s[i].from < s[i].to
    /\ \A i \in 1..(Len(s) - 1) : /\ s[i].to = s[i + 1].from
                                  /\ s[i].sequence + 1 = s[i + 1].sequence

\* The ring holds one unbroken stretch that ends at the last byte read, within
\* its limit, and dropped_bytes plus buffered_bytes is every byte read: output is
\* lost at the old end only, and what is lost is counted (OutputState::push).
RingAccounts ==
    /\ Contiguous(output.events)
    /\ output.droppedBytes + output.bufferedBytes = taken
    /\ output.bufferedBytes <= MaxSessionBufferBytes
    /\ output.events = << >> => output.bufferedBytes = 0
    /\ output.events # << >> =>
          /\ output.events[1].from = output.droppedBytes
          /\ output.events[Len(output.events)].to = taken
          /\ output.events[Len(output.events)].sequence + 1 = output.nextSequence

\* The offset after the last byte on the screen.
ShownUpTo == IF screen = << >> THEN 0 ELSE screen[Len(screen)].to

\* The offset after the event with the number of a cursor, which has been on the screen.
OffsetOf(number) ==
    IF number = 0 THEN 0
    ELSE screen[CHOOSE i \in 1..Len(screen) : screen[i].sequence = number].to

\* The timer's poll was asked before the mount poll moved the cursor on, and takes it back.
TimerIsBehind ==
    \/ polls["timer"].stage = "asked" /\ polls["timer"].after < cursor
    \/ /\ polls["timer"].stage = "answered"
       /\ IF polls["timer"].events = << >> THEN polls["timer"].next < cursor
                                           ELSE polls["timer"].events[1].sequence <= cursor

\* The tab implements an in-order reader of a bounded buffer: what it shows goes on
\* where its cursor is, and what it skips has been shown or has been dropped. Only
\* the poll of mountTerminal and the one of the timer that overlaps it take it back.
Stream == INSTANCE ByteStream WITH
    written  <- taken,
    lost     <- output.droppedBytes,
    position <- OffsetOf(cursor),
    seen     <- UNION {screen[i].from .. (screen[i].to - 1) : i \in 1..Len(screen)},
    setbacks <- IF polls["mount"] # Idle THEN 2 ELSE IF TimerIsBehind THEN 1 ELSE 0
StreamSpec == Stream!Spec

\* Output the runtime has read reaches the screen, or is overtaken by newer output
\* there, as long as the tab and its session stay.
OutputIsShown ==
    \A n \in 1..MaxOutput :
        (taken >= n) ~>
            ((\E i \in 1..Len(screen) : screen[i].to >= n) \/ tab = "closed" \/ ~stored)

\* When the shell exits, the tab is closed (behaviorOnSessionEnd = auto).
LocalExitClosesTab ==
    (kind = "local" /\ process = "exited") ~> (tab = "closed" \/ ~stored)

\* A tab that closes because its session ended has shown the output of the
\* process to its last byte, unless the ring dropped it.
LastOutputIsShown ==
    [][(\E p \in Pollers : Show(p)) /\ tab' = "closed" => ShownUpTo' = produced]_vars

=============================================================================
