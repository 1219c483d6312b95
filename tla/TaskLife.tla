------------------------------ MODULE TaskLife ------------------------------
(* What the Workspace store promises of a task: it is queued, may run, and    *)
(* ends once; the events about it tell that story in order. Ending a task as  *)
(* interrupted and recording it are two steps. Only while two runtimes have   *)
(* the store may a task end under the one that the other is about to record   *)
(* as interrupted.                                                            *)
EXTENDS Naturals, Sequences

CONSTANT Tasks

VARIABLES
    status,   \* per task; "none" before it exists, "removed" after its agent's end
    story,    \* per task: the kinds of the events about it
    twofold,  \* do two runtimes have the store?
    disputed  \* tasks that ended, and will yet be recorded as interrupted

vars == <<status, story, twofold, disputed>>

Unfinished == {t \in Tasks : status[t] \in {"queued", "running"}}

Init ==
    /\ status = [t \in Tasks |-> "none"]
    /\ story = [t \in Tasks |-> << >>]
    /\ twofold = FALSE /\ disputed = {}

\* The ends of the tasks in T may come to be disputed.
Dispute(T) ==
    /\ disputed \subseteq disputed' /\ disputed' \subseteq disputed \cup T
    /\ ~twofold => disputed' = disputed
    /\ UNCHANGED twofold

Goes(t, from, to) ==
    /\ status[t] \in from
    /\ status' = [status EXCEPT ![t] = to]
    /\ story' = [story EXCEPT ![t] = Append(@, to)]

Begins(t) ==
    /\ Goes(t, {"none"}, "queued") \/ Goes(t, {"queued"}, "running")
    /\ UNCHANGED <<twofold, disputed>>

Ends(t, end) == Goes(t, {"queued", "running"}, end) /\ Dispute({t})

\* Several tasks at once stop being worked on.
Interrupt(T) ==
    /\ T \subseteq Unfinished
    /\ status' = [t \in Tasks |-> IF t \in T THEN "interrupted" ELSE status[t]]
    /\ UNCHANGED <<story, twofold, disputed>>

Record(t) ==
    /\ status[t] = "interrupted" \/ t \in disputed
    /\ story[t] # << >> /\ story[t][Len(story[t])] # "interrupted"
    /\ story' = [story EXCEPT ![t] = Append(@, "interrupted")]
    /\ disputed' = disputed \ {t}
    /\ UNCHANGED <<status, twofold>>

Remove(T) ==
    /\ \A t \in T : status[t] # "none"
    /\ status' = [t \in Tasks |-> IF t \in T THEN "removed" ELSE status[t]]
    /\ \E kept \in {story, [t \in Tasks |-> << >>]} : story' = kept
    /\ Dispute(T)

\* A runtime comes or goes, and with it what it was about to record.
RuntimesChange ==
    /\ twofold' \in BOOLEAN
    /\ disputed' \in {disputed, {}}
    /\ UNCHANGED <<status, story>>

Next ==
    \/ \E t \in Tasks :
        \/ Begins(t)
        \/ \E end \in {"completed", "failed", "cancelled"} : Ends(t, end)
        \/ Record(t)
    \/ \E T \in SUBSET Tasks : Interrupt(T) \/ Remove(T)
    \/ RuntimesChange

Spec == Init /\ [][Next]_vars
==============================================================================
