----------------------------- MODULE AgentTasks -----------------------------
(***************************************************************************)
(* Agents, their tasks and the event log of a Workspace (crates/workspace, *)
(* SQLite), across ends and starts of isshd.                               *)
(*                                                                         *)
(* Store operations of the serving isshd hold the store's mutex and commit *)
(* one transaction each: one operation is one step. Opening the store      *)
(* (initialize) is not one transaction: each of its statements commits by  *)
(* itself, and the process may die between two of them. isshd opens the    *)
(* store before it claims the named pipe, so a second process changes the  *)
(* database before it finds the pipe taken (main, run).                    *)
(*                                                                         *)
(* One Workspace is enough: tasks and agents belong to one each, and no     *)
(* operation here looks at two.                                            *)
(***************************************************************************)
EXTENDS Integers, FiniteSets, SequencesExt

CONSTANTS
    Agents,          \* the ids register_agent will hand out
    Scopes,          \* scopes beyond "llm.prompt", which every agent has
    MaxTasks,        \* bound: tasks ever created
    MaxAudits        \* bound: security events of an agent

ASSUME BoundAssumption ==
    /\ MaxTasks \in Nat /\ MaxAudits \in Nat
    /\ Agents \cap (1..MaxTasks) = {}   \* an event names an agent or a task

VARIABLES
    serving,    \* does an isshd hold the pipe?
    opener,     \* the isshd that is opening the store
    workspace,  \* does the Workspace exist?
    agents,     \* the agents table, by id
    tasks,      \* the tasks table: task-1, task-2, ... (AUTOINCREMENT)
    events,     \* the events table, entity by entity, each in the order of its
                \* sequence numbers
    cutOff      \* history: tasks that a second isshd has interrupted while one was
                \* serving, until an opening rests the agents

database == <<workspace, agents, tasks, events>>
vars     == <<serving, opener, database, cutOff>>

Ids  == DOMAIN tasks
NoOpener == [stage |-> "none", pending |-> {}]

Unfinished == {t \in Ids : tasks[t].status \in {"queued", "running"}}
Terminal(t) == tasks[t].status \in {"completed", "failed", "cancelled", "interrupted"}
Registered(a) == agents[a].state = "registered"

Entities == Agents \cup (1..MaxTasks)
NoEvents == [id \in Entities |-> << >>]

\* insert_event: a task's event is its kind, an agent's also names scopes.
Log(id, event) == events' = [events EXCEPT ![id] = Append(@, event)]
Entry(kind, scopes) == [kind |-> kind, scopes |-> scopes]

Security == {"authorized", "denied", "granted"}
Audits(a) == Len(SelectSeq(events[a], LAMBDA e : e.kind \in Security))

---------------------------------------------------------------------------
(* Requests of any client to the serving isshd.                              *)

\* register_agent: normalize_agent_scopes keeps "llm.prompt" in every set.
RegisterAgent(a) ==
    /\ serving /\ workspace /\ agents[a].state = "new"
    /\ \E scopes \in SUBSET Scopes :
        /\ agents' = [agents EXCEPT ![a] =
                        [state |-> "registered", status |-> "idle", scopes |-> scopes]]
        /\ Log(a, Entry("registered", scopes))
    /\ UNCHANGED <<serving, opener, workspace, tasks, cutOff>>

\* Mutated form of Removed: a status the schema does not know.
RemovedLoose(t) == [tasks[t] EXCEPT !.status = "unregistered"]

Removed(t) == [tasks[t] EXCEPT !.status = "removed"]

\* unregister_agent: the foreign key takes the agent's tasks; events stay.
UnregisterAgent(a) ==
    /\ serving /\ workspace /\ Registered(a)
    /\ agents' = [agents EXCEPT ![a] = [state |-> "gone", status |-> "idle", scopes |-> {}]]
    /\ tasks' = [t \in Ids |-> IF tasks[t].agent = a THEN Removed(t) ELSE tasks[t]]
    /\ Log(a, Entry("unregistered", {}))
    /\ UNCHANGED <<serving, opener, workspace, cutOff>>

Allowed(a, scope) == scope \in agents[a].scopes

\* authorize_agent: the decision is an event either way.
Authorize(a, scope) ==
    /\ serving /\ Registered(a) /\ Audits(a) < MaxAudits
    /\ Log(a, Entry(IF Allowed(a, scope) THEN "authorized" ELSE "denied", {scope}))
    /\ UNCHANGED <<serving, opener, workspace, agents, tasks, cutOff>>

\* grant_agent_scope: a scope the agent has is granted without an event.
Grant(a, scope) ==
    /\ serving /\ Registered(a) /\ Audits(a) < MaxAudits
    /\ ~Allowed(a, scope)
    /\ agents' = [agents EXCEPT ![a].scopes = @ \cup {scope}]
    /\ Log(a, Entry("granted", {scope}))
    /\ UNCHANGED <<serving, opener, workspace, tasks, cutOff>>

\* create_task: "llm.prompt" is authorized (one event, left out of the log here),
\* then the task is queued.
CreateTask(a) ==
    /\ serving /\ Registered(a) /\ Len(tasks) < MaxTasks
    /\ tasks' = Append(tasks, [agent |-> a, status |-> "queued"])
    /\ agents' = [agents EXCEPT ![a].status = "busy"]
    /\ Log(Len(tasks) + 1, "queued")
    /\ UNCHANGED <<serving, opener, workspace, cutOff>>

StartTask(t) ==
    /\ serving /\ tasks[t].status = "queued"
    /\ tasks' = [tasks EXCEPT ![t].status = "running"]
    /\ Log(t, "running")
    /\ UNCHANGED <<serving, opener, workspace, agents, cutOff>>

\* Mutated form of MayEnd: only a cancelled task is refused a second end.
MayEndAgain(t) == tasks[t].status \notin {"cancelled", "removed"}

\* finish_task and cancel_task leave a task that has ended as it is: the late
\* answer of an agent does not overwrite a cancellation.
MayEnd(t) == tasks[t].status \in {"queued", "running"}

\* complete_task and fail_task (finish_task), cancel_task. A queued task may end
\* without having run. The agent becomes idle, whatever else it has to do.
EndTask(t, how) ==
    /\ serving /\ MayEnd(t)
    /\ tasks' = [tasks EXCEPT ![t].status = how]
    /\ agents' = [agents EXCEPT ![tasks[t].agent].status = "idle"]
    /\ Log(t, how)
    /\ UNCHANGED <<serving, opener, workspace, cutOff>>

\* delete_workspace: the foreign keys take agents, tasks and events.
DeleteWorkspace ==
    /\ serving /\ workspace
    /\ workspace' = FALSE
    /\ agents' = [a \in Agents |-> [state |-> "gone", status |-> "idle", scopes |-> {}]]
    /\ tasks' = [t \in Ids |-> Removed(t)]
    /\ events' = NoEvents
    /\ UNCHANGED <<serving, opener, cutOff>>

---------------------------------------------------------------------------
(* isshd ends; isshd is started (ensure_started) and opens the store.         *)

RuntimeDies ==
    /\ serving
    /\ serving' = FALSE
    /\ UNCHANGED <<opener, database, cutOff>>

\* ensure_started launches an isshd when none answers within 500 ms, which one that
\* serves may fail to do. initialize reads which tasks it is about to interrupt ...
Launch ==
    /\ opener = NoOpener
    /\ opener' = [stage |-> "read", pending |-> Unfinished]
    /\ UNCHANGED <<serving, database, cutOff>>

\* Mutated form of Interrupted: queued tasks wait for the next runtime.
InterruptedRunning == {t \in Ids : tasks[t].status = "running"}

\* The tasks the UPDATE of initialize interrupts.
Interrupted == Unfinished

\* ... interrupts every unfinished one ...
InterruptTasks ==
    /\ opener.stage = "read"
    /\ tasks' = [t \in Ids |-> IF t \in Interrupted THEN [tasks[t] EXCEPT !.status = "interrupted"]
                               ELSE tasks[t]]
    /\ opener' = [opener EXCEPT !.stage = "interrupted"]
    /\ cutOff' = IF serving THEN cutOff \cup Interrupted ELSE cutOff
    /\ UNCHANGED <<serving, workspace, agents, events>>

\* Mutated form of Rested: busy agents stay busy.
RestedNot(a) == agents[a]

Rested(a) == [agents[a] EXCEPT !.status = "idle"]

\* ... makes every busy agent idle ...
RestAgents ==
    /\ opener.stage = "interrupted"
    /\ agents' = [a \in Agents |-> Rested(a)]
    /\ opener' = [opener EXCEPT !.stage = "recording"]
    /\ cutOff' = {}
    /\ UNCHANGED <<serving, workspace, tasks, events>>

\* ... and records the tasks it read, one event each, whatever has become of them.
\* (The rows of a task that is gone with its Workspace meanwhile fail the foreign key:
\* the process exits.)
RecordInterrupted ==
    /\ opener.stage = "recording" /\ opener.pending # {}
    /\ LET t == Min(opener.pending) IN
        IF workspace
        THEN /\ Log(t, "interrupted")
             /\ opener' = [opener EXCEPT !.pending = @ \ {t}]
        ELSE /\ opener' = NoOpener
             /\ UNCHANGED events
    /\ UNCHANGED <<serving, workspace, agents, tasks, cutOff>>

\* The pipe is claimed, or found taken: then the process exits.
ClaimPipe ==
    /\ opener.stage = "recording" /\ opener.pending = {}
    /\ serving' = TRUE
    /\ opener' = NoOpener
    /\ UNCHANGED <<database, cutOff>>

OpenerDies ==
    /\ opener # NoOpener
    /\ opener' = NoOpener
    /\ UNCHANGED <<serving, database, cutOff>>

---------------------------------------------------------------------------
Init ==
    /\ serving = TRUE /\ opener = NoOpener
    /\ workspace = TRUE
    /\ agents = [a \in Agents |-> [state |-> "new", status |-> "idle", scopes |-> {}]]
    /\ tasks = << >> /\ events = NoEvents /\ cutOff = {}

Open == InterruptTasks \/ RestAgents \/ RecordInterrupted \/ ClaimPipe

Next ==
    \/ \E a \in Agents : RegisterAgent(a) \/ UnregisterAgent(a) \/ CreateTask(a)
    \/ \E a \in Agents, scope \in Scopes : Authorize(a, scope) \/ Grant(a, scope)
    \/ \E t \in Ids : StartTask(t) \/ \E how \in {"completed", "failed", "cancelled"} : EndTask(t, how)
    \/ DeleteWorkspace
    \/ RuntimeDies \/ Launch \/ Open \/ OpenerDies

Spec == Init /\ [][Next]_vars

\* The window asks isshd for something four times a second, and RuntimeManager
\* starts it again when it does not answer. A start may die, but not every one.
FairSpec == Spec /\ WF_vars(Launch /\ ~serving) /\ SF_vars(InterruptTasks)

---------------------------------------------------------------------------
(* Properties.                                                               *)

Status == {"queued", "running", "completed", "failed", "cancelled", "interrupted", "removed"}

\* The type invariant.
TypeOK ==
    /\ serving \in BOOLEAN /\ workspace \in BOOLEAN
    /\ opener \in [stage: {"none", "read", "interrupted", "recording"}, pending: SUBSET (1..MaxTasks)]
    /\ agents \in [Agents -> [state: {"new", "registered", "gone"}, status: {"idle", "busy"},
                              scopes: SUBSET Scopes]]
    /\ tasks \in Seq([agent: Agents, status: Status])
    /\ DOMAIN events = Entities /\ cutOff \subseteq 1..MaxTasks
    /\ \A t \in 1..MaxTasks : events[t] \in Seq(Status)
    /\ \A a \in Agents : events[a] \in
          Seq([kind: Security \cup {"registered", "unregistered"}, scopes: SUBSET Scopes])

\* The tasks and the log together implement TaskLife. An event that is yet to be
\* recorded is disputed when its task has ended otherwise.
Life == INSTANCE TaskLife WITH
    Tasks    <- 1..MaxTasks,
    status   <- [t \in 1..MaxTasks |-> IF t \in Ids THEN tasks[t].status ELSE "none"],
    story    <- [t \in 1..MaxTasks |-> events[t]],
    twofold  <- serving /\ opener.stage # "none",
    disputed <- {t \in opener.pending : tasks[t].status \notin {"queued", "running", "interrupted"}}
LifeSpec == Life!Spec

\* The agent has an unfinished task, or one that a second isshd has interrupted under it.
HasWork(a) == \E t \in Unfinished \cup cutOff : tasks[t].agent = a

\* While isshd serves, an agent that is shown as busy has an unfinished task, or one
\* that a second isshd took from it without having come to rest the agents: no end,
\* cancellation, removal or restart leaves one busy with nothing to do.
BusyHasWork == serving => \A a \in Agents : agents[a].status = "busy" => HasWork(a)

\* An unfinished task whose runtime is gone ends, unless an isshd that has already
\* passed the interruption, because it was launched while the other served, takes over.
UnfinishedEnds ==
    \A t \in 1..MaxTasks :
        (~serving /\ opener.stage \in {"none", "read"} /\ t \in Unfinished) ~> (t \notin Unfinished)

==============================================================================
