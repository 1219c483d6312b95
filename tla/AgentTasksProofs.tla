--------------------------- MODULE AgentTasksProofs ---------------------------
(* Proofs about AgentTasks, for any agents, scopes and number of tasks: its type *)
(* invariant, BusyHasWork, and that tasks and events implement TaskLife, also     *)
(* while a second isshd opens the store.                                         *)
EXTENDS AgentTasks, SequenceTheorems, WellFoundedInduction, TLAPS

TaskType == [agent: Agents, status: Status]
Audit == [kind: Security \cup {"registered", "unregistered"}, scopes: SUBSET Scopes]
EventOf(id) == IF id \in Agents THEN Audit ELSE Status

OpenerType == [stage: {"none", "read", "interrupted", "recording"}, pending: SUBSET (1..MaxTasks)]
AgentType  == [state: {"new", "registered", "gone"}, status: {"idle", "busy"}, scopes: SUBSET Scopes]

\* TypeOK in terms of these, within the bound.
TypeInv ==
    /\ serving \in BOOLEAN /\ workspace \in BOOLEAN
    /\ opener \in OpenerType
    /\ agents \in [Agents -> AgentType]
    /\ tasks \in Seq(TaskType) /\ Len(tasks) <= MaxTasks
    /\ DOMAIN events = Entities /\ cutOff \subseteq 1..MaxTasks
    /\ \A t \in 1..MaxTasks : events[t] \in Seq(Status)
    /\ \A a \in Agents : events[a] \in Seq(Audit)

\* While isshd serves, and before the one that opens the store may, whoever is busy has work.
AllAtWork == \A a \in Agents : agents[a].status = "busy" => HasWork(a)
AtWork == serving \/ opener.stage = "recording" => AllAtWork

\* A task of which the log does not say that it was interrupted.
Untold(t) == events[t] # << >> /\ events[t][Len(events[t])] # "interrupted"

UnfinishedIsUntold == \A t \in Unfinished : Untold(t)

\* An opening is about to record tasks that the log does not call interrupted, and that
\* are not unfinished any more once it has passed the interruption.
OpenerIsSound ==
    /\ opener.stage = "none" => opener.pending = {}
    /\ cutOff \subseteq Ids
    /\ \A t \in opener.pending : t \in Ids /\ (workspace => Untold(t))
    /\ opener.stage \in {"interrupted", "recording"} => opener.pending \cap Unfinished = {}

IInv == TypeInv /\ AtWork /\ UnfinishedIsUntold /\ OpenerIsSound

---------------------------------------------------------------------------
(* Facts about the operators.                                               *)

\* Min is an element of any set of task numbers that is not empty.
LEMMA MinIsThere ==
    ASSUME NEW T, T \subseteq 1..MaxTasks, T # {}
    PROVE  Min(T) \in T
<1> DEFINE R == {ss \in Nat \X Nat : ss[1] < ss[2]}
<1>1. IsWellFoundedOn(R, Nat)
  BY NatLessThanWellFounded DEF OpToRel
<1>2. T \subseteq Nat
  BY BoundAssumption
<1>3. PICK x \in T : \A y \in T : <<y, x>> \notin R
  BY <1>1, <1>2, WFMin, Zenon
<1>4. \A y \in T : x \in Nat /\ y \in Nat /\ ~ (y < x)
  <2> SUFFICES ASSUME NEW y \in T PROVE x \in Nat /\ y \in Nat /\ ~ (y < x)
    OBVIOUS
  <2>1. x \in Nat /\ y \in Nat /\ <<y, x>> \in Nat \X Nat
    BY <1>2
  <2> QED
    BY <1>3, <2>1
<1>5. \A y \in T : x <= y
  BY <1>4
<1> QED
  BY <1>5, Zenon DEF Min

\* A log of any entity stays one when an event of its kind is appended.
LEMMA LogType ==
    ASSUME TypeInv, NEW id \in Entities, NEW event \in EventOf(id), Log(id, event)
    PROVE  /\ DOMAIN events' = Entities
           /\ \A t \in 1..MaxTasks : events'[t] \in Seq(Status)
           /\ \A a \in Agents : events'[a] \in Seq(Audit)
<1>1. events' = [events EXCEPT ![id] = Append(@, event)] /\ DOMAIN events = Entities
  BY DEF Log, TypeInv
<1>2. \A e \in Entities : events'[e] = IF e = id THEN Append(events[e], event) ELSE events[e]
  BY <1>1
<1>3. ASSUME NEW t \in 1..MaxTasks PROVE events'[t] \in Seq(Status)
  <2>1. events[t] \in Seq(Status)
    BY DEF TypeInv
  <2>2. t = id => event \in Status
    BY BoundAssumption DEF EventOf
  <2>3. events'[t] = events[t] \/ (events'[t] = Append(events[t], event) /\ t = id)
    BY <1>2 DEF Entities
  <2> QED
    BY <2>1, <2>2, <2>3, AppendProperties
<1>4. ASSUME NEW a \in Agents PROVE events'[a] \in Seq(Audit)
  <2>1. events[a] \in Seq(Audit)
    BY DEF TypeInv
  <2>2. a = id => event \in Audit
    BY DEF EventOf
  <2>3. events'[a] = events[a] \/ (events'[a] = Append(events[a], event) /\ a = id)
    BY <1>2 DEF Entities
  <2> QED
    BY <2>1, <2>2, <2>3, AppendProperties
<1> QED
  BY <1>1, <1>3, <1>4

\* A table of tasks over the same numbers.
LEMMA TableType ==
    ASSUME TypeInv, DOMAIN tasks' = Ids, \A t \in Ids : tasks'[t] \in TaskType,
           tasks' = [t \in Ids |-> tasks'[t]]
    PROVE  tasks' \in Seq(TaskType) /\ Len(tasks') = Len(tasks)
<1>1. Ids = 1..Len(tasks) /\ Len(tasks) \in Nat
  BY DEF Ids, TypeInv
<1> QED
  BY <1>1

\* What a step of the serving isshd does to the table, that of a task added included.
LEMMA TypeStep == TypeInv /\ [Next]_vars => TypeInv'
<1> SUFFICES ASSUME TypeInv, [Next]_vars PROVE TypeInv'
  OBVIOUS
<1> USE DEF TypeInv
<1>1. /\ tasks \in Seq(TaskType) /\ Len(tasks) \in Nat /\ Ids = 1..Len(tasks)
      /\ Len(tasks) <= MaxTasks /\ MaxTasks \in Nat
  BY BoundAssumption DEF Ids
<1>2. \A t \in Ids : tasks[t] \in TaskType /\ t \in 1..MaxTasks /\ t \in Entities
  BY <1>1 DEF Entities
<1>3. \A a \in Agents : a \in Entities /\ a \notin 1..MaxTasks
  BY BoundAssumption DEF Entities
<1>4. CASE UNCHANGED vars
  BY <1>4 DEF vars, database
<1>5. ASSUME NEW a \in Agents, RegisterAgent(a) PROVE TypeInv'
  <2> PICK scopes \in SUBSET Scopes :
        /\ agents' = [agents EXCEPT ![a] =
                        [state |-> "registered", status |-> "idle", scopes |-> scopes]]
        /\ Log(a, Entry("registered", scopes))
    BY <1>5 DEF RegisterAgent
  <2>1. Entry("registered", scopes) \in EventOf(a)
    BY DEF Entry, EventOf, Audit
  <2>2. agents' \in [Agents -> AgentType]
    BY DEF AgentType
  <2> QED
    BY <1>3, <1>5, <2>1, <2>2, LogType DEF RegisterAgent
<1>6. ASSUME NEW a \in Agents, UnregisterAgent(a) PROVE TypeInv'
  <2>1. Entry("unregistered", {}) \in EventOf(a)
    BY DEF Entry, EventOf, Audit
  <2>2. tasks' \in Seq(TaskType) /\ Len(tasks') = Len(tasks)
    BY <1>2, <1>6, TableType DEF UnregisterAgent, Removed, TaskType, Status
  <2>3. agents' \in [Agents -> AgentType]
    BY <1>6 DEF UnregisterAgent, AgentType
  <2> QED
    BY <1>3, <1>6, <2>1, <2>2, <2>3, LogType DEF UnregisterAgent
<1>7. ASSUME NEW a \in Agents, CreateTask(a) PROVE TypeInv'
  <2> DEFINE task == [agent |-> a, status |-> "queued"]
  <2>1. task \in TaskType /\ "queued" \in Status
    BY DEF TaskType, Status
  <2>2. tasks' \in Seq(TaskType) /\ Len(tasks') = Len(tasks) + 1 /\ Len(tasks') <= MaxTasks
    BY <1>1, <1>7, <2>1, AppendProperties DEF CreateTask
  <2>3. Len(tasks) + 1 \in 1..MaxTasks /\ Len(tasks) + 1 \in Entities
    BY <1>1, <2>2 DEF Entities
  <2>4. "queued" \in EventOf(Len(tasks) + 1)
    BY <1>3, <2>1, <2>3 DEF EventOf
  <2>5. agents' \in [Agents -> AgentType]
    BY <1>7 DEF CreateTask, AgentType
  <2> QED
    BY <1>7, <2>2, <2>3, <2>4, <2>5, LogType DEF CreateTask
<1>8. ASSUME NEW a \in Agents, NEW scope \in Scopes, Authorize(a, scope) \/ Grant(a, scope)
      PROVE  TypeInv'
  <2>1. \A kind \in Security : Entry(kind, {scope}) \in EventOf(a)
    BY DEF Entry, EventOf, Audit
  <2>2. CASE Authorize(a, scope)
    BY <1>3, <2>1, <2>2, LogType DEF Authorize, Security
  <2>3. CASE Grant(a, scope)
    <3>1. agents' \in [Agents -> AgentType]
      BY <2>3 DEF Grant, AgentType
    <3> QED
      BY <1>3, <2>1, <2>3, <3>1, LogType DEF Grant, Security
  <2> QED
    BY <1>8, <2>2, <2>3
<1>9. ASSUME NEW t \in Ids, NEW how \in {"running", "completed", "failed", "cancelled"},
             (StartTask(t) /\ how = "running") \/ EndTask(t, how)
      PROVE  TypeInv'
  <2>1. how \in EventOf(t) /\ how \in Status
    BY <1>2, <1>3 DEF EventOf, Status
  <2>2. Log(t, how) /\ tasks' = [tasks EXCEPT ![t].status = how]
    BY <1>9 DEF StartTask, EndTask
  <2>3. tasks' \in Seq(TaskType) /\ Len(tasks') = Len(tasks)
    BY <1>2, <2>1, <2>2, TableType DEF TaskType, Ids
  <2>4. agents' \in [Agents -> AgentType]
    <3>1. CASE StartTask(t)
      BY <3>1 DEF StartTask
    <3>2. CASE EndTask(t, how)
      BY ZenonT(40), <1>2, <3>2 DEF EndTask, TaskType, AgentType
    <3> QED
      BY <1>9, <3>1, <3>2
  <2> QED
    BY <1>2, <1>9, <2>1, <2>2, <2>3, <2>4, LogType DEF StartTask, EndTask
<1>10. CASE DeleteWorkspace
  <2>1. tasks' \in Seq(TaskType) /\ Len(tasks') = Len(tasks)
    BY <1>2, <1>10, TableType DEF DeleteWorkspace, Removed, TaskType, Status
  <2>2. \A e \in Entities : events'[e] = << >>
    BY <1>10 DEF DeleteWorkspace, NoEvents
  <2>3. \A t \in 1..MaxTasks : events'[t] \in Seq(Status)
    BY <2>2, EmptySeq DEF Entities
  <2>4. \A a \in Agents : events'[a] \in Seq(Audit)
    BY <2>2, EmptySeq DEF Entities
  <2>5. agents' \in [Agents -> AgentType]
    BY <1>10 DEF DeleteWorkspace, AgentType
  <2> QED
    BY <1>10, <2>1, <2>3, <2>4, <2>5 DEF DeleteWorkspace, NoEvents
<1>11. CASE RuntimeDies \/ Launch \/ ClaimPipe \/ OpenerDies
  <2>1. opener' \in OpenerType /\ UNCHANGED <<database, cutOff>> /\ serving' \in BOOLEAN
    <3>1. CASE RuntimeDies
      BY <3>1 DEF RuntimeDies
    <3>2. CASE Launch
      BY <1>2, <3>2 DEF Launch, Unfinished, OpenerType
    <3>3. CASE ClaimPipe \/ OpenerDies
      <4>1. NoOpener \in OpenerType
        BY DEF NoOpener, OpenerType
      <4> QED
        BY <3>3, <4>1 DEF ClaimPipe, OpenerDies
    <3> QED
      BY <1>11, <3>1, <3>2, <3>3
  <2> QED
    BY <2>1 DEF database
<1>12. CASE InterruptTasks
  <2>1. tasks' \in Seq(TaskType) /\ Len(tasks') = Len(tasks)
    BY <1>2, <1>12, TableType DEF InterruptTasks, Interrupted, TaskType, Status
  <2>2. opener' \in OpenerType
    BY <1>12 DEF InterruptTasks, OpenerType
  <2>3. cutOff' \subseteq 1..MaxTasks
    BY <1>2, <1>12 DEF InterruptTasks, Interrupted, Unfinished
  <2> QED
    BY <1>12, <2>1, <2>2, <2>3 DEF InterruptTasks
<1>13. CASE RestAgents
  <2>1. opener' \in OpenerType /\ agents' \in [Agents -> AgentType]
    BY <1>13 DEF RestAgents, Rested, OpenerType, AgentType
  <2> QED
    BY <1>13, <2>1 DEF RestAgents
<1>14. CASE RecordInterrupted
  <2> DEFINE t == Min(opener.pending)
  <2>1. t \in opener.pending /\ t \in 1..MaxTasks
    BY <1>14, MinIsThere DEF RecordInterrupted, OpenerType
  <2>2. t \in Entities /\ "interrupted" \in EventOf(t)
    BY <1>3, <2>1 DEF EventOf, Entities, Status
  <2>3. opener' \in OpenerType
    BY <1>14 DEF RecordInterrupted, OpenerType, NoOpener
  <2>4. CASE workspace
    BY <1>14, <2>2, <2>3, <2>4, LogType DEF RecordInterrupted
  <2>5. CASE ~workspace
    BY <1>14, <2>3, <2>5 DEF RecordInterrupted
  <2> QED
    BY <2>4, <2>5
<1> QED
  BY <1>4, <1>5, <1>6, <1>7, <1>8, <1>9, <1>10, <1>11, <1>12, <1>13, <1>14 DEF Next, Open

---------------------------------------------------------------------------
(* Requests, and the isshd that opens the store.                            *)

\* An event is the last one of its entity and leaves the other logs alone.
LEMMA LogEffect ==
    ASSUME TypeInv, NEW id \in Entities, NEW event, Log(id, event)
    PROVE  /\ \A e \in Entities : e # id => events'[e] = events[e]
           /\ id \in 1..MaxTasks /\ event \in Status =>
                 events'[id] # << >> /\ events'[id][Len(events'[id])] = event
<1>1. DOMAIN events = Entities /\ events' = [events EXCEPT ![id] = Append(@, event)]
  BY DEF TypeInv, Log
<1>2. ASSUME id \in 1..MaxTasks, event \in Status
      PROVE  events'[id] # << >> /\ events'[id][Len(events'[id])] = event
  <2>1. events'[id] = Append(events[id], event) /\ events[id] \in Seq(Status)
    BY <1>1, <1>2 DEF TypeInv
  <2> QED
    BY <1>2, <2>1, AppendProperties
<1> QED
  BY <1>1, <1>2

Request ==
    \/ \E a \in Agents : RegisterAgent(a) \/ UnregisterAgent(a) \/ CreateTask(a)
    \/ \E a \in Agents, scope \in Scopes : Authorize(a, scope) \/ Grant(a, scope)
    \/ \E t \in Ids : StartTask(t) \/ \E how \in {"completed", "failed", "cancelled"} : EndTask(t, how)
    \/ DeleteWorkspace

\* What a request leaves of the tasks there are: none becomes unfinished again, and only
\* the end of the Workspace takes an event.
Keeps ==
    /\ Ids \subseteq Ids' /\ \A t \in Unfinished' : t \in Ids => t \in Unfinished
    /\ workspace' => workspace /\ \A t \in Ids : events'[t] = events[t] \/ Untold(t)'

\* Requests keep the agents that are busy at work, and the logs of unfinished tasks.
LEMMA RequestStep ==
    ASSUME IInv, Request
    PROVE  AllAtWork' /\ UnfinishedIsUntold' /\ Keeps
<1> USE DEF IInv
<1>1. /\ tasks \in Seq(TaskType) /\ Len(tasks) \in Nat /\ Ids = 1..Len(tasks)
      /\ Len(tasks) <= MaxTasks /\ MaxTasks \in Nat
      /\ \A t \in Ids : t \in Entities /\ t \in 1..MaxTasks /\ t \notin Agents
  BY BoundAssumption DEF TypeInv, Ids, Entities
<1>2. Agents \subseteq Entities /\ cutOff \subseteq Ids /\ Unfinished \subseteq Ids
  BY DEF Entities, Unfinished, OpenerIsSound
<1>0. serving /\ AllAtWork /\ cutOff' = cutOff
  BY DEF Request, RegisterAgent, UnregisterAgent, CreateTask, Authorize, Grant, StartTask, EndTask,
         DeleteWorkspace, AtWork
<1>3. ASSUME NEW a \in Agents, RegisterAgent(a) PROVE AllAtWork' /\ UnfinishedIsUntold' /\ Keeps
  <2>1. PICK scopes \in SUBSET Scopes :
           /\ agents' = [agents EXCEPT ![a] =
                             [state |-> "registered", status |-> "idle", scopes |-> scopes]]
           /\ Log(a, Entry("registered", scopes)) /\ UNCHANGED <<serving, workspace, tasks>>
    BY <1>3 DEF RegisterAgent
  <2>2. \A t \in Ids : events'[t] = events[t]
    BY <1>1, <1>2, <2>1, LogEffect
  <2>3. \A b \in Agents : agents'[b].status = "busy" => agents[b].status = "busy"
    BY <2>1 DEF TypeInv
  <2> QED
    BY <1>0, <2>1, <2>2, <2>3
    DEF AllAtWork, HasWork, UnfinishedIsUntold, Untold, Unfinished, Ids, Keeps
<1>4. ASSUME NEW a \in Agents, UnregisterAgent(a) PROVE AllAtWork' /\ UnfinishedIsUntold' /\ Keeps
  <2>1. \A t \in Ids : events'[t] = events[t]
    BY <1>1, <1>2, <1>4, LogEffect DEF UnregisterAgent
  <2>2. Ids' = Ids /\ \A t \in Ids : /\ tasks'[t].agent = tasks[t].agent
                                     /\ t \in Unfinished' <=> t \in Unfinished /\ tasks[t].agent # a
    BY <1>1, <1>4 DEF UnregisterAgent, Removed, Unfinished, Ids, TaskType
  <2>3. \A b \in Agents : agents'[b].status = "busy" => b # a /\ agents[b].status = "busy"
    BY <1>4 DEF UnregisterAgent, TypeInv
  <2>4. Unfinished' \subseteq Unfinished
    BY <1>2, <2>2 DEF Unfinished
  <2>5. AllAtWork'
    <3> SUFFICES ASSUME NEW b \in Agents, agents'[b].status = "busy"
                 PROVE  \E t \in Unfinished' \cup cutOff' : tasks'[t].agent = b
      BY DEF AllAtWork, HasWork
    <3>1. b # a /\ agents[b].status = "busy"
      BY <2>3
    <3>2. PICK t \in Unfinished \cup cutOff : tasks[t].agent = b
      BY <1>0, <3>1 DEF AllAtWork, HasWork
    <3> QED
      BY <1>0, <1>2, <2>2, <3>1, <3>2
  <2>6. UnfinishedIsUntold'
    BY <1>2, <2>1, <2>4 DEF UnfinishedIsUntold, Untold
  <2>7. Keeps
    BY <1>4, <2>1, <2>2, <2>4 DEF Keeps, UnregisterAgent
  <2> QED
    BY <2>5, <2>6, <2>7
<1>5. ASSUME NEW a \in Agents, CreateTask(a) PROVE AllAtWork' /\ UnfinishedIsUntold' /\ Keeps
  <2> DEFINE new == Len(tasks) + 1
  <2>1. /\ Ids' = 1..new /\ tasks'[new] = [agent |-> a, status |-> "queued"]
        /\ \A t \in Ids : tasks'[t] = tasks[t]
    BY <1>1, <1>5 DEF CreateTask, Ids
  <2>2. Unfinished' = Unfinished \cup {new}
    BY <1>1, <2>1 DEF Unfinished
  <2>3. new \in 1..MaxTasks /\ new \in Entities /\ new \notin Ids
    BY <1>1, <1>5 DEF CreateTask, Entities
  <2>4. /\ events'[new] # << >> /\ events'[new][Len(events'[new])] # "interrupted"
        /\ \A t \in Ids : events'[t] = events[t]
    BY <1>1, <1>5, <2>3, LogEffect DEF CreateTask, Status
  <2>5. \A b \in Agents : agents'[b].status = "busy" => b = a \/ agents[b].status = "busy"
    BY <1>5 DEF CreateTask, TypeInv
  <2>6. AllAtWork'
    <3> SUFFICES ASSUME NEW b \in Agents, agents'[b].status = "busy"
                 PROVE  \E t \in Unfinished' \cup cutOff' : tasks'[t].agent = b
      BY DEF AllAtWork, HasWork
    <3>1. CASE b = a
      BY <2>1, <2>2, <3>1
    <3>2. CASE agents[b].status = "busy"
      <4>1. PICK t \in Unfinished \cup cutOff : tasks[t].agent = b
        BY <1>0, <3>2 DEF AllAtWork, HasWork
      <4> QED
        BY <1>0, <1>2, <2>1, <2>2, <4>1
    <3> QED
      BY <2>5, <3>1, <3>2
  <2>7. UnfinishedIsUntold'
    BY <1>2, <2>2, <2>4 DEF UnfinishedIsUntold, Untold
  <2>8. Keeps
    BY <1>1, <1>5, <2>1, <2>2, <2>3, <2>4 DEF Keeps, CreateTask
  <2> QED
    BY <2>6, <2>7, <2>8
<1>6. ASSUME NEW a \in Agents, NEW scope \in Scopes, Authorize(a, scope) \/ Grant(a, scope)
      PROVE  AllAtWork' /\ UnfinishedIsUntold' /\ Keeps
  <2>1. PICK event : Log(a, event) /\ UNCHANGED <<workspace, tasks>>
    BY <1>6 DEF Authorize, Grant
  <2>2. \A t \in Ids : events'[t] = events[t]
    BY <1>1, <1>2, <2>1, LogEffect
  <2>3. \A b \in Agents : agents'[b].status = agents[b].status
    BY <1>6 DEF Authorize, Grant, TypeInv, AgentType
  <2> QED
    BY <1>0, <2>1, <2>2, <2>3
    DEF AllAtWork, HasWork, UnfinishedIsUntold, Untold, Unfinished, Ids, Keeps
<1>7. ASSUME NEW t \in Ids, StartTask(t) PROVE AllAtWork' /\ UnfinishedIsUntold' /\ Keeps
  <2>1. /\ Ids' = Ids /\ Unfinished' = Unfinished
        /\ \A u \in Ids : tasks'[u].agent = tasks[u].agent
    BY <1>1, <1>7 DEF StartTask, Unfinished, Ids, TaskType
  <2>2. Untold(t)' /\ \A u \in Ids : u # t => events'[u] = events[u]
    BY <1>1, <1>7, LogEffect DEF StartTask, Untold, Status
  <2>3. AllAtWork'
    BY <1>0, <1>2, <1>7, <2>1 DEF StartTask, AllAtWork, HasWork
  <2> QED
    BY <1>2, <1>7, <2>1, <2>2, <2>3 DEF StartTask, UnfinishedIsUntold, Untold, Keeps
<1>8. ASSUME NEW t \in Ids, NEW how \in {"completed", "failed", "cancelled"}, EndTask(t, how)
      PROVE  AllAtWork' /\ UnfinishedIsUntold' /\ Keeps
  <2>1. /\ Ids' = Ids /\ Unfinished' = Unfinished \ {t}
        /\ \A u \in Ids : tasks'[u].agent = tasks[u].agent
    BY <1>1, <1>8 DEF EndTask, Unfinished, Ids, TaskType
  <2>2. Untold(t)' /\ \A u \in Ids : u # t => events'[u] = events[u]
    BY <1>1, <1>8, LogEffect DEF EndTask, Untold, Status
  <2>3. \A b \in Agents : agents'[b].status = "busy" =>
           b # tasks[t].agent /\ agents[b].status = "busy"
    BY <1>1, <1>8 DEF EndTask, TypeInv, TaskType
  <2>4. AllAtWork'
    <3> SUFFICES ASSUME NEW b \in Agents, agents'[b].status = "busy"
                 PROVE  \E u \in Unfinished' \cup cutOff' : tasks'[u].agent = b
      BY DEF AllAtWork, HasWork
    <3>1. PICK u \in Unfinished \cup cutOff : tasks[u].agent = b
      BY <1>0, <2>3 DEF AllAtWork, HasWork
    <3> QED
      BY <1>0, <1>2, <2>1, <2>3, <3>1
  <2> QED
    BY <1>2, <1>8, <2>1, <2>2, <2>4 DEF EndTask, UnfinishedIsUntold, Untold, Keeps
<1>9. CASE DeleteWorkspace
  <2>1. Ids' = Ids /\ Unfinished' = {} /\ ~workspace' /\ \A b \in Agents : agents'[b].status = "idle"
    BY <1>1, <1>9 DEF DeleteWorkspace, Unfinished, Removed, Ids, TaskType
  <2> QED
    BY <2>1 DEF AllAtWork, UnfinishedIsUntold, Keeps
<1> QED
  BY <1>3, <1>4, <1>5, <1>6, <1>7, <1>8, <1>9 DEF Request

\* A request does not look at the opening, and leaves it what it is about to record.
LEMMA RequestInv == ASSUME IInv, Request PROVE (AtWork /\ UnfinishedIsUntold /\ OpenerIsSound)'
<1>1. serving /\ UNCHANGED <<serving, opener, cutOff>>
  BY DEF Request, RegisterAgent, UnregisterAgent, CreateTask, Authorize, Grant, StartTask, EndTask,
         DeleteWorkspace
<1>2. AllAtWork' /\ UnfinishedIsUntold' /\ Keeps
  BY RequestStep
<1>3. OpenerIsSound'
  BY <1>1, <1>2 DEF IInv, OpenerIsSound, Keeps, Untold
<1> QED
  BY <1>2, <1>3 DEF AtWork

\* Without requests, isshd ends, or one opens the store while none or another serves.
LEMMA OpeningStep ==
    ASSUME IInv, RuntimeDies \/ Launch \/ Open \/ OpenerDies
    PROVE  (AtWork /\ UnfinishedIsUntold /\ OpenerIsSound)'
<1> USE DEF IInv
<1>1. /\ tasks \in Seq(TaskType) /\ Len(tasks) \in Nat /\ Ids = 1..Len(tasks)
      /\ Len(tasks) <= MaxTasks /\ MaxTasks \in Nat
      /\ \A t \in Ids : t \in Entities /\ t \in 1..MaxTasks
      /\ opener \in OpenerType /\ Unfinished \subseteq Ids /\ cutOff \subseteq Ids
  BY BoundAssumption DEF TypeInv, Ids, Entities, Unfinished, OpenerIsSound
<1>2. NoOpener.stage = "none" /\ NoOpener.pending = {}
  BY DEF NoOpener
<1>3. CASE RuntimeDies
  BY <1>2, <1>3
  DEF RuntimeDies, database, AtWork, AllAtWork, HasWork, UnfinishedIsUntold, OpenerIsSound, Untold, Unfinished, Ids
<1>4. CASE Launch
  <2>1. /\ UNCHANGED <<serving, database, cutOff>> /\ opener'.pending = Unfinished
        /\ opener.stage = "none" /\ opener'.stage = "read"
    BY <1>2, <1>4 DEF Launch
  <2>2. Unfinished' = Unfinished /\ Ids' = Ids
    BY <2>1 DEF Unfinished, Ids, database
  <2>3. AtWork' /\ UnfinishedIsUntold'
    BY <2>1, <2>2 DEF database, AtWork, AllAtWork, HasWork, UnfinishedIsUntold, Untold
  <2>4. OpenerIsSound'
    BY <1>1, <2>1, <2>2 DEF database, UnfinishedIsUntold, OpenerIsSound, Untold
  <2> QED
    BY <2>3, <2>4
<1>5. CASE OpenerDies \/ ClaimPipe
  <2>1. /\ UNCHANGED <<database, cutOff>> /\ opener' = NoOpener
        /\ serving' => serving \/ opener.stage = "recording"
    BY <1>5 DEF OpenerDies, ClaimPipe
  <2> QED
    BY <1>2, <2>1
    DEF database, AtWork, AllAtWork, HasWork, UnfinishedIsUntold, OpenerIsSound, Untold, Unfinished, Ids
<1>6. CASE InterruptTasks
  <2>1. /\ UNCHANGED <<serving, workspace, agents, events>> /\ opener'.pending = opener.pending
        /\ opener'.stage = "interrupted" /\ cutOff' \subseteq Ids
        /\ serving => cutOff' = cutOff \cup Unfinished
    BY <1>1, <1>6 DEF InterruptTasks, OpenerType, Interrupted
  <2>2. Ids' = Ids /\ Unfinished' = {} /\ \A t \in Ids : tasks'[t].agent = tasks[t].agent
    BY <1>1, <1>6 DEF InterruptTasks, Interrupted, Unfinished, Ids, TaskType
  <2>3. AtWork'
    <3> SUFFICES ASSUME serving, NEW a \in Agents, agents[a].status = "busy"
                 PROVE  \E t \in cutOff' : tasks'[t].agent = a
      BY <2>1, <2>2 DEF AtWork, AllAtWork, HasWork
    <3>1. PICK t \in Unfinished \cup cutOff : tasks[t].agent = a
      BY DEF AtWork, AllAtWork, HasWork
    <3> QED
      BY <1>1, <2>1, <2>2, <3>1
  <2>4. OpenerIsSound'
    BY <2>1, <2>2 DEF OpenerIsSound, Untold
  <2> QED
    BY <2>2, <2>3, <2>4 DEF UnfinishedIsUntold
<1>7. CASE RestAgents
  <2>1. /\ UNCHANGED <<serving, workspace, tasks, events>> /\ opener.stage = "interrupted"
        /\ opener'.stage = "recording" /\ opener'.pending = opener.pending /\ cutOff' = {}
    BY <1>1, <1>7 DEF RestAgents, OpenerType
  <2>2. \A a \in Agents : agents'[a].status = "idle"
    BY <1>7 DEF RestAgents, Rested, TypeInv, AgentType
  <2> QED
    BY <2>1, <2>2
    DEF AtWork, AllAtWork, UnfinishedIsUntold, OpenerIsSound, Untold, Unfinished, Ids
<1>8. CASE RecordInterrupted
  <2> DEFINE done == Min(opener.pending)
  <2>1. done \in opener.pending /\ opener.pending \subseteq 1..MaxTasks
    BY <1>1, <1>8, MinIsThere DEF RecordInterrupted, OpenerType
  <2>2. done \in Ids /\ done \notin Unfinished
    BY <1>8, <2>1 DEF RecordInterrupted, OpenerIsSound
  <2>3. UNCHANGED <<serving, workspace, agents, tasks, cutOff>> /\ Unfinished' = Unfinished /\ Ids' = Ids
    BY <1>8 DEF RecordInterrupted, Unfinished, Ids
  <2>4. \A t \in Ids : t # done => events'[t] = events[t]
    BY <1>1, <1>8, <2>2, LogEffect DEF RecordInterrupted
  <2>5. \/ opener' = NoOpener
        \/ opener'.stage = "recording" /\ opener'.pending = opener.pending \ {done}
    BY <1>1, <1>8 DEF RecordInterrupted, OpenerType
  <2>6. UnfinishedIsUntold'
    BY <1>1, <2>2, <2>3, <2>4 DEF UnfinishedIsUntold, Untold
  <2>7. OpenerIsSound'
    BY <1>2, <1>8, <2>3, <2>4, <2>5 DEF RecordInterrupted, OpenerIsSound, Untold
  <2>8. AtWork'
    BY <1>8, <2>3 DEF RecordInterrupted, AtWork, AllAtWork, HasWork
  <2> QED
    BY <2>6, <2>7, <2>8
<1> QED
  BY <1>3, <1>4, <1>5, <1>6, <1>7, <1>8 DEF Open

\* The invariant holds at the beginning, is kept by every step, and so always holds.
LEMMA InitInv == Init => IInv
<1> SUFFICES ASSUME Init PROVE IInv
  OBVIOUS
<1>1. Ids = {} /\ Len(tasks) = 0 /\ tasks \in Seq(TaskType) /\ Unfinished = {} /\ cutOff = {}
  BY EmptySeq DEF Init, Ids, Unfinished
<1>2. \A e \in Entities : events[e] = << >>
  BY DEF Init, NoEvents
<1>3. opener = NoOpener /\ opener \in OpenerType /\ opener.stage = "none" /\ opener.pending = {}
  BY DEF Init, NoOpener, OpenerType
<1>4. agents \in [Agents -> AgentType] /\ \A a \in Agents : agents[a].status = "idle"
  BY DEF Init, AgentType
<1>5. (\A t \in 1..MaxTasks : events[t] \in Seq(Status)) /\ \A a \in Agents : events[a] \in Seq(Audit)
  BY <1>2, EmptySeq DEF Entities
<1>6. TypeInv
  BY <1>1, <1>3, <1>4, <1>5, BoundAssumption DEF Init, NoEvents, TypeInv
<1> QED
  BY <1>1, <1>3, <1>4, <1>6 DEF IInv, AtWork, AllAtWork, UnfinishedIsUntold, OpenerIsSound

LEMMA NextInv == IInv /\ [Next]_vars => IInv'
<1> SUFFICES ASSUME IInv, [Next]_vars PROVE IInv'
  OBVIOUS
<1>1. TypeInv'
  BY TypeStep DEF IInv
<1>2. CASE UNCHANGED vars
  BY <1>1, <1>2
  DEF vars, database, IInv, AtWork, AllAtWork, HasWork, UnfinishedIsUntold, OpenerIsSound, Untold, Unfinished, Ids
<1>3. CASE RuntimeDies \/ Launch \/ Open \/ OpenerDies
  BY <1>1, <1>3, OpeningStep DEF IInv
<1>4. CASE Request
  BY <1>1, <1>4, RequestInv DEF IInv
<1> QED
  BY <1>2, <1>3, <1>4 DEF Next, Request

LEMMA Invariance == Spec => []IInv
  BY InitInv, NextInv, PTL DEF Spec

---------------------------------------------------------------------------
(* TaskLife.                                                                *)

\* The alternatives of TaskLife.
LEMMA LifeOfOne ==
    ASSUME NEW t \in 1..MaxTasks,
           \/ Life!Begins(t) \/ Life!Record(t)
           \/ \E end \in {"completed", "failed", "cancelled"} : Life!Ends(t, end)
    PROVE  Life!Next
  BY Zenon DEF Life!Next

\* Interrupting or removing several tasks at once is one step of TaskLife.
LEMMA LifeOfSome ==
    ASSUME NEW some \in SUBSET (1..MaxTasks), Life!Interrupt(some) \/ Life!Remove(some)
    PROVE  Life!Next
  BY Zenon DEF Life!Next

\* What a step does to the table and the logs is what TaskLife allows: it stutters, one
\* task becomes something and its log says so, several stop or are removed, a stopped or
\* disputed one is recorded, or a runtime comes or goes.
LEMMA LifeStep ==
    ASSUME IInv, [Next]_vars
    PROVE  [Life!Next]_(Life!vars)
<1> USE DEF IInv
<1> DEFINE T == 1..MaxTasks
           status == [t \in T |-> IF t \in Ids THEN tasks[t].status ELSE "none"]
           story  == [t \in T |-> events[t]]
           open   == {"queued", "running", "interrupted"}
           twofold  == serving /\ opener.stage # "none"
           disputed == {t \in opener.pending : tasks[t].status \notin open}
<1>1. /\ tasks \in Seq(TaskType) /\ Len(tasks) \in Nat /\ Ids = 1..Len(tasks) /\ Ids \subseteq T
      /\ T \subseteq Entities /\ Agents \subseteq Entities /\ \A a \in Agents : a \notin T
      /\ Len(tasks) <= MaxTasks /\ MaxTasks \in Nat /\ opener.pending \subseteq Ids
      /\ opener.stage = "none" => opener.pending = {}
  BY BoundAssumption DEF TypeInv, Ids, Entities, OpenerIsSound
<1>2. Life!vars = <<status, story, twofold, disputed>>
      /\ Life!vars' = <<status', story', twofold', disputed'>>
  BY DEF Life!vars
<1>3. \A t \in Ids : status[t] = tasks[t].status /\ tasks[t].status \in Status
  <2>1. \A t \in Ids : tasks[t] \in TaskType /\ t \in T
    BY <1>1
  <2> QED
    BY <2>1 DEF TaskType
<1>4. \A t \in Ids : status[t] # "none"
  BY <1>3 DEF Status
<1>5. ASSUME UNCHANGED tasks, \A t \in T : events'[t] = events[t] PROVE UNCHANGED <<status, story>>
  BY <1>5 DEF Ids
<1>6. ASSUME UNCHANGED <<serving, opener, tasks>>, \A t \in T : events'[t] = events[t]
      PROVE  UNCHANGED Life!vars
  BY <1>2, <1>5, <1>6
<1>7. CASE UNCHANGED vars
  BY <1>6, <1>7 DEF vars, database
<1>8. ASSUME NEW a \in Agents, RegisterAgent(a) PROVE UNCHANGED Life!vars
  BY <1>1, <1>6, <1>8, LogEffect DEF RegisterAgent
<1>9. ASSUME NEW a \in Agents, NEW scope \in Scopes, Authorize(a, scope) \/ Grant(a, scope)
      PROVE  UNCHANGED Life!vars
  BY <1>1, <1>6, <1>9, LogEffect DEF Authorize, Grant
<1>10. CASE RuntimeDies \/ Launch \/ OpenerDies \/ ClaimPipe
  <2>1. UNCHANGED <<tasks, events>> /\ (opener' = opener \/ opener' = NoOpener \/ Launch)
    BY <1>10 DEF RuntimeDies, Launch, OpenerDies, ClaimPipe, database
  <2>2. opener'.pending = opener.pending \/ disputed' = {}
    <3>1. ASSUME Launch PROVE disputed' = {}
      BY <2>1, <3>1 DEF Launch, Unfinished
    <3> QED
      BY <2>1, <3>1 DEF NoOpener
  <2>3. twofold' \in BOOLEAN /\ disputed' \in {disputed, {}}
    BY <2>1, <2>2
  <2> QED
    BY <1>5, <2>1, <2>3 DEF Life!Next, Life!RuntimesChange
<1>11. CASE RestAgents
  <2>1. /\ UNCHANGED <<serving, tasks, events>> /\ opener'.pending = opener.pending
        /\ opener.stage # "none" /\ opener'.stage # "none"
    BY <1>11 DEF RestAgents, TypeInv, OpenerType
  <2> QED
    BY <1>2, <1>5, <2>1
<1>12. ASSUME NEW gone \in SUBSET Ids, serving, UNCHANGED <<serving, opener>>,
              \A t \in Ids \ gone : tasks'[t].status = tasks[t].status,
              \A t \in gone : tasks'[t].status \notin open
       PROVE  Life!Dispute(gone)
  <2>1. disputed' = disputed \cup (opener.pending \cap gone)
    BY <1>1, <1>12
  <2>2. ~twofold => opener.pending = {}
    BY <1>1, <1>12
  <2>3. twofold' = twofold
    BY <1>12
  <2> QED
    BY <2>1, <2>2, <2>3 DEF Life!Dispute
<1>13. ASSUME NEW t \in T, NEW event \in Status, Log(t, event),
              status' = [status EXCEPT ![t] = event]
       PROVE  \A from : status[t] \in from => Life!Goes(t, from, event)
  <2>1. story' = [story EXCEPT ![t] = Append(@, event)]
    BY <1>1, <1>13 DEF Log, TypeInv
  <2> QED
    BY <1>13, <2>1 DEF Life!Goes
<1>14. ASSUME NEW a \in Agents, UnregisterAgent(a) PROVE Life!Next
  <2> PICK gone \in SUBSET Ids : gone = {t \in Ids : tasks[t].agent = a}
    OBVIOUS
  <2>1. status' = [t \in T |-> IF t \in gone THEN "removed" ELSE status[t]]
    BY <1>1, <1>14 DEF UnregisterAgent, Removed, Ids, TaskType
  <2>2. story' = story
    BY <1>1, <1>14, LogEffect DEF UnregisterAgent
  <2>3. \A t \in gone : status[t] # "none"
    BY <1>4
  <2>4. /\ \A t \in Ids \ gone : tasks'[t].status = tasks[t].status
        /\ \A t \in gone : tasks'[t].status = "removed"
    BY <1>1, <1>14 DEF UnregisterAgent, Removed, TaskType
  <2>5. Life!Dispute(gone)
    BY <1>12, <1>14, <2>4 DEF UnregisterAgent
  <2>6. gone \in SUBSET T /\ Life!Remove(gone)
    BY <1>1, <2>1, <2>2, <2>3, <2>5 DEF Life!Remove
  <2> QED
    BY <2>6, LifeOfSome, Zenon
<1>15. CASE DeleteWorkspace
  <2> PICK gone \in SUBSET Ids : gone = Ids
    OBVIOUS
  <2>1. Ids' = Ids /\ \A t \in Ids : tasks'[t].status = "removed"
    <3>1. Ids' = Ids /\ \A t \in Ids : tasks'[t] = [tasks[t] EXCEPT !.status = "removed"]
      BY <1>15 DEF DeleteWorkspace, Removed, Ids
    <3>2. \A t \in Ids : tasks[t] \in TaskType
      BY <1>1
    <3> QED
      BY <3>1, <3>2 DEF TaskType
  <2>2. status' = [t \in T |-> IF t \in Ids THEN "removed" ELSE status[t]]
    BY <2>1
  <2>3. story' = [t \in T |-> << >>]
    BY <1>1, <1>15 DEF DeleteWorkspace, NoEvents
  <2>4. Life!Dispute(gone)
    BY <1>12, <1>15, <2>1 DEF DeleteWorkspace
  <2>5. gone \in SUBSET T /\ Life!Remove(gone)
    BY <1>1, <1>4, <2>2, <2>3, <2>4 DEF Life!Remove
  <2> QED
    BY <2>5, LifeOfSome, Zenon
<1>16. ASSUME NEW a \in Agents, CreateTask(a) PROVE Life!Next
  <2> DEFINE new == Len(tasks) + 1
  <2>1. new \in T /\ new \notin Ids /\ status[new] = "none" /\ Log(new, "queued")
    BY <1>1, <1>16 DEF CreateTask
  <2>2. /\ Ids' = 1..new /\ tasks'[new].status = "queued"
        /\ \A t \in Ids : tasks'[t] = tasks[t]
    BY <1>1, <1>16 DEF CreateTask, Ids
  <2>3. status' = [status EXCEPT ![new] = "queued"]
    <3>1. \A t \in T : status'[t] = IF t = new THEN "queued" ELSE status[t]
      BY <1>1, <2>1, <2>2
    <3> QED
      BY <2>1, <3>1
  <2>4. Life!Goes(new, {"none"}, "queued")
    BY <1>13, <2>1, <2>3 DEF Status
  <2>5. UNCHANGED <<twofold, disputed>>
    BY <1>1, <1>16, <2>2 DEF CreateTask
  <2> QED
    BY <2>1, <2>4, <2>5, LifeOfOne DEF Life!Begins
<1>17. ASSUME NEW t \in Ids, StartTask(t) PROVE Life!Next
  <2>1. status' = [status EXCEPT ![t] = "running"] /\ status[t] = "queued" /\ t \in T
    <3>1. /\ Ids' = Ids /\ t \in T /\ status[t] = "queued"
          /\ \A u \in Ids : tasks'[u].status = IF u = t THEN "running" ELSE tasks[u].status
      BY <1>1, <1>3, <1>17 DEF StartTask, Ids, TaskType
    <3> QED
      BY <3>1
  <2>2. Life!Goes(t, {"queued"}, "running")
    BY <1>13, <1>17, <2>1 DEF StartTask, Status
  <2>3. UNCHANGED <<twofold, disputed>>
    <3>1. \A u \in Ids : tasks'[u].status \in open <=> tasks[u].status \in open
      BY <1>1, <1>17 DEF StartTask, TaskType
    <3> QED
      BY <1>1, <1>17, <3>1 DEF StartTask
  <2> QED
    BY <2>1, <2>2, <2>3, LifeOfOne DEF Life!Begins
<1>18. ASSUME NEW t \in Ids, NEW how \in {"completed", "failed", "cancelled"}, EndTask(t, how)
       PROVE  Life!Next
  <2>1. t \in T /\ status[t] = tasks[t].status /\ tasks[t].status \in {"queued", "running"}
    BY <1>1, <1>18, <1>3 DEF EndTask, MayEnd
  <2>2. Ids' = Ids /\ \A u \in Ids : tasks'[u].status = IF u = t THEN how ELSE tasks[u].status
    BY <1>1, <1>18 DEF EndTask, Ids, TaskType
  <2>3. status' = [status EXCEPT ![t] = how]
    BY <2>1, <2>2
  <2>4. Life!Goes(t, {"queued", "running"}, how)
    BY ZenonT(40), <1>13, <1>18, <2>1, <2>3 DEF EndTask, Status
  <2>5. Life!Dispute({t})
    <3>1. serving /\ UNCHANGED <<serving, opener>>
      BY <1>18 DEF EndTask
    <3>2. {t} \in SUBSET Ids /\ how \notin open
      BY <1>18
    <3> QED
      BY <1>12, <2>2, <3>1, <3>2
  <2> QED
    BY <2>1, <2>4, <2>5, LifeOfOne DEF Life!Ends
<1>19. CASE InterruptTasks
  <2> PICK some \in SUBSET Ids : some = Unfinished
    BY DEF Unfinished
  <2>1. status' = [t \in T |-> IF t \in some THEN "interrupted" ELSE status[t]]
    BY <1>1, <1>19 DEF InterruptTasks, Interrupted, Unfinished, Ids, TaskType
  <2>2. some = Life!Unfinished /\ some \in SUBSET T
    BY <1>1 DEF Unfinished, Life!Unfinished
  <2>3. UNCHANGED <<twofold, disputed>>
    <3>1. \A u \in Ids : tasks'[u].status \in open <=> tasks[u].status \in open
      BY <1>1, <1>19 DEF InterruptTasks, Interrupted, Unfinished, TaskType
    <3>2. serving' = serving /\ opener'.pending = opener.pending /\ opener'.stage # "none"
      BY <1>19 DEF InterruptTasks, TypeInv, OpenerType
    <3> QED
      BY <1>1, <1>19, <3>1, <3>2 DEF InterruptTasks
  <2>4. Life!Interrupt(some)
    BY <1>19, <2>1, <2>2, <2>3 DEF InterruptTasks, Life!Interrupt
  <2> QED
    BY <2>2, <2>4, LifeOfSome, Zenon
<1>20. CASE RecordInterrupted
  <2>1. PICK done \in opener.pending : done = Min(opener.pending)
    BY <1>20, MinIsThere DEF RecordInterrupted, TypeInv, OpenerType
  <2>2. done \in Ids /\ done \notin Unfinished /\ (workspace => Untold(done))
    BY <1>1, <1>20, <2>1 DEF RecordInterrupted, OpenerIsSound
  <2>3. CASE ~workspace
    <3>1. UNCHANGED <<tasks, events>> /\ opener' = NoOpener
      BY <1>20, <2>3 DEF RecordInterrupted
    <3>2. disputed' = {} /\ twofold' \in BOOLEAN
      BY <1>20, <3>1 DEF NoOpener, RecordInterrupted, TypeInv
    <3> QED
      BY <1>5, <3>1, <3>2 DEF Life!Next, Life!RuntimesChange
  <2>4. CASE workspace
    <3>1. story' = [story EXCEPT ![done] = Append(@, "interrupted")]
      BY <1>1, <1>20, <2>1, <2>2, <2>4 DEF RecordInterrupted, Log, TypeInv
    <3>2. status[done] = "interrupted" \/ done \in disputed
      BY <1>3, <2>1, <2>2 DEF Unfinished
    <3>3. /\ serving' = serving /\ tasks' = tasks /\ opener.stage # "none" /\ opener'.stage # "none"
          /\ opener'.pending = opener.pending \ {done}
      BY <1>20, <2>1, <2>4 DEF RecordInterrupted, TypeInv, OpenerType
    <3>4. disputed' = disputed \ {done} /\ twofold' = twofold /\ status' = status
      BY <3>3 DEF Ids
    <3>5. Life!Record(done)
      BY <1>1, <2>2, <2>4, <3>1, <3>2, <3>4 DEF Untold, Life!Record
    <3> QED
      BY <1>1, <2>2, <3>5, LifeOfOne
  <2> QED
    BY <2>3, <2>4
<1> QED
  BY <1>7, <1>8, <1>9, <1>10, <1>11, <1>14, <1>15, <1>16, <1>17, <1>18, <1>19, <1>20 DEF Next, Open

---------------------------------------------------------------------------
(* The theorems.                                                            *)

\* The tables of tasks, agents and events are always well typed, for any number of tasks,
\* and also with two isshd that open the store at once (initialize).
THEOREM TypeCorrect == Spec => []TypeOK
<1>1. Init => TypeInv
  BY InitInv DEF IInv
<1>2. TypeInv => TypeOK
  BY DEF TypeInv, TypeOK, OpenerType, AgentType, TaskType, Audit
<1> QED
  BY <1>1, <1>2, TypeStep, PTL DEF Spec

\* While isshd serves, an agent that is shown as busy has an unfinished task or one that a
\* second isshd took from it, over ends and starts at any statement of the opening, also by
\* an isshd that is launched while one serves (initialize, finish_task, unregister_agent).
THEOREM BusyAlwaysHasWork == Spec => []BusyHasWork
<1>1. IInv => BusyHasWork
  BY DEF IInv, AtWork, AllAtWork, BusyHasWork
<1> QED
  BY <1>1, Invariance, PTL

\* The tasks and events tables implement TaskLife: a task ends once, the events about it tell
\* its story in order, and only what ended while a second isshd had the store is recorded as
\* interrupted all the same (finish_task, cancel_task, initialize).
THEOREM TasksImplementLife == Spec => LifeSpec
<1>1. Init => Life!Init
  <2> SUFFICES ASSUME Init PROVE Life!Init
    OBVIOUS
  <2>1. Ids = {} /\ \A t \in 1..MaxTasks : events[t] = << >>
    BY DEF Init, Ids, NoEvents, Entities
  <2>2. opener.stage = "none" /\ opener.pending = {}
    BY DEF Init, NoOpener
  <2> QED
    BY <2>1, <2>2 DEF Life!Init
<1>2. IInv /\ [Next]_vars => [Life!Next]_(Life!vars)
  BY LifeStep
<1> QED
  BY <1>1, <1>2, Invariance, PTL DEF Spec, LifeSpec, Life!Spec

===============================================================================
