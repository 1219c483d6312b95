------------------------------ MODULE SshRuntime ------------------------------
(* What isshd keeps for an SSH session beside the session itself: the pump task  *)
(* of its shell, the connection, the SFTP session and the tasks that listen for  *)
(* its local and dynamic forwards (isshd main.rs). Every map has a lock of its   *)
(* own; a request handler takes them one after the other and awaits the network  *)
(* in between, and the handlers of two pipe clients run on two threads.          *)
(* Bounds: MaxSessions sessions are opened, Handlers requests run at a time.     *)
EXTENDS Integers, FiniteSets

CONSTANTS
    Hosts,        \* bind hosts, addresses that do not exclude each other
    Ports,        \* bind ports
    Handlers,     \* the requests that may be in progress at once
    MaxSessions

ASSUME BoundAssumption == MaxSessions \in Nat

VARIABLES
    nextSession,  \* SessionStore.next_ssh_id
    sessions,     \* SessionStore.sessions: "none", "running", "exited"
    pumps,        \* ssh_pumps: the sessions with a registered pump
    pumping,      \* the sessions whose pump task runs
    connections,  \* ssh_connections
    sftp,         \* sftp_sessions
    forwards,     \* ssh_forward_tasks: the registered listener tasks
    listening,    \* the tasks that hold their address
    aborted,      \* of those, the tasks that tokio has still to drop
    requests,     \* what each handler is doing
    raced         \* sessions whose last close met another handler of theirs (history)

vars == <<nextSession, sessions, pumps, pumping, connections, sftp, forwards,
          listening, aborted, requests, raced>>

Ids     == 1..MaxSessions
Kinds   == {"Local", "Dynamic"}
Tasks   == [session: Ids, kind: Kinds, host: Hosts, port: Ports]
Idle    == [op |-> "idle"]
Request ==
    {Idle} \cup [op: {"connect"}]
    \cup [op: {"registerPump", "registerConnection", "openSftp"}, session: Ids]
    \cup [op: {"bind", "insert"}, session: Ids, task: Tasks]
    \cup [op: {"closePump", "closeConnection", "closeSftp", "closeForwards",
               "closeSession"}, session: Ids]

Closing(r)  == r.op \in {"closePump", "closeConnection", "closeSftp", "closeForwards",
                         "closeSession"}
Using(r, s) == r.op \notin {"idle", "connect"} /\ ~Closing(r) /\ r.session = s
InUse(s)    == \E h \in Handlers : Using(requests[h], s)
InClose(s)  == \E h \in Handlers : Closing(requests[h]) /\ requests[h].session = s

\* forward_task_id: the host is no part of the key.
Key(t)     == <<t.session, t.kind, t.port>>
Address(t) == <<t.host, t.port>>
Bound      == {Address(t) : t \in listening}
              \cup {Address(requests[h].task) : h \in {g \in Handlers : requests[g].op = "insert"}}

Continue(h, r) == requests' = [requests EXCEPT ![h] = r]
\* A handler that starts on a session whose close is in progress meets it.
Meets(s) == raced' = IF InClose(s) THEN raced \cup {s} ELSE raced

---------------------------------------------------------------------------
(* session.openSsh: open_ssh_session.                                       *)

OpenSsh(h) ==
    /\ requests[h] = Idle
    /\ Continue(h, [op |-> "connect"])
    /\ UNCHANGED <<nextSession, sessions, pumps, pumping, connections, sftp, forwards,
                   listening, aborted, raced>>

\* No connection or no channel in time: nothing is kept.
ConnectFails(h) ==
    /\ requests[h].op = "connect"
    /\ Continue(h, Idle)
    /\ UNCHANGED <<nextSession, sessions, pumps, pumping, connections, sftp, forwards,
                   listening, aborted, raced>>

\* SessionStore::open_ssh shows the session to every client, and the pump starts.
Connected(h) ==
    /\ requests[h].op = "connect" /\ nextSession <= MaxSessions
    /\ nextSession' = nextSession + 1
    /\ sessions' = [sessions EXCEPT ![nextSession] = "running"]
    /\ pumping' = pumping \cup {nextSession}
    /\ Continue(h, [op |-> "registerPump", session |-> nextSession])
    /\ UNCHANGED <<pumps, connections, sftp, forwards, listening, aborted, raced>>

\* register_ssh_pump; ids are never given out twice, so no pump is replaced.
RegisterPump(h) ==
    /\ requests[h].op = "registerPump"
    /\ pumps' = pumps \cup {requests[h].session}
    /\ Continue(h, [op |-> "registerConnection", session |-> requests[h].session])
    /\ UNCHANGED <<nextSession, sessions, pumping, connections, sftp, forwards,
                   listening, aborted, raced>>

\* register_ssh_connection, and the answer.
RegisterConnection(h) ==
    /\ requests[h].op = "registerConnection"
    /\ connections' = connections \cup {requests[h].session}
    /\ Continue(h, Idle)
    /\ UNCHANGED <<nextSession, sessions, pumps, pumping, sftp, forwards, listening,
                   aborted, raced>>

---------------------------------------------------------------------------
(* The pump task: run_ssh_session_pump. It never leaves ssh_pumps by itself. *)

\* The channel ends: the session is marked if it is still there.
ShellExits(s) ==
    /\ s \in pumping
    /\ pumping' = pumping \ {s}
    /\ sessions' = [sessions EXCEPT ![s] = IF @ = "none" THEN "none" ELSE "exited"]
    /\ UNCHANGED <<nextSession, pumps, connections, sftp, forwards, listening, aborted,
                   requests, raced>>

\* A write fails, or the command channel closes because the session is gone.
PumpBreaks(s) ==
    /\ s \in pumping
    /\ pumping' = pumping \ {s}
    /\ UNCHANGED <<nextSession, sessions, pumps, connections, sftp, forwards, listening,
                   aborted, requests, raced>>

---------------------------------------------------------------------------
(* ssh.forwardLocal, ssh.forwardDynamic and ssh.stopForward.                *)

\* The handler clones the connection and starts to bind.
Forward(h, t) ==
    /\ requests[h] = Idle /\ t.session \in connections
    /\ Continue(h, [op |-> "bind", session |-> t.session, task |-> t])
    /\ Meets(t.session)
    /\ UNCHANGED <<nextSession, sessions, pumps, pumping, connections, sftp, forwards,
                   listening, aborted>>

\* TcpListener::bind returns a listener, or refuses an address in use.
Bind(h) ==
    /\ requests[h].op = "bind"
    /\ Continue(h, IF Address(requests[h].task) \in Bound THEN Idle
                   ELSE [requests[h] EXCEPT !.op = "insert"])
    /\ UNCHANGED <<nextSession, sessions, pumps, pumping, connections, sftp, forwards,
                   listening, aborted, raced>>

\* Mutated form of Insert: no check that the key is free; insert replaces the handle
\* of the other task, which goes on without one.
InsertOver(h) ==
    /\ requests[h].op = "insert"
    /\ LET t == requests[h].task
       IN  /\ forwards' = {u \in forwards : Key(u) # Key(t)} \cup {t}
           /\ listening' = listening \cup {t}
    /\ Continue(h, Idle)
    /\ UNCHANGED <<nextSession, sessions, pumps, pumping, connections, sftp, aborted, raced>>

\* The accept loop is spawned and registered, unless its key is taken: then the
\* listener is dropped.
Insert(h) ==
    /\ requests[h].op = "insert"
    /\ LET t == requests[h].task
       IN  IF \E u \in forwards : Key(u) = Key(t)
           THEN UNCHANGED <<forwards, listening>>
           ELSE /\ forwards' = forwards \cup {t}
                /\ listening' = listening \cup {t}
    /\ Continue(h, Idle)
    /\ UNCHANGED <<nextSession, sessions, pumps, pumping, connections, sftp, aborted, raced>>

\* Mutated form of Cancel: the handles are removed but not aborted.
Detach(ts) == forwards' = forwards \ ts /\ UNCHANGED aborted

\* Tasks leave the map and are aborted.
Cancel(ts) == forwards' = forwards \ ts /\ aborted' = aborted \cup (ts \cap listening)

\* ssh_stop_forward
StopForward(t) ==
    /\ t \in forwards
    /\ Cancel({t})
    /\ UNCHANGED <<nextSession, sessions, pumps, pumping, connections, sftp, listening,
                   requests, raced>>

\* Mutated form of AcceptFails: the task that ended is still to be dropped.
AcceptFailsOnly(t) ==
    /\ t \in listening
    /\ listening' = listening \ {t}
    /\ UNCHANGED <<nextSession, sessions, pumps, pumping, connections, sftp, forwards,
                   aborted, requests, raced>>

\* accept fails: the loop ends by itself, and its entry stays in the map.
AcceptFails(t) ==
    /\ t \in listening
    /\ listening' = listening \ {t} /\ aborted' = aborted \ {t}
    /\ UNCHANGED <<nextSession, sessions, pumps, pumping, connections, sftp, forwards,
                   requests, raced>>

\* tokio drops an aborted task, and with it the listener, at its next turn.
DropTask(t) ==
    /\ t \in aborted
    /\ listening' = listening \ {t} /\ aborted' = aborted \ {t}
    /\ UNCHANGED <<nextSession, sessions, pumps, pumping, connections, sftp, forwards,
                   requests, raced>>

---------------------------------------------------------------------------
(* sftp.open and sftp.close.                                                *)

OpenSftp(h, s) ==
    /\ requests[h] = Idle /\ s \in connections
    /\ Continue(h, [op |-> "openSftp", session |-> s])
    /\ Meets(s)
    /\ UNCHANGED <<nextSession, sessions, pumps, pumping, connections, sftp, forwards,
                   listening, aborted>>

\* The channel is open, or not in time. An SFTP session that was there is replaced.
SftpOpened(h) ==
    /\ requests[h].op = "openSftp"
    /\ sftp' \in {sftp, sftp \cup {requests[h].session}}
    /\ Continue(h, Idle)
    /\ UNCHANGED <<nextSession, sessions, pumps, pumping, connections, forwards,
                   listening, aborted, raced>>

CloseSftp(s) ==
    /\ s \in sftp
    /\ sftp' = sftp \ {s}
    /\ UNCHANGED <<nextSession, sessions, pumps, pumping, connections, forwards,
                   listening, aborted, requests, raced>>

---------------------------------------------------------------------------
(* session.close: five locks, one after the other. It does all of it also    *)
(* for a session that is gone, and only then says that there is none.        *)

Close(h, s) ==
    /\ requests[h] = Idle /\ s < nextSession
    /\ Continue(h, [op |-> "closePump", session |-> s])
    /\ raced' = IF InUse(s) THEN raced \cup {s} ELSE raced \ {s}
    /\ UNCHANGED <<nextSession, sessions, pumps, pumping, connections, sftp, forwards,
                   listening, aborted>>

\* abort_ssh_pump: without a registered handle the pump runs on.
AbortPump(h) ==
    /\ requests[h].op = "closePump"
    /\ pumping' = pumping \ (pumps \cap {requests[h].session})
    /\ pumps' = pumps \ {requests[h].session}
    /\ Continue(h, [requests[h] EXCEPT !.op = "closeConnection"])
    /\ UNCHANGED <<nextSession, sessions, connections, sftp, forwards, listening,
                   aborted, raced>>

\* drop_ssh_connection: the connection, the SFTP session, the forwards.
DropConnection(h) ==
    /\ requests[h].op = "closeConnection"
    /\ connections' = connections \ {requests[h].session}
    /\ Continue(h, [requests[h] EXCEPT !.op = "closeSftp"])
    /\ UNCHANGED <<nextSession, sessions, pumps, pumping, sftp, forwards, listening,
                   aborted, raced>>

DropSftp(h) ==
    /\ requests[h].op = "closeSftp"
    /\ sftp' = sftp \ {requests[h].session}
    /\ Continue(h, [requests[h] EXCEPT !.op = "closeForwards"])
    /\ UNCHANGED <<nextSession, sessions, pumps, pumping, connections, forwards,
                   listening, aborted, raced>>

\* Mutated form of OwnForwards: the prefix has a kind in it.
OwnLocalForwards(s) == {t \in forwards : t.session = s /\ t.kind = "Local"}

\* The tasks whose key starts with the id of the session.
OwnForwards(s) == {t \in forwards : t.session = s}

DropForwards(h) ==
    /\ requests[h].op = "closeForwards"
    /\ Cancel(OwnForwards(requests[h].session))
    /\ Continue(h, [requests[h] EXCEPT !.op = "closeSession"])
    /\ UNCHANGED <<nextSession, sessions, pumps, pumping, connections, sftp, listening, raced>>

\* SessionStore::close
CloseSession(h) ==
    /\ requests[h].op = "closeSession"
    /\ sessions' = [sessions EXCEPT ![requests[h].session] = "none"]
    /\ Continue(h, Idle)
    /\ UNCHANGED <<nextSession, pumps, pumping, connections, sftp, forwards, listening,
                   aborted, raced>>

---------------------------------------------------------------------------
Init ==
    /\ nextSession = 1 /\ sessions = [s \in Ids |-> "none"]
    /\ pumps = {} /\ pumping = {} /\ connections = {} /\ sftp = {}
    /\ forwards = {} /\ listening = {} /\ aborted = {}
    /\ requests = [h \in Handlers |-> Idle] /\ raced = {}

Handle(h) ==
    \/ ConnectFails(h) \/ Connected(h) \/ RegisterPump(h) \/ RegisterConnection(h)
    \/ Bind(h) \/ Insert(h) \/ SftpOpened(h)
    \/ AbortPump(h) \/ DropConnection(h) \/ DropSftp(h) \/ DropForwards(h) \/ CloseSession(h)

Next ==
    \/ \E h \in Handlers :
        \/ OpenSsh(h) \/ Handle(h)
        \/ \E t \in Tasks : Forward(h, t)
        \/ \E s \in Ids : OpenSftp(h, s) \/ Close(h, s)
    \/ \E s \in Ids : ShellExits(s) \/ PumpBreaks(s) \/ CloseSftp(s)
    \/ \E t \in Tasks : StopForward(t) \/ AcceptFails(t) \/ DropTask(t)

Spec == Init /\ [][Next]_vars

\* Fairness: a handler ends (every await in these has a timeout or is a bind), and
\* tokio drops aborted tasks.
FairSpec ==
    /\ Spec
    /\ \A h \in Handlers : WF_vars(Handle(h))
    /\ \A t \in Tasks : WF_vars(DropTask(t))

---------------------------------------------------------------------------
(* Properties.                                                               *)

\* The type invariant.
TypeOK ==
    /\ nextSession \in 1..(MaxSessions + 1)
    /\ sessions \in [Ids -> {"none", "running", "exited"}]
    /\ pumps \subseteq Ids /\ pumping \subseteq Ids
    /\ connections \subseteq Ids /\ sftp \subseteq Ids
    /\ forwards \subseteq Tasks /\ listening \subseteq Tasks /\ aborted \subseteq listening
    /\ requests \in [Handlers -> Request]
    /\ raced \subseteq Ids

\* No listener is out of reach: a task that holds an address can be stopped through
\* its entry in ssh_forward_tasks, under a key of its own, or is being dropped.
ListenersAreOwned ==
    /\ \A t \in listening : t \in forwards \/ t \in aborted
    /\ \A t, u \in forwards : Key(t) = Key(u) => t = u

\* After a close that met no other handler of the session, nothing of the session
\* is left: no pump, connection, SFTP session or forward, whatever earlier closes
\* that did meet one left behind.
ClosedIsGone ==
    \A s \in Ids \ raced :
        s < nextSession /\ sessions[s] = "none" /\ ~InClose(s) =>
            /\ s \notin pumps /\ s \notin connections /\ s \notin sftp
            /\ \A t \in forwards : t.session # s

\* The addresses of a session that is closed come free, unless the close met a
\* handler: the forwards of a reconnected profile can bind again.
AddressesComeFree ==
    \A s \in Ids :
        (s < nextSession /\ sessions[s] = "none" /\ s \notin raced)
            ~> ((\A t \in listening : t.session # s) \/ s \in raced)

=============================================================================
