----------------------------- MODULE IsshdProofs -----------------------------
(* Proofs about the two components of isshd that keep no session: SshRuntime,    *)
(* for any number of hosts, ports, sessions and requests at a time, and          *)
(* VaultStore, for any ids, passphrases and limits.                              *)
EXTENDS SshRuntime, VaultStore, FiniteSetTheorems, TLAPS

\* A close of s is in progress that has one of these steps before it.
Due(s, steps) == \E h \in Handlers : requests[h].op \in steps /\ requests[h].session = s

ClosersAreOld == \A h \in Handlers : Closing(requests[h]) => requests[h].session < nextSession

TasksAreOwn ==
    \A h \in Handlers : requests[h].op \in {"bind", "insert"} =>
        requests[h].task.session = requests[h].session

\* Who uses a session that no close has met uses a session that is there.
UsersAreLive ==
    \A h \in Handlers : \A s \in Ids \ raced :
        Using(requests[h], s) => ~InClose(s) /\ sessions[s] # "none"

\* Until a close has gone over a map, what it will remove may be there, but no longer.
CleanupIsDue ==
    \A s \in Ids \ raced : (sessions[s] = "none" \/ InClose(s)) =>
        /\ s \in pumps => Due(s, {"closePump"})
        /\ s \in connections => Due(s, {"closePump", "closeConnection"})
        /\ s \in sftp => Due(s, {"closePump", "closeConnection", "closeSftp"})
        /\ (\E t \in forwards : t.session = s) =>
              Due(s, {"closePump", "closeConnection", "closeSftp", "closeForwards"})

IInv == TypeOK /\ ListenersAreOwned /\ ClosersAreOld /\ TasksAreOwn /\ UsersAreLive
        /\ CleanupIsDue

---------------------------------------------------------------------------
(* The requests a handler may be in.                                        *)

\* A handler that names a session names one that can exist.
LEMMA RequestKinds ==
    ASSUME NEW r \in Request
    PROVE  /\ r.op \in {"registerPump", "registerConnection", "openSftp", "bind", "insert"}
                 \/ Closing(r) => r.session \in Ids
           /\ r.op \in {"bind", "insert"} => r.task \in Tasks
  BY DEF Request, Idle, Closing

\* The records that a handler can be.
LEMMA RequestForms ==
    /\ Idle \in Request /\ [op |-> "connect"] \in Request
    /\ \A s \in Ids :
          /\ [op |-> "registerPump", session |-> s] \in Request
          /\ [op |-> "registerConnection", session |-> s] \in Request
          /\ [op |-> "openSftp", session |-> s] \in Request
          /\ [op |-> "closePump", session |-> s] \in Request
          /\ \A t \in Tasks : [op |-> "bind", session |-> s, task |-> t] \in Request
  BY DEF Request

\* The next step of a close, and that of a forward.
LEMMA RequestGoesOn ==
    ASSUME NEW r \in Request
    PROVE  /\ Closing(r) => \A op \in {"closeConnection", "closeSftp", "closeForwards", "closeSession"} :
                  /\ [r EXCEPT !.op = op] \in Request
                  /\ [r EXCEPT !.op = op].op = op
                  /\ [r EXCEPT !.op = op].session = r.session
           /\ r.op = "bind" =>
                  /\ [r EXCEPT !.op = "insert"] \in Request
                  /\ [r EXCEPT !.op = "insert"].op = "insert"
                  /\ [r EXCEPT !.op = "insert"].session = r.session
                  /\ [r EXCEPT !.op = "insert"].task = r.task
  BY DEF Request, Idle, Closing

---------------------------------------------------------------------------
(* Types.                                                                   *)

\* The types, and the owner of every listener, are kept by every step.
LEMMA TypeStep == TypeOK /\ [Next]_vars => TypeOK'
  <1> SUFFICES ASSUME TypeOK, [Next]_vars PROVE TypeOK'
    OBVIOUS
  <1> USE BoundAssumption
  <1>1. /\ nextSession \in 1..(MaxSessions + 1)
        /\ sessions \in [Ids -> {"none", "running", "exited"}]
        /\ pumps \subseteq Ids /\ pumping \subseteq Ids
        /\ connections \subseteq Ids /\ sftp \subseteq Ids
        /\ forwards \subseteq Tasks /\ listening \subseteq Tasks /\ aborted \subseteq listening
        /\ requests \in [Handlers -> Request] /\ raced \subseteq Ids
    BY DEF TypeOK
  <1> SUFFICES
        /\ nextSession' \in 1..(MaxSessions + 1)
        /\ sessions' \in [Ids -> {"none", "running", "exited"}]
        /\ pumps' \subseteq Ids /\ pumping' \subseteq Ids
        /\ connections' \subseteq Ids /\ sftp' \subseteq Ids
        /\ forwards' \subseteq Tasks /\ listening' \subseteq Tasks /\ aborted' \subseteq listening'
        /\ requests' \in [Handlers -> Request] /\ raced' \subseteq Ids
    BY DEF TypeOK
  <1>2. ASSUME NEW h \in Handlers, NEW r \in Request, Continue(h, r)
        PROVE  requests' \in [Handlers -> Request]
    BY <1>1, <1>2 DEF Continue
  <1>3. ASSUME NEW h \in Handlers, OpenSsh(h) \/ Handle(h)
        PROVE  TypeOK'
    <2>1. requests[h] \in Request
      BY <1>1
    <2>2. CASE OpenSsh(h)
      BY <2>2, <1>1, <1>2, RequestForms DEF OpenSsh, TypeOK
    <2>3. CASE ConnectFails(h)
      BY <2>3, <1>1, <1>2, RequestForms DEF ConnectFails, TypeOK
    <2>4. CASE Connected(h)
      <3>1. nextSession \in Ids
        BY <2>4, <1>1 DEF Connected, Ids
      <3>2. requests' \in [Handlers -> Request]
        BY <3>1, <2>4, <1>2, RequestForms DEF Connected
      <3>3. nextSession' \in 1..(MaxSessions + 1)
        BY <2>4, <1>1 DEF Connected
      <3> QED BY <3>1, <3>2, <3>3, <2>4, <1>1 DEF Connected, TypeOK
    <2>5. CASE RegisterPump(h) \/ RegisterConnection(h)
      <3>1. requests[h].session \in Ids
        BY <2>5, <2>1, RequestKinds DEF RegisterPump, RegisterConnection
      <3> QED BY <3>1, <2>5, <1>1, <1>2, RequestForms
              DEF RegisterPump, RegisterConnection, TypeOK
    <2>6. CASE Bind(h)
      <3>1. requests[h].op = "bind"
        BY <2>6 DEF Bind
      <3>2. requests' \in [Handlers -> Request]
        BY <3>1, <2>6, <2>1, <1>2, RequestForms, RequestGoesOn DEF Bind
      <3> QED BY <3>2, <2>6, <1>1 DEF Bind, TypeOK
    <2>7. CASE Insert(h)
      <3>1. requests[h].task \in Tasks
        BY <2>7, <2>1, RequestKinds DEF Insert
      <3> QED BY <3>1, <2>7, <1>1, <1>2, RequestForms DEF Insert, TypeOK
    <2>8. CASE SftpOpened(h)
      <3>1. requests[h].session \in Ids
        BY <2>8, <2>1, RequestKinds DEF SftpOpened
      <3> QED BY <3>1, <2>8, <1>1, <1>2, RequestForms DEF SftpOpened, TypeOK
    <2>9. CASE AbortPump(h) \/ DropConnection(h) \/ DropSftp(h) \/ DropForwards(h)
      <3>1. Closing(requests[h])
        BY <2>9 DEF AbortPump, DropConnection, DropSftp, DropForwards, Closing
      <3>2. \A op \in {"closeConnection", "closeSftp", "closeForwards", "closeSession"} :
              [requests[h] EXCEPT !.op = op] \in Request
        BY <3>1, <2>1, RequestGoesOn
      <3>3. requests' \in [Handlers -> Request]
        BY <3>2, <2>9, <1>2 DEF AbortPump, DropConnection, DropSftp, DropForwards
      <3> QED BY <3>3, <2>9, <1>1 DEF AbortPump, DropConnection, DropSftp, DropForwards,
                                       Cancel, OwnForwards, TypeOK
    <2>10. CASE CloseSession(h)
      BY <2>10, <1>1, <1>2, RequestForms DEF CloseSession, TypeOK
    <2> QED BY <1>3, <2>2, <2>3, <2>4, <2>5, <2>6, <2>7, <2>8, <2>9, <2>10 DEF Handle
  <1>4. ASSUME NEW h \in Handlers, NEW t \in Tasks, Forward(h, t)
        PROVE  TypeOK'
    <2>1. t.session \in Ids
      BY DEF Tasks
    <2> QED BY <2>1, <1>4, <1>1, <1>2, RequestForms DEF Forward, Meets, TypeOK
  <1>5. ASSUME NEW h \in Handlers, NEW s \in Ids, OpenSftp(h, s) \/ Close(h, s)
        PROVE  TypeOK'
    BY <1>5, <1>1, <1>2, RequestForms DEF OpenSftp, Close, Meets, TypeOK
  <1>6. ASSUME NEW s \in Ids, ShellExits(s) \/ PumpBreaks(s) \/ CloseSftp(s)
        PROVE  TypeOK'
    BY <1>6, <1>1 DEF ShellExits, PumpBreaks, CloseSftp, TypeOK
  <1>7. ASSUME NEW t \in Tasks, StopForward(t) \/ AcceptFails(t) \/ DropTask(t)
        PROVE  TypeOK'
    BY <1>7, <1>1 DEF StopForward, AcceptFails, DropTask, Cancel, TypeOK
  <1>8. CASE UNCHANGED vars
    BY <1>8, <1>1 DEF vars, TypeOK
  <1> QED BY <1>3, <1>4, <1>5, <1>6, <1>7, <1>8 DEF Next, TypeOK

---------------------------------------------------------------------------
(* Listeners.                                                               *)

LEMMA OwnedStep ==
    ASSUME TypeOK, ListenersAreOwned, [Next]_vars
    PROVE  ListenersAreOwned'
  <1>1. /\ \A t \in listening : t \in forwards \/ t \in aborted
        /\ \A t, u \in forwards : Key(t) = Key(u) => t = u
        /\ forwards \subseteq Tasks /\ listening \subseteq Tasks /\ aborted \subseteq listening
    BY DEF ListenersAreOwned, TypeOK
  <1>2. CASE UNCHANGED <<forwards, listening, aborted>>
    BY <1>1, <1>2 DEF ListenersAreOwned
  <1>3. ASSUME NEW h \in Handlers, Insert(h)
        PROVE  ListenersAreOwned'
    <2>1. CASE \E u \in forwards : Key(u) = Key(requests[h].task)
      BY <2>1, <1>3, <1>2 DEF Insert
    <2>2. CASE ~ \E u \in forwards : Key(u) = Key(requests[h].task)
      <3>1. /\ forwards' = forwards \cup {requests[h].task}
            /\ listening' = listening \cup {requests[h].task} /\ aborted' = aborted
        BY <2>2, <1>3 DEF Insert
      <3> QED BY <3>1, <2>2, <1>1 DEF ListenersAreOwned
    <2> QED BY <2>1, <2>2
  <1>4. ASSUME NEW ts \in SUBSET forwards, Cancel(ts), listening' = listening
        PROVE  ListenersAreOwned'
    BY <1>4, <1>1 DEF Cancel, ListenersAreOwned
  <1>5. ASSUME NEW t \in Tasks, AcceptFails(t) \/ DropTask(t)
        PROVE  ListenersAreOwned'
    BY <1>5, <1>1 DEF AcceptFails, DropTask, ListenersAreOwned
  <1>6. ASSUME NEW h \in Handlers, OpenSsh(h) \/ Handle(h)
        PROVE  ListenersAreOwned'
    <2>1. CASE DropForwards(h)
      BY <2>1, <1>4 DEF DropForwards, OwnForwards
    <2>2. CASE ~Insert(h) /\ ~DropForwards(h)
      BY <2>2, <1>6, <1>2 DEF OpenSsh, Handle, ConnectFails, Connected, RegisterPump,
         RegisterConnection, Bind, SftpOpened, AbortPump, DropConnection, DropSftp, CloseSession
    <2> QED BY <2>1, <2>2, <1>3
  <1>7. CASE \/ \E h \in Handlers : \/ \E t \in Tasks : Forward(h, t)
                                    \/ \E s \in Ids : OpenSftp(h, s) \/ Close(h, s)
             \/ \E s \in Ids : ShellExits(s) \/ PumpBreaks(s) \/ CloseSftp(s)
             \/ UNCHANGED vars
    BY <1>7, <1>2 DEF Forward, OpenSftp, Close, ShellExits, PumpBreaks, CloseSftp, vars
  <1>8. ASSUME NEW t \in Tasks, StopForward(t)
        PROVE  ListenersAreOwned'
    BY <1>8, <1>4 DEF StopForward
  <1> QED BY <1>5, <1>6, <1>7, <1>8 DEF Next

---------------------------------------------------------------------------
(* Sessions. A step that moves one handler, as the others see it.           *)

\* A handler that goes on leaves the others alone.
LEMMA OthersStay ==
    ASSUME requests \in [Handlers -> Request], NEW h \in Handlers, NEW r, Continue(h, r)
    PROVE  /\ requests'[h] = r
           /\ \A g \in Handlers \ {h} : requests'[g] = requests[g]
  BY DEF Continue

\* The parts of IInv, each kept by every step.
LEMMA ClosersStep ==
    ASSUME TypeOK, ClosersAreOld, [Next]_vars
    PROVE  ClosersAreOld'
  <1>1. requests \in [Handlers -> Request] /\ nextSession \in Nat
    BY BoundAssumption DEF TypeOK
  <1>2. \A g \in Handlers : Closing(requests[g]) => requests[g].session < nextSession
                                /\ requests[g].session \in Ids
    BY <1>1, RequestKinds DEF ClosersAreOld
  <1>3. nextSession' = nextSession \/ nextSession' = nextSession + 1
    BY DEF Next, vars, Handle, OpenSsh, ConnectFails, Connected, RegisterPump,
       RegisterConnection, Bind, Insert, SftpOpened, AbortPump, DropConnection, DropSftp,
       DropForwards, CloseSession, Forward, OpenSftp, Close, ShellExits, PumpBreaks, CloseSftp,
       StopForward, AcceptFails, DropTask
  <1>4. CASE requests' = requests
    BY <1>4, <1>1, <1>2, <1>3 DEF ClosersAreOld, Ids
  <1>5. ASSUME NEW h \in Handlers, NEW r, Continue(h, r),
               Closing(r) => r.session \in Ids /\ r.session < nextSession
        PROVE  ClosersAreOld'
    BY <1>5, <1>1, <1>2, <1>3, OthersStay DEF ClosersAreOld, Ids
  <1>6. ASSUME NEW h \in Handlers, OpenSsh(h) \/ Handle(h)
        PROVE  ClosersAreOld'
    <2>1. requests[h] \in Request
      BY <1>1
    <2>2. CASE AbortPump(h) \/ DropConnection(h) \/ DropSftp(h) \/ DropForwards(h)
      <3>1. Closing(requests[h])
        BY <2>2 DEF AbortPump, DropConnection, DropSftp, DropForwards, Closing
      <3>2. \A op \in {"closeConnection", "closeSftp", "closeForwards", "closeSession"} :
              /\ [requests[h] EXCEPT !.op = op].session \in Ids
              /\ [requests[h] EXCEPT !.op = op].session < nextSession
        BY <3>1, <2>1, <1>2, RequestGoesOn
      <3> QED BY <3>2, <2>2, <1>5 DEF AbortPump, DropConnection, DropSftp, DropForwards
    <2>3. CASE Bind(h)
      <3>1. ~Closing([requests[h] EXCEPT !.op = "insert"]) /\ ~Closing(Idle)
        BY <2>3, <2>1, RequestGoesOn DEF Bind, Closing, Idle
      <3> QED BY <3>1, <2>3, <1>5 DEF Bind
    <2>4. CASE \/ OpenSsh(h) \/ ConnectFails(h) \/ Connected(h) \/ RegisterPump(h)
               \/ RegisterConnection(h) \/ Insert(h) \/ SftpOpened(h) \/ CloseSession(h)
      <3>1. /\ ~Closing(Idle) /\ ~Closing([op |-> "connect"])
            /\ \A s : ~Closing([op |-> "registerPump", session |-> s])
            /\ \A s : ~Closing([op |-> "registerConnection", session |-> s])
        BY DEF Closing, Idle
      <3> QED BY <3>1, <2>4, <1>5 DEF OpenSsh, ConnectFails, Connected, RegisterPump,
                 RegisterConnection, Insert, SftpOpened, CloseSession
    <2> QED BY <1>6, <2>2, <2>3, <2>4 DEF Handle
  <1>7. ASSUME NEW h \in Handlers, NEW s \in Ids, OpenSftp(h, s) \/ Close(h, s)
        PROVE  ClosersAreOld'
    <2>1. /\ ~Closing([op |-> "openSftp", session |-> s])
          /\ [op |-> "closePump", session |-> s].session = s
      BY DEF Closing
    <2> QED BY <2>1, <1>7, <1>5 DEF OpenSftp, Close
  <1>8. ASSUME NEW h \in Handlers, NEW t \in Tasks, Forward(h, t)
        PROVE  ClosersAreOld'
    <2>1. ~Closing([op |-> "bind", session |-> t.session, task |-> t])
      BY DEF Closing
    <2> QED BY <2>1, <1>8, <1>5 DEF Forward
  <1>9. CASE \/ \E s \in Ids : ShellExits(s) \/ PumpBreaks(s) \/ CloseSftp(s)
             \/ \E t \in Tasks : StopForward(t) \/ AcceptFails(t) \/ DropTask(t)
             \/ UNCHANGED vars
    BY <1>9, <1>4 DEF ShellExits, PumpBreaks, CloseSftp, StopForward, AcceptFails, DropTask, vars
  <1> QED BY <1>6, <1>7, <1>8, <1>9 DEF Next

LEMMA TasksStep ==
    ASSUME TypeOK, TasksAreOwn, [Next]_vars
    PROVE  TasksAreOwn'
  <1>1. requests \in [Handlers -> Request]
    BY DEF TypeOK
  <1>2. CASE requests' = requests
    BY <1>2 DEF TasksAreOwn
  <1>3. ASSUME NEW h \in Handlers, NEW r, Continue(h, r),
               r.op \in {"bind", "insert"} => r.task.session = r.session
        PROVE  TasksAreOwn'
    BY <1>1, <1>3, OthersStay DEF TasksAreOwn
  <1>4. ASSUME NEW h \in Handlers, OpenSsh(h) \/ Handle(h)
        PROVE  TasksAreOwn'
    <2>1. requests[h] \in Request
      BY <1>1
    <2>2. CASE Bind(h)
      <3>1. /\ requests[h].op = "bind" /\ requests[h].task.session = requests[h].session
            /\ Idle.op = "idle"
        BY <2>2 DEF Bind, TasksAreOwn, Idle
      <3>2. /\ [requests[h] EXCEPT !.op = "insert"].session = requests[h].session
            /\ [requests[h] EXCEPT !.op = "insert"].task = requests[h].task
        BY <3>1, <2>1, RequestGoesOn
      <3>3. Continue(h, Idle) \/ Continue(h, [requests[h] EXCEPT !.op = "insert"])
        BY <2>2 DEF Bind
      <3>4. CASE Continue(h, Idle)
        BY <3>1, <3>4, <1>3
      <3>5. CASE Continue(h, [requests[h] EXCEPT !.op = "insert"])
        BY <3>1, <3>2, <3>5, <1>3
      <3> QED BY <3>3, <3>4, <3>5
    <2>3. CASE AbortPump(h) \/ DropConnection(h) \/ DropSftp(h) \/ DropForwards(h)
      <3>1. Closing(requests[h])
        BY <2>3 DEF AbortPump, DropConnection, DropSftp, DropForwards, Closing
      <3>2. \A op \in {"closeConnection", "closeSftp", "closeForwards", "closeSession"} :
              [requests[h] EXCEPT !.op = op].op \notin {"bind", "insert"}
        BY <3>1, <2>1, RequestGoesOn
      <3> QED BY <3>2, <2>3, <1>3 DEF AbortPump, DropConnection, DropSftp, DropForwards
    <2>4. CASE \/ OpenSsh(h) \/ ConnectFails(h) \/ Connected(h) \/ RegisterPump(h)
               \/ RegisterConnection(h) \/ Insert(h) \/ SftpOpened(h) \/ CloseSession(h)
      <3>1. /\ Idle.op = "idle" /\ [op |-> "connect"].op = "connect"
            /\ \A s : [op |-> "registerPump", session |-> s].op = "registerPump"
            /\ \A s : [op |-> "registerConnection", session |-> s].op = "registerConnection"
        BY DEF Idle
      <3> QED BY <3>1, <2>4, <1>3 DEF OpenSsh, ConnectFails, Connected, RegisterPump,
                 RegisterConnection, Insert, SftpOpened, CloseSession
    <2> QED BY <1>4, <2>2, <2>3, <2>4 DEF Handle
  <1>5. ASSUME NEW h \in Handlers, NEW s \in Ids, OpenSftp(h, s) \/ Close(h, s)
        PROVE  TasksAreOwn'
    BY <1>5, <1>3 DEF OpenSftp, Close
  <1>6. ASSUME NEW h \in Handlers, NEW t \in Tasks, Forward(h, t)
        PROVE  TasksAreOwn'
    BY <1>6, <1>3 DEF Forward
  <1>7. CASE \/ \E s \in Ids : ShellExits(s) \/ PumpBreaks(s) \/ CloseSftp(s)
             \/ \E t \in Tasks : StopForward(t) \/ AcceptFails(t) \/ DropTask(t)
             \/ UNCHANGED vars
    BY <1>7, <1>2 DEF ShellExits, PumpBreaks, CloseSftp, StopForward, AcceptFails, DropTask, vars
  <1> QED BY <1>4, <1>5, <1>6, <1>7 DEF Next

---------------------------------------------------------------------------
\* A step after which a handler uses and closes at most what it did before, and every
\* session that was there is there.
LEMMA UsersKept ==
    ASSUME requests \in [Handlers -> Request], UsersAreLive,
           NEW h \in Handlers, NEW r, Continue(h, r), raced' = raced,
           \A s \in Ids : sessions[s] # "none" => sessions'[s] # "none",
           \A s \in Ids : Using(r, s) => Using(requests[h], s),
           Closing(r) => Closing(requests[h]) /\ r.session = requests[h].session
    PROVE  UsersAreLive'
  <1>1. requests'[h] = r /\ \A g \in Handlers \ {h} : requests'[g] = requests[g]
    BY OthersStay
  <1>2. \A s \in Ids : InClose(s)' => InClose(s)
    BY <1>1 DEF InClose
  <1>3. \A g \in Handlers : \A s \in Ids : Using(requests'[g], s) => Using(requests[g], s)
    BY <1>1
  <1> SUFFICES ASSUME NEW g \in Handlers, NEW s \in Ids \ raced, Using(requests'[g], s)
               PROVE  ~InClose(s)' /\ sessions'[s] # "none"
    BY DEF UsersAreLive
  <1> QED BY <1>2, <1>3 DEF UsersAreLive

\* A handler that starts on a session whose connection it has found.
LEMMA UserStarts ==
    ASSUME TypeOK, UsersAreLive, CleanupIsDue, NEW h \in Handlers, NEW r, NEW s \in Ids,
           requests[h] = Idle, Continue(h, r), Meets(s), s \in connections,
           sessions' = sessions, ~Closing(r), \A x \in Ids : Using(r, x) => x = s
    PROVE  UsersAreLive'
  <1>1. requests \in [Handlers -> Request]
    BY DEF TypeOK
  <1>2. requests'[h] = r /\ \A g \in Handlers \ {h} : requests'[g] = requests[g]
    BY <1>1, OthersStay
  <1>3. raced' = IF InClose(s) THEN raced \cup {s} ELSE raced
    BY DEF Meets
  <1>4. \A x \in Ids : InClose(x)' => InClose(x)
    BY <1>2 DEF InClose
  <1>5. s \notin raced' => ~InClose(s) /\ sessions[s] # "none"
    <2> SUFFICES ASSUME s \notin raced' PROVE ~InClose(s) /\ sessions[s] # "none"
      OBVIOUS
    <2>1. ~InClose(s) /\ s \in Ids \ raced
      BY <1>3
    <2>2. ASSUME sessions[s] = "none" PROVE FALSE
      <3>1. Due(s, {"closePump", "closeConnection"})
        BY <2>1, <2>2 DEF CleanupIsDue
      <3> QED BY <3>1, <2>1 DEF Due, InClose, Closing
    <2> QED BY <2>1, <2>2
  <1> SUFFICES ASSUME NEW g \in Handlers, NEW x \in Ids \ raced', Using(requests'[g], x)
               PROVE  ~InClose(x)' /\ sessions'[x] # "none"
    BY DEF UsersAreLive
  <1>6. CASE g = h
    BY <1>6, <1>2, <1>4, <1>5
  <1>7. CASE g # h
    BY <1>7, <1>2, <1>3, <1>4 DEF UsersAreLive
  <1> QED BY <1>6, <1>7

LEMMA UsersStep ==
    ASSUME TypeOK, ClosersAreOld, UsersAreLive, CleanupIsDue, [Next]_vars
    PROVE  UsersAreLive'
  <1>1. /\ requests \in [Handlers -> Request]
        /\ sessions \in [Ids -> {"none", "running", "exited"}]
    BY DEF TypeOK
  <1>2. /\ Idle.op = "idle" /\ ~Closing(Idle) /\ \A x \in Ids : ~Using(Idle, x)
        /\ ~Closing([op |-> "connect"]) /\ \A x \in Ids : ~Using([op |-> "connect"], x)
    BY DEF Idle, Closing, Using
  <1>3. ASSUME NEW h \in Handlers, OpenSsh(h) \/ Handle(h)
        PROVE  UsersAreLive'
    <2>1. requests[h] \in Request
      BY <1>1
    <2>2. CASE OpenSsh(h) \/ ConnectFails(h) \/ RegisterConnection(h) \/ Insert(h) \/ SftpOpened(h)
      BY <2>2, <1>1, <1>2, UsersKept
         DEF OpenSsh, ConnectFails, RegisterConnection, Insert, SftpOpened
    <2>3. CASE Connected(h)
      <3> DEFINE r == [op |-> "registerPump", session |-> nextSession]
      <3>1. requests'[h] = r /\ \A g \in Handlers \ {h} : requests'[g] = requests[g]
        BY <2>3, <1>1, OthersStay DEF Connected
      <3>2. /\ requests[h].op = "connect" /\ raced' = raced /\ nextSession \in Ids
            /\ sessions' = [sessions EXCEPT ![nextSession] = "running"]
        BY <2>3, BoundAssumption DEF Connected, Ids, TypeOK
      <3>3. \A x \in Ids : InClose(x)' => InClose(x)
        BY <3>1 DEF InClose, Closing
      <3>4. ~InClose(nextSession)
        BY <3>2 DEF InClose, ClosersAreOld, Ids
      <3>5. \A x \in Ids : Using(r, x) => x = nextSession
        BY DEF Using
      <3> HIDE DEF r
      <3> SUFFICES ASSUME NEW g \in Handlers, NEW x \in Ids \ raced, Using(requests'[g], x)
                   PROVE  ~InClose(x)' /\ sessions'[x] # "none"
        BY <3>2 DEF UsersAreLive
      <3>6. CASE g = h
        BY <3>6, <3>1, <3>2, <3>3, <3>4, <3>5, <1>1
      <3>7. CASE g # h
        BY <3>7, <3>1, <3>2, <3>3, <1>1 DEF UsersAreLive
      <3> QED BY <3>6, <3>7
    <2>4. CASE RegisterPump(h)
      <3> DEFINE r == [op |-> "registerConnection", session |-> requests[h].session]
      <3>1. ~Closing(r) /\ \A x \in Ids : Using(r, x) => Using(requests[h], x)
        BY <2>4 DEF RegisterPump, Using, Closing
      <3>2. Continue(h, r) /\ raced' = raced /\ sessions' = sessions
        BY <2>4 DEF RegisterPump
      <3> HIDE DEF r
      <3> QED BY <3>1, <3>2, <1>1, UsersKept
    <2>5. CASE Bind(h)
      <3> DEFINE r == [requests[h] EXCEPT !.op = "insert"]
      <3>1. requests[h].op = "bind" /\ r.op = "insert" /\ r.session = requests[h].session
        BY <2>5, <2>1, RequestGoesOn DEF Bind
      <3>2. (Continue(h, Idle) \/ Continue(h, r)) /\ raced' = raced /\ sessions' = sessions
        BY <2>5 DEF Bind
      <3> HIDE DEF r
      <3>3. ~Closing(r) /\ \A x \in Ids : Using(r, x) => Using(requests[h], x)
        BY <3>1 DEF Using, Closing
      <3> QED BY <3>2, <3>3, <1>1, <1>2, UsersKept
    <2>6. CASE AbortPump(h) \/ DropConnection(h) \/ DropSftp(h) \/ DropForwards(h)
      <3>1. Closing(requests[h])
        BY <2>6 DEF AbortPump, DropConnection, DropSftp, DropForwards, Closing
      <3>2. PICK op \in {"closeConnection", "closeSftp", "closeForwards", "closeSession"} :
              Continue(h, [requests[h] EXCEPT !.op = op]) /\ raced' = raced /\ sessions' = sessions
        BY <2>6 DEF AbortPump, DropConnection, DropSftp, DropForwards
      <3> DEFINE r == [requests[h] EXCEPT !.op = op]
      <3>3. r.op = op /\ r.session = requests[h].session
        BY <3>1, <2>1, RequestGoesOn
      <3>4. Continue(h, r)
        BY <3>2
      <3> HIDE DEF r
      <3>5. ~ \E x \in Ids : Using(r, x)
        BY <3>3 DEF Using, Closing
      <3> QED BY <3>1, <3>2, <3>3, <3>4, <3>5, <1>1, UsersKept
    <2>7. CASE CloseSession(h)
      <3>1. requests'[h] = Idle /\ \A g \in Handlers \ {h} : requests'[g] = requests[g]
        BY <2>7, <1>1, OthersStay DEF CloseSession
      <3>2. /\ Closing(requests[h]) /\ raced' = raced
            /\ sessions' = [sessions EXCEPT ![requests[h].session] = "none"]
        BY <2>7 DEF CloseSession, Closing
      <3>3. InClose(requests[h].session) /\ \A x \in Ids : InClose(x)' => InClose(x)
        BY <3>1, <3>2, <1>2 DEF InClose
      <3> SUFFICES ASSUME NEW g \in Handlers, NEW x \in Ids \ raced, Using(requests'[g], x)
                   PROVE  ~InClose(x)' /\ sessions'[x] # "none"
        BY <3>2 DEF UsersAreLive
      <3>4. g # h /\ Using(requests[g], x)
        BY <3>1, <1>2
      <3>5. ~InClose(x) /\ sessions[x] # "none"
        BY <3>4 DEF UsersAreLive
      <3>6. x # requests[h].session
        BY <3>5, <3>3
      <3> QED BY <3>2, <3>3, <3>5, <3>6, <1>1
    <2> QED BY <1>3, <2>2, <2>3, <2>4, <2>5, <2>6, <2>7 DEF Handle
  <1>4. ASSUME NEW h \in Handlers, NEW t \in Tasks, Forward(h, t)
        PROVE  UsersAreLive'
    <2> DEFINE r == [op |-> "bind", session |-> t.session, task |-> t]
    <2>1. /\ ~Closing(r) /\ \A x \in Ids : Using(r, x) => x = t.session
          /\ t.session \in Ids
      BY DEF Using, Closing, Tasks
    <2>2. /\ requests[h] = Idle /\ Continue(h, r) /\ Meets(t.session)
          /\ t.session \in connections /\ sessions' = sessions
      BY <1>4 DEF Forward
    <2> HIDE DEF r
    <2> QED BY <2>1, <2>2, UserStarts
  <1>5. ASSUME NEW h \in Handlers, NEW s \in Ids, OpenSftp(h, s)
        PROVE  UsersAreLive'
    <2> DEFINE r == [op |-> "openSftp", session |-> s]
    <2>1. ~Closing(r) /\ \A x \in Ids : Using(r, x) => x = s
      BY DEF Using, Closing
    <2>2. /\ requests[h] = Idle /\ Continue(h, r) /\ Meets(s)
          /\ s \in connections /\ sessions' = sessions
      BY <1>5 DEF OpenSftp
    <2> HIDE DEF r
    <2> QED BY <2>1, <2>2, UserStarts
  <1>6. ASSUME NEW h \in Handlers, NEW s \in Ids, Close(h, s)
        PROVE  UsersAreLive'
    <2> DEFINE r == [op |-> "closePump", session |-> s]
    <2>1. requests'[h] = r /\ \A g \in Handlers \ {h} : requests'[g] = requests[g]
      BY <1>6, <1>1, OthersStay DEF Close
    <2>2. r.session = s /\ \A x \in Ids : ~Using(r, x)
      BY DEF Using, Closing
    <2>3. /\ raced' = IF InUse(s) THEN raced \cup {s} ELSE raced \ {s}
          /\ sessions' = sessions
      BY <1>6 DEF Close
    <2> HIDE DEF r
    <2>4. \A x \in Ids : x # s /\ InClose(x)' => InClose(x)
      BY <2>1, <2>2 DEF InClose
    <2> SUFFICES ASSUME NEW g \in Handlers, NEW x \in Ids \ raced', Using(requests'[g], x)
                 PROVE  ~InClose(x)' /\ sessions'[x] # "none"
      BY DEF UsersAreLive
    <2>5. Using(requests[g], x)
      BY <2>1, <2>2
    <2>6. x # s
      BY <2>5, <2>3 DEF InUse
    <2> QED BY <2>3, <2>4, <2>5, <2>6 DEF UsersAreLive
  <1>7. CASE \/ \E s \in Ids : ShellExits(s) \/ PumpBreaks(s) \/ CloseSftp(s)
             \/ \E t \in Tasks : StopForward(t) \/ AcceptFails(t) \/ DropTask(t)
             \/ UNCHANGED vars
    <2>1. requests' = requests /\ raced' = raced
      BY <1>7 DEF ShellExits, PumpBreaks, CloseSftp, StopForward, AcceptFails, DropTask, vars
    <2>2. \A x \in Ids : sessions[x] # "none" => sessions'[x] # "none"
      BY <1>7, <1>1
         DEF ShellExits, PumpBreaks, CloseSftp, StopForward, AcceptFails, DropTask, vars
    <2> QED BY <2>1, <2>2 DEF UsersAreLive, InClose
  <1> QED BY <1>3, <1>4, <1>5, <1>6, <1>7 DEF Next

---------------------------------------------------------------------------
(* What a close has still to remove.                                        *)

\* A step after which no more closes go on, and what a session may have kept it has
\* kept: sessions that were there are there, and nothing entered their maps.
LEMMA CleanupKept ==
    ASSUME CleanupIsDue,
           \A s \in Ids \ raced' : sessions'[s] = "none" \/ InClose(s)' =>
               /\ s \notin raced /\ (sessions[s] = "none" \/ InClose(s))
               /\ s \in pumps' =>
                     s \in pumps /\ (Due(s, {"closePump"}) => Due(s, {"closePump"})')
               /\ s \in connections' =>
                     s \in connections /\ (Due(s, {"closePump", "closeConnection"})
                                            => Due(s, {"closePump", "closeConnection"})')
               /\ s \in sftp' =>
                     s \in sftp /\ (Due(s, {"closePump", "closeConnection", "closeSftp"})
                                     => Due(s, {"closePump", "closeConnection", "closeSftp"})')
               /\ \A t \in forwards' : t.session = s =>
                     t \in forwards
                     /\ (Due(s, {"closePump", "closeConnection", "closeSftp", "closeForwards"})
                         => Due(s, {"closePump", "closeConnection", "closeSftp", "closeForwards"})')
    PROVE  CleanupIsDue'
  <1> SUFFICES ASSUME NEW s \in Ids \ raced', sessions'[s] = "none" \/ InClose(s)'
               PROVE  /\ s \in pumps' => Due(s, {"closePump"})'
                      /\ s \in connections' => Due(s, {"closePump", "closeConnection"})'
                      /\ s \in sftp' => Due(s, {"closePump", "closeConnection", "closeSftp"})'
                      /\ (\E t \in forwards' : t.session = s) =>
                            Due(s, {"closePump", "closeConnection", "closeSftp", "closeForwards"})'
    BY DEF CleanupIsDue
  <1>1. s \in Ids \ raced /\ (sessions[s] = "none" \/ InClose(s))
    OBVIOUS
  <1> QED BY <1>1 DEF CleanupIsDue

\* A handler that closes nothing goes on to something that closes nothing.
LEMMA OutsideCloses ==
    ASSUME requests \in [Handlers -> Request], NEW h \in Handlers, NEW r, Continue(h, r),
           ~Closing(requests[h]), ~Closing(r)
    PROVE  \A s \in Ids :
             /\ InClose(s)' <=> InClose(s)
             /\ Due(s, {"closePump"}) => Due(s, {"closePump"})'
             /\ Due(s, {"closePump", "closeConnection"})
                => Due(s, {"closePump", "closeConnection"})'
             /\ Due(s, {"closePump", "closeConnection", "closeSftp"})
                => Due(s, {"closePump", "closeConnection", "closeSftp"})'
             /\ Due(s, {"closePump", "closeConnection", "closeSftp", "closeForwards"})
                => Due(s, {"closePump", "closeConnection", "closeSftp", "closeForwards"})'
  <1>1. requests'[h] = r /\ \A g \in Handlers \ {h} : requests'[g] = requests[g]
    BY OthersStay
  <1> QED BY <1>1 DEF InClose, Due, Closing

\* A close goes one step further.
LEMMA CloseGoesOn ==
    ASSUME requests \in [Handlers -> Request], NEW h \in Handlers, Closing(requests[h]),
           NEW op \in {"closeConnection", "closeSftp", "closeForwards", "closeSession"},
           Continue(h, [requests[h] EXCEPT !.op = op])
    PROVE  \A s \in Ids :
             /\ InClose(s)' <=> InClose(s)
             /\ \A steps \in {{"closePump"}, {"closePump", "closeConnection"},
                             {"closePump", "closeConnection", "closeSftp"},
                             {"closePump", "closeConnection", "closeSftp", "closeForwards"}} :
                   Due(s, steps)
                     /\ (requests[h].op \in steps /\ s = requests[h].session => op \in steps)
                   => Due(s, steps)'
  <1> DEFINE r == [requests[h] EXCEPT !.op = op]
  <1>1. requests'[h] = r /\ \A g \in Handlers \ {h} : requests'[g] = requests[g]
    BY OthersStay
  <1>2. r.op = op /\ r.session = requests[h].session
    BY RequestGoesOn
  <1>3. Closing(r)
    BY <1>2 DEF Closing
  <1> HIDE DEF r
  <1>4. ASSUME NEW s \in Ids PROVE InClose(s)' <=> InClose(s)
    BY <1>1, <1>2, <1>3 DEF InClose
  <1>5. ASSUME NEW s \in Ids, NEW steps, Due(s, steps),
               requests[h].op \in steps /\ s = requests[h].session => op \in steps
        PROVE  Due(s, steps)'
    BY <1>1, <1>2, <1>5 DEF Due
  <1> QED BY <1>4, <1>5

LEMMA CleanupStep ==
    ASSUME TypeOK, ClosersAreOld, TasksAreOwn, UsersAreLive, CleanupIsDue, [Next]_vars
    PROVE  CleanupIsDue'
  <1>1. /\ requests \in [Handlers -> Request]
        /\ sessions \in [Ids -> {"none", "running", "exited"}]
    BY DEF TypeOK
  <1>2. ~Closing(Idle) /\ ~Closing([op |-> "connect"])
    BY DEF Idle, Closing
  <1> DEFINE D1(s) == Due(s, {"closePump"})
             D2(s) == Due(s, {"closePump", "closeConnection"})
             D3(s) == Due(s, {"closePump", "closeConnection", "closeSftp"})
             D4(s) == Due(s, {"closePump", "closeConnection", "closeSftp", "closeForwards"})
  <1>3. ASSUME NEW h \in Handlers, OpenSsh(h) \/ Handle(h)
        PROVE  CleanupIsDue'
    <2>1. requests[h] \in Request
      BY <1>1
    <2>2. CASE OpenSsh(h) \/ ConnectFails(h)
      <3>1. PICK r \in {Idle, [op |-> "connect"]} : Continue(h, r)
        BY <2>2 DEF OpenSsh, ConnectFails
      <3>2. ~Closing(requests[h]) /\ ~Closing(r)
        BY <3>1, <2>2, <1>2 DEF OpenSsh, ConnectFails, Closing
      <3>3. UNCHANGED <<sessions, pumps, connections, sftp, forwards, raced>>
        BY <2>2 DEF OpenSsh, ConnectFails
      <3>4. \A s \in Ids : InClose(s)' <=> InClose(s)
        BY <3>1, <3>2, <1>1, OutsideCloses
      <3> QED BY <3>1, <3>2, <3>3, <3>4, <1>1, OutsideCloses, CleanupKept
    <2>3. CASE Connected(h)
      <3> DEFINE r == [op |-> "registerPump", session |-> nextSession]
      <3>1. /\ Continue(h, r) /\ ~Closing(requests[h]) /\ ~Closing(r)
            /\ UNCHANGED <<pumps, connections, sftp, forwards, raced>>
            /\ sessions' = [sessions EXCEPT ![nextSession] = "running"]
        BY <2>3 DEF Connected, Closing
      <3>2. nextSession \in Ids /\ ~InClose(nextSession)
        BY <2>3, BoundAssumption DEF Connected, Ids, TypeOK, InClose, ClosersAreOld
      <3> HIDE DEF r
      <3>3. \A s \in Ids : InClose(s)' <=> InClose(s)
        BY <3>1, <1>1, OutsideCloses
      <3>4. \A s \in Ids : sessions'[s] = "none" => sessions[s] = "none"
        BY <3>1, <3>2, <1>1
      <3> QED BY <3>1, <3>3, <3>4, <1>1, OutsideCloses, CleanupKept
    <2>4. CASE RegisterPump(h) \/ RegisterConnection(h) \/ Insert(h) \/ SftpOpened(h)
      <3> DEFINE q == requests[h].session
      <3>1. PICK r : /\ Continue(h, r) /\ ~Closing(requests[h]) /\ ~Closing(r)
                     /\ UNCHANGED <<sessions, raced>>
        BY <2>4, <1>2 DEF RegisterPump, RegisterConnection, Insert, SftpOpened, Closing
      <3>2. q \in Ids /\ Using(requests[h], q)
        BY <2>4, <2>1, RequestKinds
           DEF RegisterPump, RegisterConnection, Insert, SftpOpened, Closing, Using
      <3>3. \A s \in Ids : InClose(s)' <=> InClose(s)
        BY <3>1, <1>1, OutsideCloses
      <3>4. q \notin raced => ~InClose(q) /\ sessions[q] # "none"
        BY <3>2 DEF UsersAreLive
      <3>5. /\ pumps' \subseteq pumps \cup {q} /\ connections' \subseteq connections \cup {q}
            /\ sftp' \subseteq sftp \cup {q}
        BY <2>4 DEF RegisterPump, RegisterConnection, Insert, SftpOpened
      <3>6. \A t \in forwards' : t.session # q => t \in forwards
        <4>1. CASE Insert(h)
          <5>1. requests[h].task.session = q
            BY <4>1 DEF Insert, TasksAreOwn
          <5> QED BY <5>1, <4>1 DEF Insert
        <4>2. CASE ~Insert(h)
          BY <4>2, <2>4 DEF RegisterPump, RegisterConnection, SftpOpened
        <4> QED BY <4>1, <4>2
      <3> HIDE DEF q
      <3>7. \A s \in Ids \ raced' : sessions'[s] = "none" \/ InClose(s)' => s # q
        BY <3>1, <3>3, <3>4
      <3> QED BY <3>1, <3>3, <3>5, <3>6, <3>7, <1>1, OutsideCloses, CleanupKept
    <2>5. CASE Bind(h)
      <3> DEFINE r == [requests[h] EXCEPT !.op = "insert"]
      <3>1. requests[h].op = "bind" /\ r.op = "insert"
        BY <2>5, <2>1, RequestGoesOn DEF Bind
      <3>2. /\ Continue(h, Idle) \/ Continue(h, r)
            /\ UNCHANGED <<sessions, pumps, connections, sftp, forwards, raced>>
        BY <2>5 DEF Bind
      <3> HIDE DEF r
      <3>3. ~Closing(requests[h]) /\ ~Closing(r)
        BY <3>1 DEF Closing
      <3>4. \A s \in Ids : InClose(s)' <=> InClose(s)
        BY <3>2, <3>3, <1>1, <1>2, OutsideCloses
      <3> QED BY <3>2, <3>3, <3>4, <1>1, <1>2, OutsideCloses, CleanupKept
    <2>6. CASE AbortPump(h)
      <3>1. /\ Closing(requests[h]) /\ requests[h].op = "closePump"
            /\ Continue(h, [requests[h] EXCEPT !.op = "closeConnection"])
            /\ pumps' = pumps \ {requests[h].session}
            /\ UNCHANGED <<sessions, connections, sftp, forwards, raced>>
        BY <2>6 DEF AbortPump, Closing
      <3>2. \A s \in Ids :
              /\ InClose(s)' <=> InClose(s)
              /\ s # requests[h].session => (D1(s) => D1(s)')
              /\ (D2(s) => D2(s)') /\ (D3(s) => D3(s)') /\ (D4(s) => D4(s)')
        BY <3>1, <1>1, CloseGoesOn
      <3> QED BY <3>1, <3>2, CleanupKept
    <2>7. CASE DropConnection(h)
      <3>1. /\ Closing(requests[h]) /\ requests[h].op = "closeConnection"
            /\ Continue(h, [requests[h] EXCEPT !.op = "closeSftp"])
            /\ connections' = connections \ {requests[h].session}
            /\ UNCHANGED <<sessions, pumps, sftp, forwards, raced>>
        BY <2>7 DEF DropConnection, Closing
      <3>2. \A s \in Ids :
              /\ InClose(s)' <=> InClose(s)
              /\ D1(s) => D1(s)'
              /\ s # requests[h].session => (D2(s) => D2(s)')
              /\ (D3(s) => D3(s)') /\ (D4(s) => D4(s)')
        BY <3>1, <1>1, CloseGoesOn
      <3> QED BY <3>1, <3>2, CleanupKept
    <2>8. CASE DropSftp(h)
      <3>1. /\ Closing(requests[h]) /\ requests[h].op = "closeSftp"
            /\ Continue(h, [requests[h] EXCEPT !.op = "closeForwards"])
            /\ sftp' = sftp \ {requests[h].session}
            /\ UNCHANGED <<sessions, pumps, connections, forwards, raced>>
        BY <2>8 DEF DropSftp, Closing
      <3>2. \A s \in Ids :
              /\ InClose(s)' <=> InClose(s)
              /\ (D1(s) => D1(s)') /\ (D2(s) => D2(s)')
              /\ s # requests[h].session => (D3(s) => D3(s)')
              /\ D4(s) => D4(s)'
        BY <3>1, <1>1, CloseGoesOn
      <3> QED BY <3>1, <3>2, CleanupKept
    <2>9. CASE DropForwards(h)
      <3>1. /\ Closing(requests[h]) /\ requests[h].op = "closeForwards"
            /\ Continue(h, [requests[h] EXCEPT !.op = "closeSession"])
            /\ forwards' = forwards \ {t \in forwards : t.session = requests[h].session}
            /\ UNCHANGED <<sessions, pumps, connections, sftp, raced>>
        BY <2>9 DEF DropForwards, Cancel, OwnForwards, Closing
      <3>2. \A s \in Ids :
              /\ InClose(s)' <=> InClose(s)
              /\ (D1(s) => D1(s)') /\ (D2(s) => D2(s)') /\ (D3(s) => D3(s)')
              /\ s # requests[h].session => (D4(s) => D4(s)')
        BY <3>1, <1>1, CloseGoesOn
      <3> QED BY <3>1, <3>2, CleanupKept
    <2>10. CASE CloseSession(h)
      <3>1. /\ requests[h].op = "closeSession" /\ Continue(h, Idle)
            /\ sessions' = [sessions EXCEPT ![requests[h].session] = "none"]
            /\ UNCHANGED <<pumps, connections, sftp, forwards, raced>>
        BY <2>10 DEF CloseSession
      <3>2. requests'[h] = Idle /\ \A g \in Handlers \ {h} : requests'[g] = requests[g]
        BY <3>1, <1>1, OthersStay
      <3>3. \A s \in Ids : /\ InClose(s)' => InClose(s)
                          /\ (D1(s) => D1(s)') /\ (D2(s) => D2(s)')
                          /\ (D3(s) => D3(s)') /\ (D4(s) => D4(s)')
        BY <3>1, <3>2, <1>2 DEF InClose, Due
      <3>4. InClose(requests[h].session)
        BY <3>1 DEF InClose, Closing
      <3>5. \A s \in Ids : sessions'[s] = "none" => sessions[s] = "none" \/ InClose(s)
        BY <3>1, <3>4, <1>1
      <3> QED BY <3>1, <3>3, <3>5, CleanupKept
    <2> QED BY <1>3, <2>2, <2>3, <2>4, <2>5, <2>6, <2>7, <2>8, <2>9, <2>10 DEF Handle
  <1>4. ASSUME NEW h \in Handlers, NEW s0 \in Ids, NEW r, Continue(h, r), requests[h] = Idle,
               ~Closing(r), Meets(s0), UNCHANGED <<sessions, pumps, connections, sftp, forwards>>
        PROVE  CleanupIsDue'
    <2>1. \A s \in Ids : s \notin raced' => s \notin raced
      BY <1>4 DEF Meets
    <2>2. \A s \in Ids : InClose(s)' <=> InClose(s)
      BY <1>4, <1>1, <1>2, OutsideCloses
    <2> QED BY <2>1, <2>2, <1>4, <1>1, <1>2, OutsideCloses, CleanupKept
  <1>5. ASSUME NEW h \in Handlers, NEW t \in Tasks, Forward(h, t)
        PROVE  CleanupIsDue'
    <2>1. t.session \in Ids /\ ~Closing([op |-> "bind", session |-> t.session, task |-> t])
      BY DEF Tasks, Closing
    <2> QED BY <2>1, <1>5, <1>4 DEF Forward
  <1>6. ASSUME NEW h \in Handlers, NEW s \in Ids, OpenSftp(h, s)
        PROVE  CleanupIsDue'
    <2>1. ~Closing([op |-> "openSftp", session |-> s])
      BY DEF Closing
    <2> QED BY <2>1, <1>6, <1>4 DEF OpenSftp
  <1>7. ASSUME NEW h \in Handlers, NEW s \in Ids, Close(h, s)
        PROVE  CleanupIsDue'
    <2> DEFINE r == [op |-> "closePump", session |-> s]
    <2>1. requests'[h] = r /\ \A g \in Handlers \ {h} : requests'[g] = requests[g]
      BY <1>7, <1>1, OthersStay DEF Close
    <2>2. /\ requests[h].op = "idle" /\ raced' \in {raced \cup {s}, raced \ {s}}
          /\ UNCHANGED <<sessions, pumps, connections, sftp, forwards>>
      BY <1>7 DEF Close, Idle
    <2>3. r.op = "closePump" /\ r.session = s
      OBVIOUS
    <2> HIDE DEF r
    <2>4. D1(s)' /\ D2(s)' /\ D3(s)' /\ D4(s)'
      BY <2>1, <2>3 DEF Due
    <2>5. \A x \in Ids : /\ (D1(x) => D1(x)') /\ (D2(x) => D2(x)')
                         /\ (D3(x) => D3(x)') /\ (D4(x) => D4(x)')
                         /\ x # s /\ InClose(x)' => InClose(x)
      BY <2>1, <2>2, <2>3 DEF Due, InClose
    <2> SUFFICES ASSUME NEW x \in Ids \ raced', sessions'[x] = "none" \/ InClose(x)'
                 PROVE  /\ x \in pumps' => D1(x)'
                        /\ x \in connections' => D2(x)'
                        /\ x \in sftp' => D3(x)'
                        /\ (\E t \in forwards' : t.session = x) => D4(x)'
      BY DEF CleanupIsDue
    <2>6. CASE x = s
      BY <2>4, <2>6
    <2>7. CASE x # s
      <3>1. x \in Ids \ raced /\ (sessions[x] = "none" \/ InClose(x))
        BY <2>2, <2>5, <2>7
      <3>2. /\ x \in pumps => D1(x)
            /\ x \in connections => D2(x)
            /\ x \in sftp => D3(x)
            /\ (\E t \in forwards : t.session = x) => D4(x)
        BY <3>1 DEF CleanupIsDue
      <3> QED BY <3>2, <2>2, <2>5
    <2> QED BY <2>6, <2>7
  <1>8. CASE \/ \E s \in Ids : ShellExits(s) \/ PumpBreaks(s) \/ CloseSftp(s)
             \/ \E t \in Tasks : StopForward(t) \/ AcceptFails(t) \/ DropTask(t)
             \/ UNCHANGED vars
    <2>1. /\ UNCHANGED <<requests, raced, pumps, connections>>
          /\ sftp' \subseteq sftp /\ forwards' \subseteq forwards
      BY <1>8 DEF ShellExits, PumpBreaks, CloseSftp, StopForward, AcceptFails, DropTask, Cancel, vars
    <2>2. \A x \in Ids : sessions'[x] = "none" => sessions[x] = "none"
      BY <1>8, <1>1
         DEF ShellExits, PumpBreaks, CloseSftp, StopForward, AcceptFails, DropTask, vars
    <2>3. \A x \in Ids : /\ InClose(x)' <=> InClose(x)
                         /\ (D1(x) => D1(x)') /\ (D2(x) => D2(x)')
                         /\ (D3(x) => D3(x)') /\ (D4(x) => D4(x)')
      BY <2>1 DEF InClose, Due
    <2> QED BY <2>1, <2>2, <2>3, CleanupKept
  <1> QED BY <1>3, <1>5, <1>6, <1>7, <1>8 DEF Next

---------------------------------------------------------------------------
(* Theorems.                                                                *)

\* The invariant holds at the beginning, is kept by every step, and so always holds.
LEMMA InitInv == Init => IInv
  <1> SUFFICES ASSUME Init PROVE IInv
    OBVIOUS
  <1>1. \A h \in Handlers : requests[h].op = "idle" /\ requests[h] \in Request
    BY DEF Init, Idle, Request
  <1>2. ~ \E s \in Ids : InClose(s)
    BY <1>1 DEF InClose, Closing
  <1>3. TypeOK
    BY <1>1, BoundAssumption DEF Init, TypeOK, Ids
  <1>4. ListenersAreOwned /\ ClosersAreOld /\ TasksAreOwn /\ UsersAreLive
    BY <1>1 DEF Init, ListenersAreOwned, ClosersAreOld, TasksAreOwn, UsersAreLive, Closing, Using
  <1>5. CleanupIsDue
    BY DEF Init, CleanupIsDue
  <1> QED BY <1>3, <1>4, <1>5 DEF IInv

LEMMA NextInv == IInv /\ [Next]_vars => IInv'
  BY TypeStep, OwnedStep, ClosersStep, TasksStep, UsersStep, CleanupStep DEF IInv

LEMMA Invariance == Spec => []IInv
  BY InitInv, NextInv, PTL DEF Spec

\* isshd's maps for SSH sessions hold sessions that were given out, and an aborted
\* task still holds its address until tokio drops it.
THEOREM TypeCorrect == Spec => []TypeOK
  BY Invariance, PTL DEF IInv

\* However the handlers of several clients interleave, no listener is left that
\* neither ssh_forward_tasks nor tokio's list of aborted tasks knows of.
THEOREM ListenersAlwaysOwned == Spec => []ListenersAreOwned
  BY Invariance, PTL DEF IInv

\* session.close leaves nothing of a session behind, whatever closes go on at once and
\* wherever each is, unless another handler used the session when it began.
THEOREM ClosedStaysGone == Spec => []ClosedIsGone
  <1>1. IInv => ClosedIsGone
    <2> SUFFICES ASSUME IInv, NEW s \in Ids \ raced, sessions[s] = "none", ~InClose(s)
                 PROVE  /\ s \notin pumps /\ s \notin connections /\ s \notin sftp
                        /\ \A t \in forwards : t.session # s
      BY DEF ClosedIsGone
    <2>1. /\ ~Due(s, {"closePump"}) /\ ~Due(s, {"closePump", "closeConnection"})
          /\ ~Due(s, {"closePump", "closeConnection", "closeSftp"})
          /\ ~Due(s, {"closePump", "closeConnection", "closeSftp", "closeForwards"})
      BY DEF InClose, Due, Closing
    <2> QED BY <2>1 DEF IInv, CleanupIsDue
  <1> QED BY <1>1, Invariance, PTL

---------------------------------------------------------------------------
(* VaultStore: its type invariant, MemoryMatchesStored and KeepsAcknowledged. They *)
(* rest on one inductive invariant, VaultInv, which adds to the first two what     *)
(* links the file, the ciphertext and the request under way.                       *)

\* The value of an id that someone was told of, or that a failure may have left.
Known(i, v) == v = acked[i] \/ v \in maybe[i]

\* A write is under way only for an unlocked vault, and leaves the file empty.
WritingHolds ==
    writing => up /\ disk = Torn /\ passphrase # Locked /\ stored # NoFile

\* A store without a vault has nothing acknowledged; the ciphertext has a known
\* value for every id but those the write under way changes.
StoredKnown ==
    up => IF stored = NoFile THEN \A i \in SecretIds : acked[i] = None
          ELSE \A i \in SecretIds : (writing /\ i \in changed) \/ Known(i, stored.secrets[i])

DiskKnown ==
    /\ disk = NoFile => \A i \in SecretIds : acked[i] = None
    /\ disk \in VaultType => \A i \in SecretIds : Known(i, disk.secrets[i])

DownIsLocked == ~up => passphrase = Locked

VaultInv ==
    /\ VaultTypeOK /\ MemoryMatchesStored
    /\ WritingHolds /\ StoredKnown /\ DiskKnown /\ DownIsLocked

---------------------------------------------------------------------------
(* The contents a change leaves.                                            *)

\* A file, one cut short and none at all are three different things.
LEMMA FileKinds ==
    NoFile \notin VaultType /\ Torn \notin VaultType /\ Torn # NoFile
<1>1. \A v \in VaultType : v.kind = "vault"
  BY DEF VaultType, Vault
<1>2. NoFile.kind = "none" /\ Torn.kind = "torn"
  BY DEF NoFile, Torn
<1> QED
  BY <1>1, <1>2

\* The empty vault of create is within the limits.
LEMMA EmptyKept == Empty \in Kept
<1>1. Held(Empty) = {}
  BY DEF Held, Empty
<1>2. Cardinality(Held(Empty)) = 0
  BY <1>1, FS_EmptySet
<1> QED
  BY <1>2, VaultAssumption DEF Kept, Allowed, Contents, Empty, None

\* The ids with a secret are a finite set.
LEMMA HeldFinite ==
    ASSUME NEW s
    PROVE  IsFiniteSet(Held(s)) /\ Cardinality(Held(s)) \in Nat
<1>1. Held(s) \subseteq SecretIds
  BY DEF Held
<1>2. IsFiniteSet(Held(s))
  BY <1>1, FS_Subset, VaultAssumption
<1> QED
  BY <1>2, FS_CardinalityType

\* put_secret on a vault that is not full keeps it within its limits.
LEMMA PutKept ==
    ASSUME NEW s \in Kept, NEW id \in SecretIds, NEW v \in Values,
           v <= MaxSecretBytes, ~Full(s)
    PROVE  [s EXCEPT ![id] = v] \in Kept
<1> DEFINE t == [s EXCEPT ![id] = v]
<1>1. t \in Contents /\ \A i \in SecretIds : t[i] <= MaxSecretBytes
  BY VaultAssumption DEF Kept, Allowed, Contents, Values
<1>2. Held(t) \subseteq Held(s) \cup {id}
  BY DEF Held, Kept, Contents
<1>3. /\ IsFiniteSet(Held(s)) /\ Cardinality(Held(s)) \in Nat
      /\ Cardinality(Held(t)) \in Nat
  BY HeldFinite
<1>4. /\ IsFiniteSet(Held(s) \cup {id})
      /\ \/ Cardinality(Held(s) \cup {id}) = Cardinality(Held(s)) + 1
         \/ Cardinality(Held(s) \cup {id}) = Cardinality(Held(s))
  BY <1>3, FS_AddElement
<1>5. Cardinality(Held(t)) <= Cardinality(Held(s) \cup {id})
  BY <1>2, <1>4, FS_Subset
<1>6. Cardinality(Held(s)) < MaxSecrets
  BY <1>3, VaultAssumption DEF Full
<1>7. Cardinality(Held(t)) <= MaxSecrets
  BY <1>3, <1>4, <1>5, <1>6, VaultAssumption
<1> QED
  BY <1>1, <1>7 DEF Kept, Allowed

\* delete_secret keeps a vault within its limits.
LEMMA DeleteKept ==
    ASSUME NEW s \in Kept, NEW id \in SecretIds
    PROVE  [s EXCEPT ![id] = None] \in Kept
<1> DEFINE t == [s EXCEPT ![id] = None]
<1>1. t \in Contents /\ \A i \in SecretIds : t[i] <= MaxSecretBytes
  BY VaultAssumption DEF Kept, Allowed, Contents, None
<1>2. Held(t) \subseteq Held(s)
  BY DEF Held, Kept, Contents, None
<1>3. /\ IsFiniteSet(Held(s)) /\ Cardinality(Held(s)) \in Nat
      /\ Cardinality(Held(t)) \in Nat
  BY HeldFinite
<1>4. Cardinality(Held(t)) <= Cardinality(Held(s))
  BY <1>2, <1>3, FS_Subset
<1>5. Cardinality(Held(t)) <= MaxSecrets
  BY <1>3, <1>4, VaultAssumption DEF Kept, Allowed
<1> QED
  BY <1>1, <1>5 DEF Kept, Allowed

---------------------------------------------------------------------------
(* The type invariant.                                                      *)

\* What an unlocked store has in memory.
LEMMA UnlockedForm ==
    ASSUME VaultTypeOK, MemoryMatchesStored, passphrase # Locked
    PROVE  /\ cached # Locked
           /\ cached.value \in Kept /\ cached = Open(cached.value)
           /\ passphrase.value \in Passphrases /\ passphrase = Open(passphrase.value)
           /\ stored = Vault(cached.value, passphrase.value)
           /\ stored.secrets = cached.value
  BY DEF VaultTypeOK, MemoryMatchesStored, Unlocked, Open, Locked,
         Vault

\* Every change of the vault, with its write, keeps the types.
LEMMA ChangeType ==
    ASSUME VaultInv, Unlocked, NEW id \in SecretIds, NEW value \in 0..MaxValue,
           [cached.value EXCEPT ![id] = value] \in Kept, ~writing, up,
           Change(id, value)
    PROVE  VaultTypeOK'
<1> DEFINE t == [cached.value EXCEPT ![id] = value]
<1>1. cached' = Open(t) /\ cached'.value = t
  BY DEF Change, Open
<1>2. passphrase.value \in Passphrases
  BY UnlockedForm DEF VaultInv, Unlocked
<1>3. stored' \in VaultType
  BY <1>1, <1>2 DEF Change, VaultType
<1>4. cached' \in {Open(s) : s \in Kept}
  BY <1>1
<1>5. /\ disk' \in {NoFile, Torn} \cup VaultType
      /\ writing' \in BOOLEAN /\ changed' \subseteq SecretIds
  BY DEF Change, Persist, VaultInv, VaultTypeOK
<1>6. acked' \in Contents
  BY DEF Change, Persist, VaultInv, VaultTypeOK
<1>7. t \in Contents
  BY DEF Kept
<1>8. maybe' \in [SecretIds -> SUBSET (0..MaxValue)]
  BY <1>1, <1>7 DEF Change, Persist, VaultInv, VaultTypeOK, Contents
<1> QED
  BY <1>3, <1>4, <1>5, <1>6, <1>8 DEF Change, Persist, VaultInv, VaultTypeOK

\* Every step keeps the types.
LEMMA VaultTypeStep ==
    ASSUME VaultInv, [VaultNext]_vaultVars
    PROVE  VaultTypeOK'
<1> USE VaultAssumption DEF VaultInv
<1>1. ASSUME NEW pass \in Passphrases, Create(pass) PROVE VaultTypeOK'
  <2>1. Empty \in Kept /\ Empty \in Contents
    BY EmptyKept DEF Kept
  <2>2. stored' \in VaultType /\ cached' \in {Open(s) : s \in Kept}
    BY <1>1, <2>1 DEF Create, VaultType
  <2>3. maybe' \in [SecretIds -> SUBSET (0..MaxValue)] /\ acked' \in Contents
    BY <1>1 DEF Create, Persist, VaultTypeOK
  <2> QED
    BY <1>1, <2>2, <2>3 DEF Create, Persist, VaultTypeOK
<1>2. ASSUME NEW pass \in Passphrases, Unlock(pass) PROVE VaultTypeOK'
  <2>1. stored.secrets \in Kept
    BY <1>2 DEF Unlock, VaultTypeOK, VaultType, Vault, NoFile
  <2> QED
    BY <1>2, <2>1 DEF Unlock, VaultTypeOK
<1>3. ASSUME NEW id \in SecretIds, NEW value \in Values, PutSecret(id, value)
      PROVE  VaultTypeOK'
  <2>1. cached.value \in Kept
    BY <1>3, UnlockedForm DEF PutSecret, Unlocked
  <2>2. [cached.value EXCEPT ![id] = value] \in Kept
    BY <1>3, <2>1, PutKept DEF PutSecret
  <2> QED
    BY <1>3, <2>2, ChangeType DEF PutSecret, Ready, Values
<1>4. ASSUME NEW id \in SecretIds, DeleteSecret(id) PROVE VaultTypeOK'
  <2>1. cached.value \in Kept
    BY <1>4, UnlockedForm DEF DeleteSecret, Unlocked
  <2>2. [cached.value EXCEPT ![id] = None] \in Kept /\ None \in 0..MaxValue
    BY <1>4, <2>1, DeleteKept DEF DeleteSecret, None
  <2> QED
    BY <1>4, <2>2, ChangeType DEF DeleteSecret, Ready
<1>5. CASE Disable
  <2>1. acked' \in Contents
    BY <1>5 DEF Disable, Empty, Contents, None
  <2>2. maybe' \in [SecretIds -> SUBSET (0..MaxValue)]
    BY <1>5 DEF Disable, VaultTypeOK, Contents
  <2> QED
    BY <1>5, <2>1, <2>2 DEF Disable, VaultTypeOK
<1>6. CASE Lock
  BY <1>6 DEF Lock, VaultTypeOK
<1>7. CASE Written
  <2>1. cached.value \in Contents /\ stored # NoFile
    BY <1>7, UnlockedForm DEF Written, WritingHolds, Kept
  <2>2. acked' \in Contents /\ maybe' \in [SecretIds -> SUBSET (0..MaxValue)]
    BY <1>7, <2>1 DEF Written, VaultTypeOK, Contents
  <2> QED
    BY <1>7, <2>1, <2>2 DEF Written, VaultTypeOK
<1>8. CASE WriteFails
  <2>1. cached.value \in Contents
    BY <1>8, UnlockedForm DEF WriteFails, WritingHolds, Kept
  <2>2. maybe' \in [SecretIds -> SUBSET (0..MaxValue)]
    BY <1>8, <2>1 DEF WriteFails, VaultTypeOK, Contents
  <2> QED
    BY <1>8, <2>2 DEF WriteFails, VaultTypeOK
<1>9. CASE End
  <2>1. writing => cached.value \in Contents
    BY UnlockedForm DEF WritingHolds, Kept
  <2>2. maybe' \in [SecretIds -> SUBSET (0..MaxValue)]
    BY <1>9, <2>1 DEF End, VaultTypeOK, Contents
  <2> QED
    BY <1>9, <2>2 DEF End, VaultTypeOK
<1>10. CASE Start
  BY <1>10 DEF Start, Readable, VaultTypeOK
<1>11. CASE UNCHANGED vaultVars
  BY <1>11 DEF vaultVars, VaultTypeOK, VaultType, Kept
<1> QED
  BY <1>1, <1>2, <1>3, <1>4, <1>5, <1>6, <1>7, <1>8, <1>9, <1>10, <1>11 DEF VaultNext

---------------------------------------------------------------------------
(* Memory, ciphertext and passphrase.                                        *)

\* A change puts the same contents into memory and into the ciphertext.
LEMMA ChangeMatches ==
    ASSUME VaultInv, Unlocked, NEW id, NEW value, Change(id, value)
    PROVE  MemoryMatchesStored'
<1>1. cached' # Locked /\ passphrase' # Locked
  BY DEF Change, Open, Locked, Unlocked
<1> QED
  BY <1>1 DEF Change, MemoryMatchesStored, Unlocked

\* Every step keeps memory and ciphertext in agreement.
LEMMA MemoryStep == VaultInv /\ [VaultNext]_vaultVars => MemoryMatchesStored'
<1> SUFFICES ASSUME VaultInv, [VaultNext]_vaultVars PROVE MemoryMatchesStored'
  OBVIOUS
<1> USE DEF VaultInv
<1>1. ASSUME NEW pass \in Passphrases, Create(pass) PROVE MemoryMatchesStored'
  BY <1>1 DEF Create, MemoryMatchesStored, Unlocked, Open, Locked,
              Vault
<1>2. ASSUME NEW pass \in Passphrases, Unlock(pass) PROVE MemoryMatchesStored'
  <2>1. stored = Vault(stored.secrets, stored.pass)
    BY <1>2 DEF Unlock, VaultTypeOK, VaultType, Vault, NoFile
  <2> QED
    BY <1>2, <2>1 DEF Unlock, MemoryMatchesStored, Unlocked, Open,
                      Locked
<1>3. ASSUME NEW id \in SecretIds, NEW value \in Values, PutSecret(id, value)
      PROVE  MemoryMatchesStored'
  BY <1>3, ChangeMatches DEF PutSecret
<1>4. ASSUME NEW id \in SecretIds, DeleteSecret(id) PROVE MemoryMatchesStored'
  BY <1>4, ChangeMatches DEF DeleteSecret
<1>5. CASE Disable \/ Lock \/ End
  BY <1>5 DEF Disable, Lock, End, MemoryMatchesStored, Unlocked
<1>6. CASE Written \/ WriteFails
  BY <1>6 DEF Written, WriteFails, MemoryMatchesStored, Unlocked
<1>7. CASE Start
  <2>1. passphrase = Locked
    BY <1>7 DEF Start, DownIsLocked
  <2> QED
    BY <1>7, <2>1 DEF Start, MemoryMatchesStored, Unlocked
<1>8. CASE UNCHANGED vaultVars
  BY <1>8 DEF vaultVars, MemoryMatchesStored, Unlocked
<1> QED
  BY <1>1, <1>2, <1>3, <1>4, <1>5, <1>6, <1>7, <1>8 DEF VaultNext

---------------------------------------------------------------------------
(* What is known of every id.                                                *)

Accounts == WritingHolds /\ StoredKnown /\ DiskKnown /\ DownIsLocked

\* A change that is written, or fails to open the file, is accounted for.
LEMMA ChangeAccounts ==
    ASSUME VaultInv, Unlocked, Ready, NEW id \in SecretIds, NEW value,
           Change(id, value)
    PROVE  Accounts'
<1> DEFINE t == [cached.value EXCEPT ![id] = value]
<1>1. cached' = Open(t) /\ cached'.value = t /\ stored' = Vault(t, passphrase.value)
  BY DEF Change, Open
<1>2. stored' # NoFile /\ stored'.secrets = t
  BY <1>1 DEF Vault, NoFile
<1>3. passphrase # Locked /\ passphrase' = passphrase /\ up /\ up' /\ ~writing
  BY DEF Change, Persist, Unlocked, Ready
<1>4. /\ stored # NoFile /\ stored.secrets = cached.value
      /\ cached.value \in Contents
  BY <1>3, UnlockedForm DEF VaultInv, Vault, NoFile, Kept
<1>5. \A i \in SecretIds : Known(i, cached.value[i])
  BY <1>3, <1>4 DEF VaultInv, StoredKnown
<1>6. \A i \in SecretIds : i # id => t[i] = cached.value[i]
  BY <1>4 DEF Contents
<1>7. changed' = {id}
  BY DEF Change, Persist
<1>8. CASE disk' = Torn /\ writing' = TRUE /\ UNCHANGED <<acked, maybe>>
  <2>0. \A i \in SecretIds : i \in changed' \/ stored'.secrets[i] = acked'[i]
                                      \/ stored'.secrets[i] \in maybe'[i]
    BY <1>2, <1>5, <1>6, <1>7, <1>8 DEF Known
  <2>1. StoredKnown'
    BY <1>2, <1>8, <2>0 DEF StoredKnown, Known
  <2>2. Torn # NoFile /\ Torn \notin VaultType
    BY FileKinds
  <2>3. disk' # NoFile /\ ~(disk' \in VaultType)
    BY <1>8, <2>2
  <2>4. DiskKnown'
    BY <1>8, <2>3 DEF DiskKnown, VaultType, Kept
  <2> QED
    BY <1>2, <1>3, <1>8, <2>1, <2>4 DEF Accounts, WritingHolds, DownIsLocked
<1>9. CASE /\ UNCHANGED <<disk, writing, acked>>
           /\ maybe' = [i \in SecretIds |-> IF i \in {id} THEN maybe[i] \cup {cached'.value[i]}
                                                          ELSE maybe[i]]
  <2>1. \A i \in SecretIds : \A v : Known(i, v) => Known(i, v)'
    BY <1>9 DEF Known
  <2>2. \A i \in SecretIds : stored'.secrets[i] = acked'[i] \/ stored'.secrets[i] \in maybe'[i]
    <3>1. \A i \in SecretIds : t[i] = acked'[i] \/ t[i] \in maybe'[i]
      BY <1>1, <1>5, <1>6, <1>9 DEF Known
    <3> QED
      BY <1>2, <3>1
  <2>3. StoredKnown'
    BY <1>2, <2>2 DEF StoredKnown, Known
  <2>4. DiskKnown'
    BY <1>9, <2>1 DEF DiskKnown, VaultInv, Known, VaultType
  <2> QED
    BY <1>3, <1>9, <2>3, <2>4 DEF Accounts, WritingHolds, DownIsLocked
<1> QED
  BY <1>8, <1>9 DEF Change, Persist

\* Every step keeps account of every secret.
LEMMA AccountsStep == VaultInv /\ [VaultNext]_vaultVars => Accounts'
<1> SUFFICES ASSUME VaultInv, [VaultNext]_vaultVars PROVE Accounts'
  OBVIOUS
<1>a. \A i \in SecretIds : disk = NoFile => acked[i] = None
  BY DEF VaultInv, DiskKnown
<1>b. disk \in VaultType => \A i \in SecretIds : Known(i, disk.secrets[i])
  BY DEF VaultInv, DiskKnown
<1>c. /\ NoFile \notin VaultType /\ Torn \notin VaultType
      /\ Torn # NoFile
  BY FileKinds
<1>1. ASSUME NEW pass \in Passphrases, Create(pass) PROVE Accounts'
  <2>1. \A i \in SecretIds : acked[i] = None /\ acked'[i] = None /\ ~writing /\ up
    BY <1>1 DEF Create, Persist, Ready, VaultInv, StoredKnown
  <2>2. stored' # NoFile /\ \A i \in SecretIds : stored'.secrets[i] = None
    BY <1>1 DEF Create, Vault, NoFile, Empty
  <2>3. StoredKnown'
    BY <2>1, <2>2 DEF StoredKnown, Known
  <2>4. \/ disk' = Torn
        \/ disk' = disk /\ acked' = acked /\ \A i \in SecretIds : maybe'[i] = maybe[i]
    BY <1>1 DEF Create, Persist
  <2>5. DiskKnown'
    BY <2>4, <1>a, <1>b, <1>c DEF DiskKnown, Known, VaultType, Kept
  <2>6. (WritingHolds /\ DownIsLocked)'
    BY <1>1, <2>2 DEF Create, Persist, Ready, WritingHolds, DownIsLocked,
                      Open, Locked
  <2> QED
    BY <2>3, <2>5, <2>6 DEF Accounts
<1>2. CASE Lock \/ (\E pass \in Passphrases : Unlock(pass)) \/ UNCHANGED vaultVars
  <2>1. /\ UNCHANGED <<up, disk, stored, writing, changed, acked, maybe>>
        /\ writing => passphrase' = passphrase
        /\ ~up => passphrase' = passphrase \/ passphrase' = Locked
    BY <1>2 DEF Lock, Unlock, Ready, vaultVars
  <2>2. (StoredKnown /\ DiskKnown)'
    BY <2>1 DEF VaultInv, StoredKnown, DiskKnown, Known, VaultType, Kept
  <2>3. (WritingHolds /\ DownIsLocked)'
    BY <2>1 DEF VaultInv, WritingHolds, DownIsLocked
  <2> QED
    BY <2>2, <2>3 DEF Accounts
<1>3. ASSUME NEW id \in SecretIds, NEW value \in Values, PutSecret(id, value)
      PROVE  Accounts'
  BY <1>3, ChangeAccounts DEF PutSecret
<1>4. ASSUME NEW id \in SecretIds, DeleteSecret(id) PROVE Accounts'
  BY <1>4, ChangeAccounts DEF DeleteSecret
<1>5. CASE Disable
  <2>1. stored' = NoFile /\ up' /\ ~writing' /\ \A i \in SecretIds : acked'[i] = None
    BY <1>5 DEF Disable, Ready, Empty
  <2>2. \/ disk' = NoFile
        \/ /\ disk' = disk
           /\ \A i \in SecretIds : maybe'[i] = maybe[i] \cup ({acked[i]} \ {None})
    BY <1>5 DEF Disable
  <2>3. disk' \in VaultType =>
           \A i \in SecretIds : disk'.secrets[i] = acked'[i] \/ disk'.secrets[i] \in maybe'[i]
    BY <2>1, <2>2, <1>b, <1>c DEF Known
  <2> QED
    BY <2>1, <2>3 DEF Accounts, StoredKnown, DiskKnown, WritingHolds, DownIsLocked, Known,
                      VaultType, Kept
<1>6. CASE Written
  <2>1. passphrase # Locked /\ stored # NoFile /\ stored.secrets = cached.value
    BY <1>6, UnlockedForm DEF Written, VaultInv, WritingHolds
  <2>2. \A i \in SecretIds : i \in changed \/ Known(i, cached.value[i])
    BY <1>6, <2>1 DEF Written, VaultInv, StoredKnown
  <2>3. \A i \in SecretIds : /\ i \in changed => acked'[i] = cached.value[i]
                             /\ i \notin changed => acked'[i] = acked[i] /\ maybe'[i] = maybe[i]
    BY <1>6 DEF Written
  <2>4. \A i \in SecretIds : stored.secrets[i] = acked'[i] \/ stored.secrets[i] \in maybe'[i]
    BY <2>1, <2>2, <2>3 DEF Known
  <2>5. disk' = stored /\ stored' = stored /\ up' /\ ~writing'
    BY <1>6 DEF Written
  <2> QED
    BY <2>1, <2>4, <2>5 DEF Accounts, StoredKnown, DiskKnown, WritingHolds, DownIsLocked, Known,
                            VaultType, Kept
<1>7. CASE WriteFails
  <2>1. /\ passphrase # Locked /\ stored # NoFile /\ stored.secrets = cached.value
        /\ disk = Torn
    BY <1>7, UnlockedForm DEF WriteFails, VaultInv, WritingHolds
  <2>2. \A i \in SecretIds : i \in changed \/ Known(i, cached.value[i])
    BY <1>7, <2>1 DEF WriteFails, VaultInv, StoredKnown
  <2>3. \A i \in SecretIds : /\ acked'[i] = acked[i]
                             /\ i \in changed => maybe'[i] = maybe[i] \cup {cached.value[i]}
                             /\ i \notin changed => maybe'[i] = maybe[i]
    BY <1>7 DEF WriteFails
  <2>4. \A i \in SecretIds : stored.secrets[i] = acked'[i] \/ stored.secrets[i] \in maybe'[i]
    BY <2>1, <2>2, <2>3 DEF Known
  <2>5. disk' = disk /\ stored' = stored /\ up' /\ ~writing'
    BY <1>7 DEF WriteFails
  <2>6. disk' # NoFile /\ disk' \notin VaultType
    BY <2>1, <2>5, <1>c
  <2> QED
    BY <2>1, <2>4, <2>5, <2>6 DEF Accounts, StoredKnown, DiskKnown, WritingHolds, DownIsLocked,
                                  Known, VaultType, Kept
<1>8. CASE End
  <2>1. disk' = disk /\ acked' = acked /\ ~up' /\ ~writing' /\ passphrase' = Locked
    BY <1>8 DEF End
  <2>2. \A i \in SecretIds : maybe[i] \subseteq maybe'[i]
    BY <1>8 DEF End
  <2> QED
    BY <2>1, <2>2, <1>a, <1>b DEF Accounts, StoredKnown, DiskKnown, WritingHolds, DownIsLocked,
                                  Known, VaultType, Kept
<1>9. CASE Start
  <2>1. /\ stored' = disk /\ up' /\ disk # Torn
        /\ UNCHANGED <<disk, passphrase, writing, changed, acked, maybe>>
    BY <1>9 DEF Start, Readable
  <2>2. ~writing /\ disk \in {NoFile} \cup VaultType
    BY <1>9, <2>1 DEF Start, VaultInv, WritingHolds, VaultTypeOK
  <2> QED
    BY <2>1, <2>2, <1>a, <1>b, <1>c DEF Accounts, StoredKnown, DiskKnown, WritingHolds,
                                        DownIsLocked, Known, VaultType, Kept
<1> QED
  BY <1>1, <1>2, <1>3, <1>4, <1>5, <1>6, <1>7, <1>8, <1>9 DEF VaultNext

---------------------------------------------------------------------------
(* The theorems.                                                             *)

\* The same for the vault.
LEMMA VaultInitInv == ASSUME VaultInit PROVE VaultInv
<1>1. Empty \in Contents
  BY VaultAssumption DEF Empty, Contents, None
<1>2. VaultTypeOK
  BY <1>1 DEF VaultInit, VaultTypeOK
<1>3. NoFile \notin VaultType
  BY FileKinds
<1> QED
  BY <1>2, <1>3 DEF VaultInit, VaultInv, MemoryMatchesStored, Unlocked, WritingHolds,
                    StoredKnown, DiskKnown, DownIsLocked, Known, Empty

LEMMA VaultStepInv == ASSUME VaultInv, [VaultNext]_vaultVars PROVE VaultInv'
  BY VaultTypeStep, MemoryStep, AccountsStep DEF VaultInv, Accounts

\* The invariant the theorems rest on.
LEMMA VaultInvariant == VaultSpec => []VaultInv
<1>1. VaultInit => VaultInv
  BY VaultInitInv
<1>2. VaultInv /\ [VaultNext]_vaultVars => VaultInv'
  BY VaultStepInv
<1> QED
  BY <1>1, <1>2, PTL DEF VaultSpec

\* The vault is always well typed, with no more secrets than MAX_VAULT_SECRETS and
\* none over MAX_VAULT_SECRET_BYTES (put_secret), for all limits.
THEOREM VaultTypeCorrect == VaultSpec => []VaultTypeOK
<1>1. VaultInv => VaultTypeOK
  BY DEF VaultInv
<1> QED
  BY <1>1, VaultInvariant, PTL

\* An unlocked vault in memory is always what its ciphertext decrypts to with the
\* passphrase in memory, after failed writes too (unlock, create, put, delete).
THEOREM MemoryAlwaysMatches == VaultSpec => []MemoryMatchesStored
<1>1. VaultInv => MemoryMatchesStored
  BY DEF VaultInv
<1> QED
  BY <1>1, VaultInvariant, PTL

\* The file and the memory always hold, for every id, the last value that was
\* acknowledged or one that a change that failed left behind (persist, set_enabled).
THEOREM AcknowledgedIsKept == VaultSpec => []KeepsAcknowledged
<1>1. VaultInv => KeepsAcknowledged
  <2> SUFFICES ASSUME VaultInv, NEW i \in SecretIds
               PROVE  /\ disk = NoFile => acked[i] = None
                      /\ disk.kind = "vault" => Known(i, disk.secrets[i])
                      /\ Unlocked /\ ~writing => Known(i, cached.value[i])
    BY DEF KeepsAcknowledged, Known
  <2>1. disk.kind = "vault" => disk \in VaultType
    BY DEF VaultInv, VaultTypeOK, NoFile, Torn
  <2>2. ASSUME Unlocked, ~writing PROVE Known(i, cached.value[i])
    <3>1. stored # NoFile /\ stored.secrets = cached.value
      BY <2>2, UnlockedForm DEF VaultInv, Unlocked, Vault, NoFile
    <3> QED
      BY <2>2, <3>1 DEF VaultInv, StoredKnown, DownIsLocked, Unlocked
  <2> QED
    BY <2>1, <2>2 DEF VaultInv, DiskKnown
<1> QED
  BY <1>1, VaultInvariant, PTL

=============================================================================
