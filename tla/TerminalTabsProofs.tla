-------------------------- MODULE TerminalTabsProofs --------------------------
(* Proofs about TerminalTabs, for any tabs, sessions and starts of isshd: its    *)
(* type invariant, that input and closes stay with the sessions of their tab,   *)
(* and that no session is forgotten but for the reasons NoOtherLeak names.      *)
EXTENDS TerminalTabs, TLAPS

SessionType == {Gone} \cup [life: Lives, state: {"running", "exited"}]
OpeningType == [stage: {"opening"}, session: Ids, since: 1..MaxStarts]
MountedType == [stage: {"open", "closed"}, session: Ids, bound: Ids, since: 1..MaxStarts]
TabType == {NoTab} \cup OpeningType \cup MountedType
AskedType == [stage: {"asked"}, session: Ids]
AnswerType == [stage: {"answered"}, session: Ids, state: {"running", "exited"}]
PollType == {Idle} \cup AskedType \cup AnswerType
BeforeType == [stage: {"closing", "opening"}, tab: Tabs, session: Ids]
AfterType == [stage: {"opened"}, tab: Tabs, session: Ids, since: 1..MaxStarts]
ReconnectType == {Idle} \cup BeforeType \cup AfterType

\* TypeOK in terms of these; an id without a session has no life either.
TypeInv ==
    /\ starts \in 1..MaxStarts /\ lives \in 0..MaxLives /\ nextId \in 1..(lives + 1)
    /\ sessions \in [Ids -> SessionType]
    /\ tabs \in [Tabs -> TabType]
    /\ polls \in [Tabs -> PollType]
    /\ reconnect \in ReconnectType
    /\ closes \subseteq [tab: Tabs, session: Ids]
    /\ typed \in {Idle} \cup [tab: Tabs, life: Lives]
    /\ given \in [Tabs -> SUBSET Lives]
    /\ leaked \subseteq Lives

Mounted(t) == tabs[t].stage \in {"open", "closed"}

\* As long as the isshd that opened the tab lives, id was given out, and the session
\* it stands for, if there is one, was opened for the tab.
Owns(t, id) == tabs[t].since = starts => id < nextId /\ sessions[id].life \in given[t] \cup {0}

\* The ids that a tab and its requests hold.
Refs(t) ==
    {id \in Ids :
        \/ tabs[t] # NoTab /\ id = tabs[t].session
        \/ Mounted(t) /\ id = tabs[t].bound
        \/ polls[t] # Idle /\ id = polls[t].session
        \/ [tab |-> t, session |-> id] \in closes
        \/ reconnect # Idle /\ reconnect.tab = t /\ reconnect.session = id}

RefsAreOwn ==
    \A t \in Tabs : tabs[t] # NoTab => tabs[t].since <= starts /\ \A id \in Refs(t) : Owns(t, id)

\* Only a tab that was mounted asks for anything.
MountedFirst ==
    \A t \in Tabs :
        \/ polls[t] # Idle
        \/ \E c \in closes : c.tab = t
        \/ reconnect # Idle /\ reconnect.tab = t
        \/ typed # Idle /\ typed.tab = t
        => Mounted(t)

\* An open tab answers for its session; the tab that reconnects no longer does once
\* the old session was closed, nor for one that a late answer has put into it.
Shows(t, id) ==
    /\ Open(t) /\ tabs[t].session = id
    /\ reconnect # Idle /\ reconnect.tab = t =>
          reconnect.stage = "closing" /\ reconnect.session = id

\* Who answers for id now: an open counts only for the isshd that it was made by.
Answered(id) ==
    \/ \E t \in Tabs :
          \/ Shows(t, id)
          \/ tabs[t].stage = "opening" /\ tabs[t].session = id /\ tabs[t].since = starts
    \/ \E c \in closes : c.session = id
    \/ reconnect.stage = "opened" /\ reconnect.session = id /\ reconnect.since = starts

NoneForgotten == \A id \in Ids : Alive(id) => Answered(id) \/ sessions[id].life \in leaked

IInv == TypeInv /\ InputStaysHome /\ MountedFirst /\ RefsAreOwn /\ NoneForgotten

---------------------------------------------------------------------------
(* Types.                                                                   *)

\* The forms of the records, by their stage.
LEMMA Forms ==
    ASSUME TypeInv
    PROVE  /\ \A t \in Tabs :
                 /\ tabs[t] \in TabType
                 /\ tabs[t] = NoTab <=> tabs[t].stage = "new"
                 /\ tabs[t].stage \in {"new", "opening", "open", "closed"}
                 /\ tabs[t].stage = "opening" => tabs[t] \in OpeningType
                 /\ Mounted(t) => tabs[t] \in MountedType
                 /\ tabs[t] # NoTab => tabs[t].session \in Ids /\ tabs[t].since \in 1..MaxStarts
                 /\ Mounted(t) => tabs[t].bound \in Ids
           /\ \A t \in Tabs :
                 /\ polls[t] = Idle <=> polls[t].stage = "idle"
                 /\ polls[t] # Idle => polls[t].session \in Ids
                 /\ polls[t].stage = "asked" => polls[t] \in AskedType
                 /\ polls[t].stage = "answered" =>
                       polls[t] \in AnswerType /\ polls[t].state \in {"running", "exited"}
           /\ reconnect = Idle <=> reconnect.stage = "idle"
           /\ reconnect # Idle => reconnect.tab \in Tabs /\ reconnect.session \in Ids
           /\ reconnect.stage \in {"idle", "closing", "opening", "opened"}
           /\ reconnect.stage \in {"closing", "opening"} => reconnect \in BeforeType
           /\ reconnect.stage = "opened" => reconnect \in AfterType
  BY DEF TypeInv, TabType, OpeningType, MountedType, PollType, AskedType, AnswerType,
         ReconnectType, BeforeType, AfterType, NoTab, Idle, Mounted

\* What a session is, by its life.
LEMMA SessionForms ==
    ASSUME TypeInv, NEW id \in Ids
    PROVE  /\ sessions[id] \in SessionType
           /\ sessions[id].life \in 0..MaxLives
           /\ sessions[id].life = 0 <=> sessions[id] = Gone
           /\ sessions[id].state \in {"running", "exited"} <=> sessions[id] # Gone
           /\ sessions[id] # Gone => sessions[id].life \in Lives
  BY BoundAssumption DEF TypeInv, SessionType, Gone, Lives

\* A new session has a new life and a free id.
LEMMA NewSessionType ==
    ASSUME TypeInv, NEW t \in Tabs, NewSession(t)
    PROVE  /\ nextId \in Ids /\ lives + 1 \in Lives
           /\ lives' \in 0..MaxLives /\ nextId' \in 1..(lives' + 1)
           /\ sessions' \in [Ids -> SessionType]
           /\ given' \in [Tabs -> SUBSET Lives]
<1>1. nextId \in Ids /\ lives + 1 \in Lives /\ lives' \in 0..MaxLives /\ nextId' \in 1..(lives' + 1)
  BY BoundAssumption DEF TypeInv, NewSession, Ids, Lives
<1>2. [life |-> lives + 1, state |-> "running"] \in SessionType
  BY <1>1 DEF SessionType
<1> QED
  BY <1>1, <1>2 DEF TypeInv, NewSession

\* The session of an open that the window gave up on.
LEMMA LostType ==
    ASSUME TypeInv, NEW open, open.session \in Ids
    PROVE  Lost(open) \subseteq Lives
  BY SessionForms DEF Lost, TypeInv, Lives

\* Every step keeps the types.
LEMMA TypeStep == TypeInv /\ [Next]_vars => TypeInv'
<1> SUFFICES ASSUME TypeInv, [Next]_vars PROVE TypeInv'
  OBVIOUS
<1> USE BoundAssumption
<1>a. /\ starts \in 1..MaxStarts /\ lives \in 0..MaxLives /\ nextId \in 1..(lives + 1)
      /\ sessions \in [Ids -> SessionType] /\ tabs \in [Tabs -> TabType]
      /\ polls \in [Tabs -> PollType] /\ reconnect \in ReconnectType
      /\ closes \subseteq [tab: Tabs, session: Ids] /\ typed \in {Idle} \cup [tab: Tabs, life: Lives]
      /\ given \in [Tabs -> SUBSET Lives] /\ leaked \subseteq Lives
  BY DEF TypeInv
<1>b. Idle \in PollType /\ Idle \in ReconnectType /\ NoTab \in TabType
  BY DEF PollType, ReconnectType, TabType
<1>0. CASE UNCHANGED vars
  BY <1>0, <1>a DEF vars, TypeInv
<1>1. ASSUME NEW id \in Ids, ShellExits(id) PROVE TypeInv'
  <2>1. [sessions[id] EXCEPT !.state = "exited"] \in SessionType
    BY <1>1, <1>a DEF ShellExits, SessionType, Gone
  <2>2. sessions' \in [Ids -> SessionType]
    BY <1>1, <1>a, <2>1 DEF ShellExits
  <2> QED
    BY <1>1, <1>a, <2>2 DEF ShellExits, TypeInv
<1>2. CASE Restart
  <2>1. starts' \in 1..MaxStarts /\ nextId' \in 1..(lives' + 1) /\ lives' \in 0..MaxLives
    BY <1>2, <1>a DEF Restart
  <2>2. sessions' \in [Ids -> SessionType]
    BY <1>2 DEF Restart, SessionType
  <2> QED
    BY <1>2, <1>a, <2>1, <2>2 DEF Restart, TypeInv
<1>3. ASSUME NEW t \in Tabs, OpenTab(t) PROVE TypeInv'
  <2>1. nextId \in Ids /\ lives' \in 0..MaxLives /\ nextId' \in 1..(lives' + 1)
        /\ sessions' \in [Ids -> SessionType] /\ given' \in [Tabs -> SUBSET Lives]
    BY <1>3, NewSessionType DEF OpenTab
  <2>2. [stage |-> "opening", session |-> nextId, since |-> starts] \in TabType
    BY <1>a, <2>1 DEF TabType, OpeningType
  <2>3. tabs' \in [Tabs -> TabType]
    BY <1>3, <1>a, <2>2 DEF OpenTab
  <2> QED
    BY <1>3, <1>a, <2>1, <2>3 DEF OpenTab, TypeInv
<1>4. ASSUME NEW t \in Tabs, TabOpened(t) PROVE TypeInv'
  <2>1. tabs[t].session \in Ids /\ tabs[t].since \in 1..MaxStarts
    BY <1>4, Forms DEF TabOpened, NoTab
  <2>2. [ stage |-> "open", session |-> tabs[t].session,
          bound |-> tabs[t].session, since |-> tabs[t].since ] \in TabType
    BY <2>1 DEF TabType, MountedType
  <2>3. tabs' \in [Tabs -> TabType]
    BY <1>4, <1>a, <2>2 DEF TabOpened
  <2> QED
    BY <1>4, <1>a, <2>3 DEF TabOpened, TypeInv
<1>5. ASSUME NEW t \in Tabs, OpenGivenUp(t) PROVE TypeInv'
  <2>1. tabs' \in [Tabs -> TabType] /\ given' \in [Tabs -> SUBSET Lives]
    BY <1>5, <1>a, <1>b DEF OpenGivenUp
  <2>2. tabs[t].session \in Ids
    BY <1>5, Forms DEF OpenGivenUp, NoTab
  <2>3. leaked' \subseteq Lives
    BY <1>5, <1>a, <2>2, LostType DEF OpenGivenUp
  <2> QED
    BY <1>5, <1>a, <2>1, <2>3 DEF OpenGivenUp, TypeInv
<1>6. ASSUME NEW t \in Tabs, CloseTab(t) PROVE TypeInv'
  <2>1. \A u \in Removed(t) : [tabs[u] EXCEPT !.stage = "closed"] \in TabType
    BY <1>a, Forms DEF Removed, Open, Mounted, TabType, MountedType
  <2>2. tabs' \in [Tabs -> TabType]
    BY <1>6, <1>a, <2>1 DEF CloseTab
  <2>3. [tab |-> t, session |-> tabs[t].session] \in [tab: Tabs, session: Ids]
    BY <1>6, Forms DEF CloseTab, Open, NoTab
  <2> QED
    BY <1>6, <1>a, <2>2, <2>3 DEF CloseTab, CloseSent, TypeInv
<1>7. ASSUME NEW t \in Tabs, Reconnect(t) PROVE TypeInv'
  <2>1. tabs[t].session \in Ids
    BY <1>7, Forms DEF Reconnect, Open, NoTab
  <2>2. reconnect' \in ReconnectType
    BY <1>7, <2>1 DEF Reconnect, ReconnectType, BeforeType
  <2> QED
    BY <1>7, <1>a, <2>2 DEF Reconnect, TypeInv
<1>8. ASSUME NEW t \in Tabs, Poll(t) \/ Subscribe(t) \/ Resize(t) \/ PollFails(t)
      PROVE  TypeInv'
  <2>1. /\ Open(t) => tabs[t].session \in Ids /\ tabs[t].bound \in Ids
        /\ polls[t].stage = "asked" => polls[t].session \in Ids
    BY Forms DEF Open, NoTab, Mounted, Idle
  <2>2. CASE Poll(t)
    <3>1. [stage |-> "asked", session |-> tabs[t].session] \in PollType
      BY <2>1, <2>2 DEF Poll, PollType, AskedType
    <3>2. polls' \in [Tabs -> PollType]
      BY <2>2, <1>a, <3>1 DEF Poll
    <3> QED
      BY <2>2, <1>a, <3>2 DEF Poll, TypeInv
  <2>3. CASE Subscribe(t)
    <3>1. sessions[polls[t].session].state \in {"running", "exited"}
      BY <2>1, <2>3, SessionForms DEF Subscribe, Alive
    <3>2. [ stage |-> "answered", session |-> polls[t].session,
            state |-> sessions[polls[t].session].state ] \in PollType
      BY <2>1, <2>3, <3>1 DEF Subscribe, PollType, AnswerType
    <3>3. polls' \in [Tabs -> PollType]
      BY <2>3, <1>a, <3>2 DEF Subscribe
    <3> QED
      BY <2>3, <1>a, <3>3 DEF Subscribe, TypeInv
  <2>4. CASE Resize(t)
    <3>1. [stage |-> "answered", session |-> tabs[t].bound, state |-> "running"] \in PollType
      BY <2>1, <2>4 DEF Resize, PollType, AnswerType
    <3>2. polls' \in [Tabs -> PollType]
      BY <2>4, <1>a, <3>1 DEF Resize
    <3> QED
      BY <2>4, <1>a, <3>2 DEF Resize, TypeInv
  <2>5. CASE PollFails(t)
    BY <2>5, <1>a, <1>b DEF PollFails, TypeInv
  <2> QED
    BY <1>8, <2>2, <2>3, <2>4, <2>5
<1>9. ASSUME NEW t \in Tabs, Shown(t) PROVE TypeInv'
  <2>1. polls[t].session \in Ids
    BY <1>9, Forms DEF Shown, Idle
  <2>2. \A u \in Tabs : tabs[u].stage = "open" =>
           /\ [tabs[u] EXCEPT !.stage = "closed"] \in TabType
           /\ \A stage \in {"open", "closed"} :
                 [tabs[u] EXCEPT !.session = polls[t].session, !.stage = stage] \in TabType
    BY ZenonT(40), <1>a, <2>1, Forms DEF Mounted, TabType, MountedType
  <2>3. tabs' \in [Tabs -> TabType]
    BY <1>9, <1>a, <2>2 DEF Shown, Open
  <2>4. polls' \in [Tabs -> PollType]
    BY <1>9, <1>a, <1>b DEF Shown
  <2>5. closes' \subseteq [tab: Tabs, session: Ids]
    BY <1>9, <1>a, <2>1 DEF Shown
  <2>6. leaked' \subseteq Lives
    <3>1. Open(t) => tabs[t].session \in Ids
      BY Forms DEF Open, NoTab
    <3>2. Open(t) => {sessions[tabs[t].session].life} \ {0} \subseteq Lives
      BY <3>1, SessionForms
    <3> QED
      BY <1>9, <1>a, <3>2 DEF Shown
  <2> QED
    BY <1>9, <1>a, <2>3, <2>4, <2>5, <2>6 DEF Shown, TypeInv
<1>10. ASSUME NEW t \in Tabs, Type(t) PROVE TypeInv'
  <2>1. tabs[t].bound \in Ids
    BY <1>10, Forms DEF Type, Open, Mounted
  <2>2. sessions[Target(t)].life \in Lives
    BY <1>10, <2>1, SessionForms DEF Type, Target
  <2>3. typed' \in {Idle} \cup [tab: Tabs, life: Lives]
    BY <1>10, <2>2 DEF Type
  <2> QED
    BY <1>10, <1>a, <2>3 DEF Type, TypeInv
<1>11. ASSUME NEW c \in closes, CloseArrives(c) \/ CloseLost(c) PROVE TypeInv'
  <2>1. c.session \in Ids
    BY <1>a
  <2>2. CASE CloseArrives(c)
    BY <2>2, <1>a DEF CloseArrives, TypeInv, SessionType
  <2>3. CASE CloseLost(c)
    <3>1. {sessions[c.session].life} \ {0} \subseteq Lives
      BY <2>1, SessionForms
    <3> QED
      BY <2>3, <1>a, <3>1 DEF CloseLost, TypeInv
  <2> QED
    BY <1>11, <2>2, <2>3
<1>12. CASE OldClosed
  <2>1. reconnect \in BeforeType /\ reconnect.session \in Ids
    BY <1>12, Forms DEF OldClosed, Idle
  <2>2. reconnect' \in ReconnectType
    BY <1>12, <2>1 DEF OldClosed, ReconnectType, BeforeType
  <2>3. {sessions[reconnect.session].life} \ {0} \subseteq Lives
    BY <2>1, SessionForms
  <2>4. sessions' \in [Ids -> SessionType] /\ leaked' \subseteq Lives
    BY <1>12, <1>a, <2>3 DEF OldClosed, SessionType
  <2> QED
    BY <1>12, <1>a, <2>2, <2>4 DEF OldClosed, TypeInv
<1>13. CASE NewOpened
  <2>1. reconnect.tab \in Tabs
    BY <1>13, Forms DEF NewOpened, Idle
  <2>2. nextId \in Ids /\ lives' \in 0..MaxLives /\ nextId' \in 1..(lives' + 1)
        /\ sessions' \in [Ids -> SessionType] /\ given' \in [Tabs -> SUBSET Lives]
    BY <1>13, <2>1, NewSessionType DEF NewOpened
  <2>3. reconnect' \in ReconnectType
    BY <1>13, <1>a, <2>1, <2>2 DEF NewOpened, ReconnectType, AfterType
  <2> QED
    BY <1>13, <1>a, <2>2, <2>3 DEF NewOpened, TypeInv
<1>14. CASE NewFails
  <2>1. reconnect.stage = "opened" => reconnect.session \in Ids
    BY Forms DEF Idle
  <2>2. leaked' \subseteq Lives
    BY <1>14, <1>a, <2>1, LostType DEF NewFails
  <2> QED
    BY <1>14, <1>a, <1>b, <2>2 DEF NewFails, TypeInv
<1>15. CASE Reconnected
  <2> DEFINE t == reconnect.tab
  <2>1. t \in Tabs /\ reconnect.session \in Ids
    BY <1>15, Forms DEF Reconnected, Idle
  <2>2. [tabs[t] EXCEPT !.session = reconnect.session] \in TabType
    BY <1>a, <2>1 DEF TabType, OpeningType, MountedType, NoTab
  <2>3. tabs' \in [Tabs -> TabType]
    BY <1>15, <1>a, <2>1, <2>2 DEF Reconnected, Update
  <2>4. leaked' \subseteq Lives
    BY <1>15, <1>a, <2>1, LostType DEF Reconnected
  <2> QED
    BY <1>15, <1>a, <1>b, <2>3, <2>4 DEF Reconnected, TypeInv
<1> QED
  BY <1>0, <1>1, <1>2, <1>3, <1>4, <1>5, <1>6, <1>7, <1>8, <1>9, <1>10, <1>11, <1>12, <1>13, <1>14,
     <1>15 DEF Next

---------------------------------------------------------------------------
(* What a step does to the ids a tab holds.                                 *)

\* isshd goes on: it takes no id back, gives none out again, and what was opened for
\* the tab stays so.
GoesOn(t) ==
    /\ starts' = starts /\ nextId <= nextId' /\ given[t] \subseteq given'[t]
    /\ \A id \in Ids : id < nextId => sessions'[id].life \in {sessions[id].life, 0}

\* A tab comes with a new session; after that it keeps the start it is from, and gets
\* no id but its own and those of new sessions.
TabStep(t) ==
    /\ tabs[t] = NoTab /\ tabs'[t] # NoTab =>
          /\ NewSession(t) /\ starts' = starts /\ tabs'[t].since = starts
          /\ \A id \in Refs(t)' : id = nextId
    /\ tabs[t] # NoTab /\ tabs'[t] # NoTab =>
          /\ tabs'[t].since = tabs[t].since
          /\ starts' = starts + 1 \/ GoesOn(t)
          /\ \A id \in Refs(t)' : id \in Refs(t) \/ (NewSession(t) /\ starts' = starts /\ id = nextId)
    /\ Mounted(t) => Mounted(t)'

\* Opening a session takes no id back from any tab,
LEMMA NewSessionGoesOn ==
    ASSUME TypeInv, NEW t \in Tabs, NewSession(t), starts' = starts
    PROVE  \A u \in Tabs : GoesOn(u)
<1>1. nextId \in Ids
  BY NewSessionType
<1>2. \A id \in Ids : id < nextId => sessions'[id] = sessions[id]
  BY <1>1, BoundAssumption DEF NewSession, TypeInv, Ids
<1>3. \A u \in Tabs : given[u] \subseteq given'[u]
  BY DEF NewSession, TypeInv
<1> QED
  BY <1>1, <1>2, <1>3, BoundAssumption DEF NewSession, GoesOn, TypeInv, Ids

\* nor does a step that leaves the sessions alone.
LEMMA QuietGoesOn ==
    ASSUME TypeInv, UNCHANGED <<starts, nextId, sessions, given>>
    PROVE  \A u \in Tabs : GoesOn(u)
  BY BoundAssumption DEF GoesOn, TypeInv

\* Every step moves the tabs, polls and closes in the ways of TabStep only.
LEMMA Moves ==
    ASSUME TypeInv, TypeInv', MountedFirst, Next
    PROVE  MountedFirst' /\ \A u \in Tabs : TabStep(u)
<1> USE BoundAssumption
<1>1. ASSUME NEW id \in Ids, ShellExits(id) PROVE MountedFirst' /\ \A u \in Tabs : TabStep(u)
  <2>1. \A u \in Tabs : GoesOn(u)
    BY <1>1 DEF ShellExits, GoesOn, TypeInv, SessionType, Gone
  <2> QED
    BY <1>1, <2>1 DEF ShellExits, MountedFirst, TabStep, Refs, Mounted
<1>2. CASE Restart
  BY <1>2 DEF Restart, MountedFirst, TabStep, Refs, Mounted
<1>3. ASSUME NEW t \in Tabs, OpenTab(t) PROVE MountedFirst' /\ \A u \in Tabs : TabStep(u)
  <2>1. \A u \in Tabs : GoesOn(u)
    BY <1>3, NewSessionGoesOn DEF OpenTab
  <2>2. ~Mounted(t) /\ tabs'[t].since = starts /\ tabs'[t].session = nextId
        /\ tabs'[t].stage = "opening" /\ starts' = starts /\ NewSession(t)
    BY <1>3, Forms DEF OpenTab, Mounted, TypeInv
  <2>3. \A u \in Tabs \ {t} : tabs'[u] = tabs[u]
    BY <1>3 DEF OpenTab, TypeInv
  <2>4. polls[t] = Idle /\ (\A c \in closes : c.tab # t) /\ (reconnect = Idle \/ reconnect.tab # t)
    BY <2>2 DEF MountedFirst
  <2>5. MountedFirst'
    BY <1>3, <2>2, <2>3 DEF OpenTab, MountedFirst, Mounted
  <2>6. \A id \in Refs(t)' : id = nextId
    BY <1>3, <2>2, <2>4 DEF OpenTab, Refs, Mounted
  <2>7. \A u \in Tabs \ {t} : TabStep(u)
    BY <1>3, <2>1, <2>3 DEF OpenTab, TabStep, Refs, Mounted
  <2> QED
    BY <1>3, <2>2, <2>5, <2>6, <2>7 DEF OpenTab, TabStep, Refs
<1>4. ASSUME NEW t \in Tabs, TabOpened(t) PROVE MountedFirst' /\ \A u \in Tabs : TabStep(u)
  <2>1. \A u \in Tabs : GoesOn(u)
    BY <1>4, QuietGoesOn DEF TabOpened
  <2>2. tabs[t] # NoTab /\ ~Mounted(t) /\ Mounted(t)' /\ tabs'[t].since = tabs[t].since
        /\ tabs'[t].session = tabs[t].session /\ tabs'[t].bound = tabs[t].session
    BY <1>4, Forms DEF TabOpened, Mounted, TypeInv, NoTab
  <2>3. \A u \in Tabs \ {t} : tabs'[u] = tabs[u]
    BY <1>4 DEF TabOpened, TypeInv
  <2> QED
    BY <1>4, <2>1, <2>2, <2>3 DEF TabOpened, MountedFirst, TabStep, Refs, Mounted
<1>5. ASSUME NEW t \in Tabs, OpenGivenUp(t) PROVE MountedFirst' /\ \A u \in Tabs : TabStep(u)
  <2>1. ~Mounted(t) /\ tabs'[t] = NoTab /\ \A u \in Tabs \ {t} : tabs'[u] = tabs[u] /\ given'[u] = given[u]
    BY <1>5 DEF OpenGivenUp, Mounted, TypeInv
  <2>2. \A u \in Tabs \ {t} : GoesOn(u)
    BY <1>5, <2>1 DEF OpenGivenUp, GoesOn, TypeInv
  <2> QED
    BY <1>5, <2>1, <2>2 DEF OpenGivenUp, MountedFirst, TabStep, Refs, Mounted
<1>6. ASSUME NEW t \in Tabs, CloseTab(t) PROVE MountedFirst' /\ \A u \in Tabs : TabStep(u)
  <2>1. \A u \in Tabs : GoesOn(u)
    BY <1>6, QuietGoesOn DEF CloseTab
  <2>2. \A u \in Tabs : /\ u \in Removed(t) => Open(u) /\ tabs'[u] = [tabs[u] EXCEPT !.stage = "closed"]
                        /\ u \notin Removed(t) => tabs'[u] = tabs[u]
    BY <1>6 DEF CloseTab, Removed
  <2>3. \A u \in Removed(t) : u \in Tabs /\ tabs[u] \in MountedType
    BY Forms DEF Removed, Open, Mounted
  <2>4. \A u \in Tabs :
           /\ (tabs'[u] = NoTab <=> tabs[u] = NoTab) /\ (Mounted(u)' <=> Mounted(u))
           /\ tabs[u] # NoTab => tabs'[u].since = tabs[u].since /\ tabs'[u].session = tabs[u].session
           /\ Mounted(u) => tabs'[u].bound = tabs[u].bound
    BY <2>2, <2>3 DEF Mounted, MountedType, NoTab, Open
  <2>5. Mounted(t) /\ tabs[t] # NoTab /\ tabs[t].session \in Ids
    BY <1>6, Forms DEF CloseTab, Open, Mounted, NoTab
  <2>6. MountedFirst'
    BY <1>6, <2>4, <2>5 DEF CloseTab, CloseSent, MountedFirst
  <2> QED
    BY <1>6, <2>1, <2>4, <2>5, <2>6 DEF CloseTab, CloseSent, TabStep, Refs
<1>7. ASSUME NEW t \in Tabs, Reconnect(t) PROVE MountedFirst' /\ \A u \in Tabs : TabStep(u)
  <2>1. \A u \in Tabs : GoesOn(u)
    BY <1>7, QuietGoesOn DEF Reconnect
  <2>2. Mounted(t) /\ tabs[t] # NoTab /\ reconnect' # Idle /\ reconnect'.tab = t
        /\ reconnect'.session = tabs[t].session
    BY <1>7 DEF Reconnect, Open, Mounted, NoTab, Idle
  <2> QED
    BY <1>7, <2>1, <2>2 DEF Reconnect, MountedFirst, TabStep, Refs, Mounted
<1>8. ASSUME NEW t \in Tabs, Poll(t) \/ Subscribe(t) \/ Resize(t) \/ PollFails(t)
      PROVE  MountedFirst' /\ \A u \in Tabs : TabStep(u)
  <2>1. \A u \in Tabs : GoesOn(u)
    BY <1>8, QuietGoesOn DEF Poll, Subscribe, Resize, PollFails
  <2>2. \A u \in Tabs \ {t} : polls'[u] = polls[u]
    BY <1>8 DEF Poll, Subscribe, Resize, PollFails, TypeInv
  <2>3. /\ polls'[t] # Idle => Mounted(t)
        /\ polls'[t] # Idle => \/ tabs[t] # NoTab /\ polls'[t].session = tabs[t].session
                               \/ polls'[t].session = tabs[t].bound
                               \/ polls[t] # Idle /\ polls'[t].session = polls[t].session
    BY <1>8 DEF Poll, Subscribe, Resize, PollFails, TypeInv, MountedFirst, Mounted, Open, NoTab, Idle
  <2>4. UNCHANGED <<starts, tabs, reconnect, closes, typed>>
    BY <1>8 DEF Poll, Subscribe, Resize, PollFails
  <2>5. MountedFirst'
    BY <2>2, <2>3, <2>4 DEF MountedFirst, Mounted
  <2>6. \A u \in Tabs \ {t} : TabStep(u)
    BY <2>1, <2>2, <2>4 DEF TabStep, Refs, Mounted
  <2>7. TabStep(t)
    BY <2>1, <2>3, <2>4 DEF TabStep, Refs, Mounted
  <2> QED
    BY <2>5, <2>6, <2>7
<1>9. ASSUME NEW t \in Tabs, Shown(t) PROVE MountedFirst' /\ \A u \in Tabs : TabStep(u)
  <2> DEFINE id == polls[t].session
  <2>1. \A u \in Tabs : GoesOn(u)
    BY <1>9, QuietGoesOn DEF Shown
  <2>2. polls[t] # Idle /\ Mounted(t) /\ id \in Ids /\ polls' = [polls EXCEPT ![t] = Idle]
    BY <1>9, Forms DEF Shown, Idle, MountedFirst
  <2>3. \A u \in Tabs : Open(u) => tabs[u] \in MountedType
    BY Forms DEF Open, Mounted
  <2>4. \A u \in Tabs :
           /\ Open(u) => /\ tabs'[u] \in MountedType /\ tabs'[u].since = tabs[u].since
                         /\ tabs'[u].bound = tabs[u].bound
                         /\ tabs'[u].session = tabs[u].session \/ (u = t /\ tabs'[u].session = id)
           /\ ~Open(u) => tabs'[u] = tabs[u]
    BY <1>9, <2>2, <2>3 DEF Shown, Open, MountedType
  <2>5. closes' = closes \/ closes' = closes \cup {[tab |-> t, session |-> id]}
    BY <1>9 DEF Shown
  <2>6. \A u \in Tabs : /\ Open(u) => Mounted(u) /\ tabs[u] # NoTab /\ Mounted(u)' /\ tabs'[u] # NoTab
                        /\ ~Open(u) => (Mounted(u)' <=> Mounted(u))
    BY <2>4 DEF Open, Mounted, NoTab, MountedType
  <2>7. UNCHANGED <<starts, reconnect, typed>>
    BY <1>9 DEF Shown
  <2>8. MountedFirst'
    BY <2>2, <2>5, <2>6, <2>7 DEF MountedFirst, TypeInv
  <2> QED
    BY <2>1, <2>2, <2>4, <2>5, <2>6, <2>7, <2>8 DEF TabStep, Refs, TypeInv
<1>10. ASSUME NEW t \in Tabs, Type(t) PROVE MountedFirst' /\ \A u \in Tabs : TabStep(u)
  <2>1. \A u \in Tabs : GoesOn(u)
    BY <1>10, QuietGoesOn DEF Type
  <2> QED
    BY <1>10, <2>1 DEF Type, Open, MountedFirst, TabStep, Refs, Mounted
<1>11. ASSUME NEW c \in closes, CloseArrives(c) \/ CloseLost(c)
       PROVE  MountedFirst' /\ \A u \in Tabs : TabStep(u)
  <2>1. \A u \in Tabs : GoesOn(u)
    BY <1>11 DEF CloseArrives, CloseLost, GoesOn, TypeInv, Gone
  <2> QED
    BY <1>11, <2>1 DEF CloseArrives, CloseLost, MountedFirst, TabStep, Refs, Mounted
<1>12. CASE OldClosed
  <2>1. \A u \in Tabs : GoesOn(u)
    BY <1>12 DEF OldClosed, GoesOn, TypeInv, Gone
  <2>2. reconnect # Idle /\ reconnect' # Idle /\ reconnect'.tab = reconnect.tab
        /\ reconnect'.session = reconnect.session
    BY <1>12, Forms DEF OldClosed, Idle, BeforeType
  <2> QED
    BY <1>12, <2>1, <2>2 DEF OldClosed, MountedFirst, TabStep, Refs, Mounted
<1>13. CASE NewOpened
  <2> DEFINE t == reconnect.tab
  <2>1. t \in Tabs /\ reconnect # Idle /\ NewSession(t) /\ starts' = starts
    BY <1>13, Forms DEF NewOpened, Idle
  <2>2. \A u \in Tabs : GoesOn(u)
    BY <2>1, NewSessionGoesOn
  <2>3. reconnect' # Idle /\ reconnect'.tab = t /\ reconnect'.session = nextId
    BY <1>13 DEF NewOpened, Idle
  <2> QED
    BY <1>13, <2>1, <2>2, <2>3 DEF NewOpened, MountedFirst, TabStep, Refs, Mounted
<1>14. CASE NewFails
  <2>1. \A u \in Tabs : GoesOn(u)
    BY <1>14, QuietGoesOn DEF NewFails
  <2> QED
    BY <1>14, <2>1 DEF NewFails, MountedFirst, TabStep, Refs, Mounted
<1>15. CASE Reconnected
  <2> DEFINE t == reconnect.tab
  <2>1. \A u \in Tabs : GoesOn(u)
    BY <1>15, QuietGoesOn DEF Reconnected
  <2>2. t \in Tabs /\ reconnect # Idle /\ Mounted(t)
    BY <1>15, Forms DEF Reconnected, Idle, MountedFirst
  <2>3. tabs[t] \in MountedType
    BY <2>2, Forms
  <2>a. tabs'[t] = [tabs[t] EXCEPT !.session = reconnect.session]
    BY <1>15, <2>2 DEF Reconnected, Update, TypeInv
  <2>4. tabs[t] # NoTab /\ tabs'[t] # NoTab /\ tabs'[t].stage \in {"open", "closed"}
        /\ tabs'[t].since = tabs[t].since /\ tabs'[t].bound = tabs[t].bound
        /\ tabs'[t].session = reconnect.session
    BY <2>a, <2>3 DEF MountedType, NoTab
  <2>5. \A u \in Tabs \ {t} : tabs'[u] = tabs[u]
    BY <1>15, <2>2 DEF Reconnected, Update, TypeInv
  <2>6. UNCHANGED <<starts, polls, closes, typed>> /\ reconnect' = Idle
    BY <1>15 DEF Reconnected
  <2>b. \A u \in Tabs : Mounted(u) => Mounted(u)'
    BY <2>4, <2>5 DEF Mounted
  <2>7. MountedFirst'
    BY <2>b, <2>6 DEF MountedFirst
  <2>8. \A u \in Tabs \ {t} : TabStep(u)
    BY <2>1, <2>5, <2>6 DEF TabStep, Refs, Mounted
  <2> QED
    BY <2>1, <2>2, <2>4, <2>b, <2>6, <2>7, <2>8 DEF TabStep, Refs, Mounted
<1> QED
  BY <1>1, <1>2, <1>3, <1>4, <1>5, <1>6, <1>7, <1>8, <1>9, <1>10, <1>11, <1>12, <1>13, <1>14,
     <1>15 DEF Next

---------------------------------------------------------------------------
(* The parts of IInv.                                                       *)

\* An id that is the tab's stays so.
LEMMA OwnsKept ==
    ASSUME TypeInv, TypeInv', NEW t \in Tabs, NEW id \in Ids, tabs[t] # NoTab,
           tabs[t].since <= starts, tabs'[t].since = tabs[t].since,
           starts' = starts + 1 \/ GoesOn(t), Owns(t, id)
    PROVE  Owns(t, id)' /\ tabs'[t].since <= starts'
<1>1. tabs[t].since \in 1..MaxStarts /\ starts \in Nat /\ nextId \in Int /\ nextId' \in Int
  BY Forms, BoundAssumption DEF TypeInv
<1> QED
  BY <1>1, BoundAssumption DEF Owns, GoesOn, Ids

\* The parts of IInv, each kept by every step.
LEMMA OwnStep ==
    ASSUME TypeInv, TypeInv', MountedFirst, RefsAreOwn, Next
    PROVE  RefsAreOwn'
<1> SUFFICES ASSUME NEW t \in Tabs, tabs'[t] # NoTab
             PROVE  tabs'[t].since <= starts' /\ \A id \in Refs(t)' : Owns(t, id)'
  BY DEF RefsAreOwn
<1>1. TabStep(t)
  BY Moves
<1>2. ASSUME NewSession(t), starts' = starts, NEW id \in Ids, id = nextId PROVE Owns(t, id)'
  <2>1. lives + 1 \in Lives
    BY <1>2, NewSessionType
  <2>2. sessions'[id].life = lives + 1 /\ lives + 1 \in given'[t] /\ id < nextId'
    BY <1>2, <2>1, BoundAssumption DEF NewSession, TypeInv, Ids
  <2> QED
    BY <2>2 DEF Owns
<1>3. CASE tabs[t] = NoTab
  <2>1. NewSession(t) /\ starts' = starts /\ tabs'[t].since = starts
        /\ \A id \in Refs(t)' : id \in Ids /\ id = nextId
    BY <1>1, <1>3 DEF TabStep, Refs
  <2> QED
    BY <1>2, <2>1, BoundAssumption DEF TypeInv
<1>4. CASE tabs[t] # NoTab
  <2>1. tabs'[t].since = tabs[t].since /\ tabs[t].since <= starts
        /\ (starts' = starts + 1 \/ GoesOn(t)) /\ \A id \in Refs(t) : Owns(t, id)
    BY <1>1, <1>4 DEF TabStep, RefsAreOwn
  <2>2. tabs[t].session \in Refs(t)
    BY <1>4, Forms DEF Refs
  <2>3. \A id \in Refs(t) : Owns(t, id)' /\ tabs'[t].since <= starts'
    BY <1>4, <2>1, OwnsKept DEF Refs
  <2>4. \A id \in Refs(t)' : id \in Ids /\ (id \in Refs(t) \/ (NewSession(t) /\ starts' = starts /\ id = nextId))
    BY <1>1, <1>4 DEF TabStep, Refs
  <2> QED
    BY <1>2, <2>2, <2>3, <2>4
<1> QED
  BY <1>3, <1>4

LEMMA InputStep ==
    ASSUME TypeInv, TypeInv', MountedFirst, RefsAreOwn, InputStaysHome, Next
    PROVE  InputStaysHome'
<1>1. ASSUME NEW t \in Tabs, Type(t) PROVE InputStaysHome'
  <2>1. Mounted(t) /\ tabs[t] # NoTab /\ tabs[t].bound \in Refs(t)
    BY <1>1, Forms DEF Type, Open, Mounted, Refs, NoTab
  <2>2. Owns(t, tabs[t].bound) /\ tabs[t].since <= starts
    BY <2>1 DEF RefsAreOwn
  <2>3. sessions[tabs[t].bound].life # 0
    BY <1>1, <2>1, SessionForms DEF Type, Target, Refs, Gone
  <2>a. tabs[t].since \in Int /\ starts \in Int
    BY <2>1, Forms, BoundAssumption DEF TypeInv
  <2>4. sessions[tabs[t].bound].life \in given[t] \/ Stale(t)
    BY <2>1, <2>2, <2>3, <2>a DEF Owns, Stale, Mounted
  <2>5. typed' = [tab |-> t, life |-> sessions[tabs[t].bound].life] /\ UNCHANGED <<starts, tabs, given>>
    BY <1>1 DEF Type, Target
  <2> QED
    BY <2>4, <2>5 DEF InputStaysHome, Stale
<1>2. ASSUME typed' = typed PROVE InputStaysHome'
  <2> SUFFICES ASSUME typed # Idle
               PROVE  (typed.life \in given[typed.tab] \/ Stale(typed.tab))'
    BY <1>2 DEF InputStaysHome
  <2>0. PICK t \in Tabs : typed.tab = t
    BY DEF TypeInv
  <2>1. Mounted(t) /\ Mounted(t)'
    BY <2>0, Moves DEF MountedFirst, TabStep
  <2>2. tabs[t] # NoTab /\ tabs'[t] # NoTab
    BY <2>1 DEF Mounted, NoTab
  <2>3. tabs'[t].since = tabs[t].since /\ tabs[t].since <= starts
        /\ (starts' = starts + 1 \/ GoesOn(t))
    BY <2>1, <2>2, Moves DEF TabStep, RefsAreOwn
  <2>4. starts \in Int /\ tabs[t].since \in Int
    BY <2>1, <2>2, Forms, BoundAssumption DEF TypeInv
  <2>5. CASE starts' = starts + 1
    BY <1>2, <2>0, <2>1, <2>3, <2>4, <2>5 DEF Stale, Mounted
  <2>6. CASE GoesOn(t)
    BY <1>2, <2>0, <2>1, <2>3, <2>4, <2>6 DEF Stale, Mounted, GoesOn, InputStaysHome
  <2> QED
    BY <2>3, <2>5, <2>6
<1>3. typed' = typed \/ \E t \in Tabs : Type(t)
  BY DEF Next, ShellExits, Restart, OpenTab, TabOpened, OpenGivenUp, CloseTab, Reconnect, Poll,
         Subscribe, Resize, PollFails, Shown, CloseArrives, CloseLost, OldClosed, NewOpened,
         NewFails, Reconnected
<1> QED
  BY <1>1, <1>2, <1>3

---------------------------------------------------------------------------
(* No session is forgotten.                                                 *)

\* The life of a session that an open lost is known.
LEMMA LostIsKnown ==
    ASSUME TypeInv, NEW open, open.session \in Ids, open.since = starts, Alive(open.session)
    PROVE  sessions[open.session].life \in Lost(open)
  BY SessionForms DEF Lost, Alive

LEMMA AnsweredStep ==
    ASSUME TypeInv, TypeInv', MountedFirst, NoneForgotten, Next
    PROVE  NoneForgotten'
<1> USE BoundAssumption
<1> SUFFICES ASSUME NEW id \in Ids, Alive(id)'
             PROVE  Answered(id)' \/ sessions'[id].life \in leaked'
  BY DEF NoneForgotten
<1> DEFINE Kept == Answered(id)' \/ sessions'[id].life \in leaked'
<1>a. Alive(id) => Answered(id) \/ sessions[id].life \in leaked
  BY DEF NoneForgotten
<1>1. ASSUME NEW i \in Ids, ShellExits(i) PROVE Kept
  <2>1. Alive(id) /\ sessions'[id].life = sessions[id].life
    BY <1>1 DEF ShellExits, Alive, TypeInv, SessionType, Gone
  <2> QED
    BY <1>1, <1>a, <2>1 DEF ShellExits, Answered, Shows, Open
<1>2. CASE Restart
  BY <1>2 DEF Restart, Alive
<1>b. ASSUME UNCHANGED sessions, leaked \subseteq leaked', Answered(id) => Kept PROVE Kept
  BY <1>a, <1>b DEF Alive
<1>c. ASSUME NEW t \in Tabs, NewSession(t), UNCHANGED leaked, id # nextId
      PROVE  Answered(id) \/ Kept
  <2>1. sessions'[id] = sessions[id]
    BY <1>c DEF NewSession, TypeInv
  <2> QED
    BY <1>a, <1>c, <2>1 DEF Alive
<1>3. ASSUME NEW t \in Tabs, OpenTab(t) PROVE Kept
  <2>1. tabs[t] = NoTab /\ tabs'[t].stage = "opening" /\ tabs'[t].session = nextId
        /\ tabs'[t].since = starts /\ \A u \in Tabs \ {t} : tabs'[u] = tabs[u]
    BY <1>3 DEF OpenTab, TypeInv
  <2>2. CASE id = nextId
    BY <1>3, <2>1, <2>2 DEF OpenTab, Answered
  <2>3. CASE Answered(id)
    BY <1>3, <2>1, <2>3 DEF OpenTab, Answered, Shows, Open, NoTab
  <2> QED
    BY <1>3, <1>c, <2>2, <2>3 DEF OpenTab
<1>4. ASSUME NEW t \in Tabs, TabOpened(t) PROVE Kept
  <2>1. tabs[t].stage = "opening" /\ tabs'[t].stage = "open" /\ tabs'[t].session = tabs[t].session
        /\ \A u \in Tabs \ {t} : tabs'[u] = tabs[u]
    BY <1>4 DEF TabOpened, TypeInv
  <2>2. reconnect = Idle \/ reconnect.tab # t
    BY <2>1 DEF MountedFirst, Mounted
  <2>3. ASSUME Answered(id) PROVE Kept
    BY <1>4, <2>1, <2>2, <2>3 DEF TabOpened, Answered, Shows, Open
  <2> QED
    BY <1>4, <1>b, <2>3 DEF TabOpened
<1>5. ASSUME NEW t \in Tabs, OpenGivenUp(t) PROVE Kept
  <2>1. tabs[t].stage = "opening" /\ \A u \in Tabs \ {t} : tabs'[u] = tabs[u]
    BY <1>5 DEF OpenGivenUp, TypeInv
  <2>2. ASSUME Answered(id), tabs[t].session = id, tabs[t].since = starts PROVE Kept
    BY <1>5, <2>2, LostIsKnown DEF OpenGivenUp, Alive
  <2>3. ASSUME Answered(id), ~(tabs[t].session = id /\ tabs[t].since = starts) PROVE Kept
    BY <1>5, <2>1, <2>3 DEF OpenGivenUp, Answered, Shows, Open
  <2> QED
    BY <1>5, <1>b, <2>2, <2>3 DEF OpenGivenUp
<1>6. ASSUME NEW t \in Tabs, CloseTab(t) PROVE Kept
  <2>1. \A u \in Tabs : u \notin Removed(t) => tabs'[u] = tabs[u]
    BY <1>6 DEF CloseTab
  <2>2. \A u \in Removed(t) : Open(u) /\ tabs[u].session = tabs[t].session
    BY DEF Removed
  <2>3. closes' = closes \cup {[tab |-> t, session |-> tabs[t].session]}
        /\ UNCHANGED <<reconnect, starts, sessions, leaked>>
    BY <1>6 DEF CloseTab, CloseSent
  <2>4. CASE id = tabs[t].session
    <3>1. [tab |-> t, session |-> id] \in closes'
      BY <2>3, <2>4
    <3>2. [tab |-> t, session |-> id].session = id
      OBVIOUS
    <3>3. \E c \in closes' : c.session = id
      BY <3>1, <3>2
    <3> QED
      BY <3>3 DEF Answered
  <2>5. ASSUME Answered(id), id # tabs[t].session PROVE Kept
    <3>1. \A u \in Tabs : Shows(u, id) => Shows(u, id)'
      BY <2>1, <2>2, <2>3, <2>5 DEF Shows, Open
    <3>2. \A u \in Tabs : tabs[u].stage = "opening" => tabs'[u] = tabs[u]
      BY <2>1, <2>2 DEF Open
    <3> QED
      BY <2>3, <2>5, <3>1, <3>2 DEF Answered
  <2> QED
    BY <1>b, <2>3, <2>4, <2>5
<1>7. ASSUME NEW t \in Tabs, Reconnect(t) PROVE Kept
  <2>1. reconnect = Idle /\ reconnect'.stage = "closing" /\ reconnect'.tab = t
        /\ reconnect'.session = tabs[t].session /\ UNCHANGED <<starts, sessions, tabs, closes, leaked>>
    BY <1>7 DEF Reconnect
  <2>2. ASSUME Answered(id) PROVE Kept
    BY <2>1, <2>2 DEF Answered, Shows, Open, Idle
  <2> QED
    BY <1>b, <2>1, <2>2
<1>8. ASSUME NEW t \in Tabs, Poll(t) \/ Subscribe(t) \/ Resize(t) \/ PollFails(t) \/ Type(t) PROVE Kept
  <2>1. UNCHANGED <<starts, sessions, tabs, closes, reconnect, leaked>>
    BY <1>8 DEF Poll, Subscribe, Resize, PollFails, Type
  <2> QED
    BY <1>b, <2>1 DEF Answered, Shows, Open
<1>9. ASSUME NEW t \in Tabs, Shown(t) PROVE Kept
  <2> DEFINE new == polls[t].session
  <2>1. UNCHANGED <<starts, sessions, reconnect>> /\ leaked \subseteq leaked' /\ closes \subseteq closes'
    BY <1>9 DEF Shown
  <2>2. \A u \in Tabs : ~Open(u) => tabs'[u] = tabs[u]
    BY <1>9 DEF Shown, Open
  <2>3. CASE [tab |-> t, session |-> id] \in closes'
    BY <2>3, Forms DEF Answered, TypeInv
  <2>4. ASSUME NEW u \in Tabs, Shows(u, id), [tab |-> t, session |-> id] \notin closes' PROVE Kept
    <3>0. Open(u) /\ tabs[u].session = id /\ tabs[u] \in MountedType
      BY <2>4, Forms DEF Shows, Open, Mounted
    <3>1. CASE u = t /\ id # new
      <4>1. sessions[id].life # 0 /\ sessions'[id] = sessions[id]
        BY <2>1, SessionForms DEF Alive
      <4> QED
        BY <1>9, <3>0, <3>1, <4>1 DEF Shown
    <3>2. CASE u = t /\ id = new
      <4>1. polls[t].state = "running"
        BY <1>9, <2>4, <3>2 DEF Shown
      <4>2. tabs'[t].stage = "open" /\ tabs'[t].session = id
        BY <1>9, <3>0, <3>2, <4>1 DEF Shown, Open, MountedType
      <4>3. Shows(t, id)'
        BY <2>1, <2>4, <3>2, <4>2 DEF Shows, Open
      <4> QED
        BY <4>3 DEF Answered
    <3>3. CASE u # t
      <4>1. polls[t].state = "running" \/ id # new
        BY <1>9, <2>4 DEF Shown
      <4>2. tabs'[u] = tabs[u]
        BY <1>9, <3>0, <3>3, <4>1 DEF Shown
      <4>3. Shows(u, id)'
        BY <2>1, <2>4, <4>2 DEF Shows, Open
      <4> QED
        BY <4>3 DEF Answered
    <3> QED
      BY <3>1, <3>2, <3>3
  <2>5. ASSUME Answered(id), \A u \in Tabs : ~Shows(u, id) PROVE Kept
    BY <2>1, <2>2, <2>5 DEF Answered, Open
  <2> QED
    BY <1>b, <2>1, <2>3, <2>4, <2>5
<1>10. ASSUME NEW c \in closes, CloseArrives(c) \/ CloseLost(c) PROVE Kept
  <2>1. c.session \in Ids /\ UNCHANGED <<starts, tabs, reconnect>> /\ closes' = closes \ {c}
    BY <1>10 DEF CloseArrives, CloseLost, TypeInv
  <2>2. ASSUME Answered(id), id # c.session PROVE Answered(id)'
    BY <2>1, <2>2 DEF Answered, Shows, Open
  <2>3. CASE CloseArrives(c)
    <3>1. id # c.session /\ sessions'[id] = sessions[id] /\ UNCHANGED leaked
      BY <2>1, <2>3 DEF CloseArrives, Alive, TypeInv
    <3> QED
      BY <1>a, <2>2, <3>1 DEF Alive
  <2>4. CASE CloseLost(c)
    <3>1. UNCHANGED sessions /\ leaked' = leaked \cup ({sessions[c.session].life} \ {0})
      BY <2>4 DEF CloseLost
    <3>2. CASE id = c.session
      BY <3>1, <3>2, SessionForms DEF Alive
    <3> QED
      BY <1>b, <2>2, <3>1, <3>2
  <2> QED
    BY <1>10, <2>3, <2>4
<1>11. CASE OldClosed
  <2>1. reconnect.stage = "closing" /\ reconnect # Idle /\ reconnect' # Idle /\ reconnect.session \in Ids
        /\ reconnect'.stage = "opening" /\ reconnect'.tab = reconnect.tab
        /\ UNCHANGED <<starts, tabs, closes>>
    BY <1>11, Forms DEF OldClosed, Idle, BeforeType
  <2>2. ASSUME Answered(id), id # reconnect.session PROVE Answered(id)'
    BY <2>1, <2>2 DEF Answered, Shows, Open
  <2>3. CASE sessions' = [sessions EXCEPT ![reconnect.session] = Gone] /\ UNCHANGED leaked
    <3>1. id # reconnect.session /\ sessions'[id] = sessions[id]
      BY <2>1, <2>3 DEF Alive, TypeInv
    <3> QED
      BY <1>a, <2>2, <2>3, <3>1 DEF Alive
  <2>4. CASE leaked' = leaked \cup ({sessions[reconnect.session].life} \ {0}) /\ UNCHANGED sessions
    <3>1. CASE id = reconnect.session
      BY <2>4, <3>1, SessionForms DEF Alive
    <3> QED
      BY <1>b, <2>2, <2>4, <3>1
  <2> QED
    BY <1>11, <2>3, <2>4 DEF OldClosed
<1>12. CASE NewOpened
  <2>1. reconnect.tab \in Tabs /\ reconnect # Idle /\ reconnect.stage = "opening" /\ NewSession(reconnect.tab)
        /\ UNCHANGED <<starts, tabs, closes, leaked>>
    BY <1>12, Forms DEF NewOpened, Idle
  <2>2. reconnect'.stage = "opened" /\ reconnect'.session = nextId /\ reconnect'.since = starts
        /\ reconnect'.tab = reconnect.tab
    BY <1>12 DEF NewOpened
  <2>3. CASE id = nextId
    BY <2>1, <2>2, <2>3 DEF Answered
  <2>4. CASE Answered(id)
    BY <2>1, <2>2, <2>4 DEF Answered, Shows, Open
  <2> QED
    BY <1>c, <2>1, <2>3, <2>4
<1>13. CASE NewFails
  <2>1. reconnect' = Idle /\ UNCHANGED <<starts, sessions, tabs, closes>> /\ leaked \subseteq leaked'
    BY <1>13 DEF NewFails
  <2>2. ASSUME Answered(id), reconnect.stage = "opened", reconnect.session = id, reconnect.since = starts
        PROVE  Kept
    BY <1>13, <2>1, <2>2, LostIsKnown DEF NewFails, Alive
  <2>3. ASSUME Answered(id), ~(reconnect.stage = "opened" /\ reconnect.session = id /\ reconnect.since = starts)
        PROVE  Kept
    BY <2>1, <2>3 DEF Answered, Shows, Open
  <2> QED
    BY <1>b, <2>1, <2>2, <2>3
<1>14. CASE Reconnected
  <2> DEFINE t == reconnect.tab
  <2>1. t \in Tabs /\ reconnect.stage = "opened" /\ reconnect # Idle /\ reconnect' = Idle /\ Mounted(t)
        /\ UNCHANGED <<starts, sessions, closes>> /\ leaked \subseteq leaked'
    BY <1>14, Forms DEF Reconnected, Idle, MountedFirst
  <2>2. tabs'[t] = [tabs[t] EXCEPT !.session = reconnect.session]
        /\ \A u \in Tabs \ {t} : tabs'[u] = tabs[u]
    BY <1>14, <2>1 DEF Reconnected, Update, TypeInv
  <2>3. tabs[t] \in MountedType
    BY <2>1, Forms
  <2>4. CASE Answered(id) /\ reconnect.session = id /\ reconnect.since = starts
    <3>1. CASE Open(t)
      <4>1. tabs'[t].stage = "open" /\ tabs'[t].session = id
        BY <2>2, <2>3, <2>4, <3>1 DEF Open, MountedType
      <4> QED
        BY <2>1, <4>1 DEF Answered, Shows, Open
    <3>2. CASE ~Open(t)
      BY <1>14, <2>1, <2>4, <3>2, LostIsKnown DEF Reconnected, Alive
    <3> QED
      BY <3>1, <3>2
  <2>5. CASE Answered(id) /\ ~(reconnect.session = id /\ reconnect.since = starts)
    BY <2>1, <2>2, <2>5 DEF Answered, Shows, Open, Mounted
  <2> QED
    BY <1>b, <2>1, <2>4, <2>5
<1> QED
  BY <1>1, <1>2, <1>3, <1>4, <1>5, <1>6, <1>7, <1>8, <1>9, <1>10, <1>11, <1>12, <1>13, <1>14 DEF Next

---------------------------------------------------------------------------
(* The invariant, and what follows from it.                                 *)

\* The invariant holds at the beginning, is kept by every step, and so always holds.
LEMMA InitInv == Init => IInv
  BY BoundAssumption
  DEF Init, IInv, TypeInv, InputStaysHome, MountedFirst, RefsAreOwn, NoneForgotten, SessionType,
      TabType, PollType, ReconnectType, Alive

LEMMA NextInv == IInv /\ [Next]_vars => IInv'
<1> SUFFICES ASSUME IInv, [Next]_vars PROVE IInv'
  OBVIOUS
<1>1. TypeInv'
  BY TypeStep DEF IInv
<1>2. CASE Next
  BY <1>1, <1>2, Moves, OwnStep, InputStep, AnsweredStep DEF IInv
<1>3. CASE UNCHANGED vars
  BY <1>1, <1>3
  DEF vars, IInv, InputStaysHome, Stale, MountedFirst, Mounted, RefsAreOwn, Refs, Owns,
      NoneForgotten, Alive, Answered, Shows, Open
<1> QED
  BY <1>2, <1>3

LEMMA Invariance == Spec => []IInv
  BY InitInv, NextInv, PTL DEF Spec

\* Tabs, requests and sessions are always well typed, for any tabs and bounds
\* (App.svelte, SessionStore).
THEOREM TypeCorrect == Spec => []TypeOK
<1>1. IInv => TypeOK
  <2> SUFFICES ASSUME IInv PROVE TypeOK
    OBVIOUS
  <2>1. nextId \in 1..(MaxLives + 1)
    BY BoundAssumption DEF IInv, TypeInv
  <2>2. SessionType \subseteq [life: 0..MaxLives, state: {"gone", "running", "exited"}]
    BY BoundAssumption DEF SessionType, Gone, Lives
  <2>3. sessions \in [Ids -> [life: 0..MaxLives, state: {"gone", "running", "exited"}]]
    BY <2>2 DEF IInv, TypeInv
  <2> QED
    BY <2>1, <2>3
    DEF IInv, TypeInv, TypeOK, TabType, OpeningType, MountedType, PollType, AskedType, AnswerType,
        ReconnectType, BeforeType, AfterType
<1> QED
  BY <1>1, Invariance, PTL

\* What is typed into a tab reaches only sessions that were opened for it, whatever
\* reconnects, closes and late answers there are (bindTerminal, reconnectTab). A tab that
\* still shows an id of an earlier isshd is excepted: its input may go to another session.
THEOREM InputAlwaysHome == Spec => []InputStaysHome
<1>1. IInv => InputStaysHome
  BY DEF IInv
<1> QED
  BY <1>1, Invariance, PTL

\* No session runs on without a tab, a close or an open that answers for it, but for
\* the reasons that the model records (closeTab, reconnectTab, pollOutput).
THEOREM NothingElseLeaks == Spec => []NoOtherLeak
<1>1. IInv => NoOtherLeak
  <2> SUFFICES ASSUME IInv, NEW id \in Ids, Answered(id) PROVE Held(id)
    BY DEF IInv, NoneForgotten, NoOtherLeak
  <2> QED
    BY DEF Answered, Shows, Open, Held, Idle
<1> QED
  BY <1>1, Invariance, PTL

\* A close that arrives ends only a session that was opened for its tab (closeTab,
\* close_ssh_session), as long as the isshd lives that the tab is from.
THEOREM ClosesSpareOthers == Spec => CloseSparesOthers
<1>1. IInv /\ [Next]_vars =>
        [\A c \in closes : CloseArrives(c) /\ sessions[c.session] # Gone
            => sessions[c.session].life \in given[c.tab] \/ Stale(c.tab)]_vars
  <2> SUFFICES ASSUME IInv, NEW c \in closes, sessions[c.session] # Gone
               PROVE  sessions[c.session].life \in given[c.tab] \/ Stale(c.tab)
    OBVIOUS
  <2>1. c.tab \in Tabs /\ c.session \in Ids /\ c = [tab |-> c.tab, session |-> c.session]
    BY DEF IInv, TypeInv
  <2>2. Mounted(c.tab) /\ tabs[c.tab] # NoTab
    BY <2>1 DEF IInv, MountedFirst, Mounted, NoTab
  <2>3. c.session \in Refs(c.tab)
    BY <2>1 DEF Refs
  <2>4. Owns(c.tab, c.session) /\ tabs[c.tab].since <= starts
    BY <2>1, <2>2, <2>3 DEF IInv, RefsAreOwn
  <2>5. tabs[c.tab].since \in Int /\ starts \in Int
    BY <2>1, <2>2, Forms, BoundAssumption DEF IInv, TypeInv
  <2>6. sessions[c.session].life # 0
    BY <2>1, SessionForms DEF IInv
  <2> QED
    BY <2>2, <2>4, <2>5, <2>6 DEF Owns, Stale, Mounted
<1> QED
  BY <1>1, Invariance, PTL DEF Spec, CloseSparesOthers

=============================================================================
