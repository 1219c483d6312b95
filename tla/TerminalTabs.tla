----------------------------- MODULE TerminalTabs -----------------------------
(* The SSH tabs of the window (App.svelte) and the sessions they stand for. A   *)
(* tab knows its session by an id, and asks for everything over a pipe on which *)
(* every request is a connection of its own: opening, polling, reconnecting,    *)
(* closing and typing overlap. isshd gives out ids from 1, again after a start. *)
(* A session is told from an earlier one with its id by the number of its life. *)
(* Bounds: each tab is opened once and has one request for its state under way, *)
(* one tab reconnects at a time, MaxLives sessions are opened, and isshd starts  *)
(* MaxStarts times.                                                             *)
EXTENDS Integers, FiniteSets

CONSTANTS Tabs, MaxLives, MaxStarts

ASSUME BoundAssumption == MaxLives \in Nat /\ MaxStarts \in Nat \ {0}

VARIABLES
    starts,      \* how often isshd was started
    nextId,      \* SessionStore.next_ssh_id
    lives,       \* how many sessions were ever opened
    sessions,    \* SessionStore.sessions, by id
    tabs,        \* the tabs, open or not
    polls,       \* session.subscribe or session.resize under way, one a tab
    reconnect,   \* reconnectTab; `connecting` lets one run
    closes,      \* session.close requests of closeTab that are under way
    typed,       \* the last input: its tab and the life that got it (history)
    given,       \* lives that were opened for a tab (history)
    leaked       \* lives nobody closed, for a reason the model knows (history)

vars == <<starts, nextId, lives, sessions, tabs, polls, reconnect, closes, typed, given, leaked>>

Ids   == 1..MaxLives
Lives == 1..MaxLives
Gone  == [life |-> 0, state |-> "gone"]
Idle  == [stage |-> "idle"]

\* A tab: the id in tab.session, the id its terminal writes to (bindTerminal), and
\* the start of isshd that gave out that id.
NoTab == [stage |-> "new"]
Open(t) == tabs[t].stage = "open"
Alive(id) == sessions[id] # Gone
\* The tab's terminal still has the id of a session that ended with its isshd.
Stale(t) == tabs[t].stage \in {"open", "closed"} /\ tabs[t].since < starts

\* The session that an open gave out, unless it ended with its isshd.
Lost(open) == IF open.since = starts THEN {sessions[open.session].life} \ {0} ELSE {}

Update(t, field, value) == [tabs EXCEPT ![t] = [@ EXCEPT ![field] = value]]

---------------------------------------------------------------------------
(* isshd.                                                                   *)

\* Mutated form of NewSession: the counter stays.
NewSessionSameId(t) ==
    /\ lives < MaxLives
    /\ sessions' = [sessions EXCEPT ![nextId] = [life |-> lives + 1, state |-> "running"]]
    /\ lives' = lives + 1 /\ UNCHANGED nextId
    /\ given' = [given EXCEPT ![t] = @ \cup {lives + 1}]

\* open_ssh_session, for tab t.
NewSession(t) ==
    /\ lives < MaxLives
    /\ sessions' = [sessions EXCEPT ![nextId] = [life |-> lives + 1, state |-> "running"]]
    /\ lives' = lives + 1 /\ nextId' = nextId + 1
    /\ given' = [given EXCEPT ![t] = @ \cup {lives + 1}]

\* The remote shell ends.
ShellExits(id) ==
    /\ sessions[id].state = "running"
    /\ sessions' = [sessions EXCEPT ![id].state = "exited"]
    /\ UNCHANGED <<starts, nextId, lives, tabs, polls, reconnect, closes, typed, given, leaked>>

\* isshd ends, and RuntimeManager starts it at the next request.
Restart ==
    /\ starts < MaxStarts
    /\ starts' = starts + 1 /\ nextId' = 1
    /\ sessions' = [id \in Ids |-> Gone]
    /\ UNCHANGED <<lives, tabs, polls, reconnect, closes, typed, given, leaked>>

---------------------------------------------------------------------------
(* confirmFingerprint.                                                      *)

\* openSshSession; the answer is under way.
OpenTab(t) ==
    /\ tabs[t] = NoTab
    /\ NewSession(t)
    /\ tabs' = [tabs EXCEPT ![t] = [stage |-> "opening", session |-> nextId, since |-> starts]]
    /\ UNCHANGED <<starts, polls, reconnect, closes, typed, leaked>>

\* The tab is pushed and mounted; bindTerminal keeps the id it has now.
TabOpened(t) ==
    /\ tabs[t].stage = "opening"
    /\ tabs' = [tabs EXCEPT ![t] = [ stage |-> "open", session |-> tabs[t].session,
                                     bound |-> tabs[t].session, since |-> tabs[t].since ]]
    /\ UNCHANGED <<starts, nextId, lives, sessions, polls, reconnect, closes, typed, given, leaked>>

\* The window gives up on session.openSsh: isshd has waited too long for the lock of its
\* sessions, or the answer was lost. The form stays, and the user may try again.
OpenGivenUp(t) ==
    /\ tabs[t].stage = "opening"
    /\ tabs' = [tabs EXCEPT ![t] = NoTab]
    /\ given' = [given EXCEPT ![t] = {}]
    /\ leaked' = leaked \cup Lost(tabs[t])
    /\ UNCHANGED <<starts, nextId, lives, sessions, polls, reconnect, closes, typed>>

---------------------------------------------------------------------------
(* closeTab.                                                                *)

\* Mutated form of CloseSent: the session is left to run.
CloseUnsent(t) == UNCHANGED closes

\* closeSession of the id the tab has now.
CloseSent(t) == closes' = closes \cup {[tab |-> t, session |-> tabs[t].session]}

\* The tabs that go: those with the session id of the tab.
Removed(t) == {u \in Tabs : Open(u) /\ tabs[u].session = tabs[t].session}

\* A reconnect under way goes on without its tab.
CloseTab(t) ==
    /\ Open(t)
    /\ CloseSent(t)
    /\ tabs' = [u \in Tabs |->
                  IF u \in Removed(t) THEN [tabs[u] EXCEPT !.stage = "closed"] ELSE tabs[u]]
    /\ UNCHANGED <<starts, nextId, lives, sessions, polls, reconnect, typed, given, leaked>>

\* isshd closes the session; a request for an id that is gone fails, and is ignored.
CloseArrives(c) ==
    /\ c \in closes
    /\ closes' = closes \ {c}
    /\ sessions' = [sessions EXCEPT ![c.session] = Gone]
    /\ UNCHANGED <<starts, nextId, lives, tabs, polls, reconnect, typed, given, leaked>>

\* The request fails: closeTab does not try again.
CloseLost(c) ==
    /\ c \in closes
    /\ closes' = closes \ {c}
    /\ leaked' = leaked \cup ({sessions[c.session].life} \ {0})
    /\ UNCHANGED <<starts, nextId, lives, sessions, tabs, polls, reconnect, typed, given>>

---------------------------------------------------------------------------
(* reconnectTab: close the old session, open another, point the tab to it.  *)

\* Refused while a connection is being made.
Reconnect(t) ==
    /\ Open(t) /\ reconnect = Idle /\ \A u \in Tabs : tabs[u].stage # "opening"
    /\ reconnect' = [stage |-> "closing", tab |-> t, session |-> tabs[t].session]
    /\ UNCHANGED <<starts, nextId, lives, sessions, tabs, polls, closes, typed, given, leaked>>

\* The old session is closed, or the request fails and nobody tries again.
OldClosed ==
    /\ reconnect.stage = "closing"
    /\ reconnect' = [reconnect EXCEPT !.stage = "opening"]
    /\ \/ sessions' = [sessions EXCEPT ![reconnect.session] = Gone] /\ UNCHANGED leaked
       \/ leaked' = leaked \cup ({sessions[reconnect.session].life} \ {0}) /\ UNCHANGED sessions
    /\ UNCHANGED <<starts, nextId, lives, tabs, polls, closes, typed, given>>

NewOpened ==
    /\ reconnect.stage = "opening"
    /\ NewSession(reconnect.tab)
    /\ reconnect' = [ stage |-> "opened", tab |-> reconnect.tab, session |-> nextId,
                      since |-> starts ]
    /\ UNCHANGED <<starts, tabs, polls, closes, typed, leaked>>

\* The connection fails, or the window gives up on it: the tab keeps the session that was closed.
NewFails ==
    /\ \/ reconnect.stage = "opening" /\ UNCHANGED leaked
       \/ reconnect.stage = "opened" /\ leaked' = leaked \cup Lost(reconnect)
    /\ reconnect' = Idle
    /\ UNCHANGED <<starts, nextId, lives, sessions, tabs, polls, closes, typed, given>>

\* tab.session changes; the callbacks of the terminal keep the old id. A tab that
\* was closed in the meantime gets the session as well, and nobody closes it.
Reconnected ==
    /\ reconnect.stage = "opened"
    /\ LET t == reconnect.tab
       IN  /\ tabs' = Update(t, "session", reconnect.session)
           /\ leaked' = IF Open(t) THEN leaked ELSE leaked \cup Lost(reconnect)
    /\ reconnect' = Idle
    /\ UNCHANGED <<starts, nextId, lives, sessions, polls, closes, typed, given>>

---------------------------------------------------------------------------
(* pollOutput and the answers of session.resize. The poll of mountTerminal, the *)
(* one that pollAll has under way and a resize are one request a tab here.      *)

Poll(t) ==
    /\ Open(t) /\ polls[t] = Idle
    /\ polls' = [polls EXCEPT ![t] = [stage |-> "asked", session |-> tabs[t].session]]
    /\ UNCHANGED <<starts, nextId, lives, sessions, tabs, reconnect, closes, typed, given, leaked>>

\* Mutated form of Subscribe: a session that is gone is answered for.
SubscribeGone(t) ==
    /\ polls[t].stage = "asked"
    /\ polls' = [polls EXCEPT ![t] = [ stage |-> "answered", session |-> polls[t].session,
                                       state |-> sessions[polls[t].session].state ]]
    /\ UNCHANGED <<starts, nextId, lives, sessions, tabs, reconnect, closes, typed, given, leaked>>

\* isshd answers with the output and the state of the session.
Subscribe(t) ==
    /\ polls[t].stage = "asked" /\ Alive(polls[t].session)
    /\ polls' = [polls EXCEPT ![t] = [ stage |-> "answered", session |-> polls[t].session,
                                       state |-> sessions[polls[t].session].state ]]
    /\ UNCHANGED <<starts, nextId, lives, sessions, tabs, reconnect, closes, typed, given, leaked>>

\* The terminal resizes the session it is bound to, which must run; the answer is
\* put into the tab like that of a poll.
Resize(t) ==
    /\ Open(t) /\ polls[t] = Idle
    /\ sessions[tabs[t].bound].state = "running"
    /\ polls' = [polls EXCEPT ![t] = [ stage |-> "answered", session |-> tabs[t].bound,
                                       state |-> "running" ]]
    /\ UNCHANGED <<starts, nextId, lives, sessions, tabs, reconnect, closes, typed, given, leaked>>

\* No such session, or no answer: the tab stays and asks again later.
PollFails(t) ==
    /\ polls[t] # Idle
    /\ polls' = [polls EXCEPT ![t] = Idle]
    /\ UNCHANGED <<starts, nextId, lives, sessions, tabs, reconnect, closes, typed, given, leaked>>

\* tab.session becomes the session of the answer, which a reconnect may have
\* replaced since; the session of the tab is then lost. The tab closes if the
\* session has ended. A closed tab is not looked at again here: its close was sent.
Shown(t) ==
    /\ polls[t].stage = "answered"
    /\ polls' = [polls EXCEPT ![t] = Idle]
    /\ LET id == polls[t].session
           lost == IF Open(t) /\ id # tabs[t].session THEN {sessions[tabs[t].session].life} ELSE {}
           gone == IF polls[t].state = "running" THEN {}
                   ELSE {u \in Tabs : Open(u) /\ (u = t \/ tabs[u].session = id)}
       IN  /\ tabs' = [u \in Tabs |->
                          IF u = t /\ tabs[t].stage = "open"
                          THEN [tabs[t] EXCEPT !.session = id,
                                               !.stage = IF t \in gone THEN "closed" ELSE "open"]
                          ELSE IF u \in gone THEN [tabs[u] EXCEPT !.stage = "closed"] ELSE tabs[u]]
           /\ closes' = IF polls[t].state = "running" THEN closes
                        ELSE closes \cup {[tab |-> t, session |-> id]}
           /\ leaked' = leaked \cup (lost \ {0})
    /\ UNCHANGED <<starts, nextId, lives, sessions, reconnect, typed, given>>

---------------------------------------------------------------------------
\* Mutated form of Target: the session of the active tab, here any open one.
TargetActive(t) == tabs[CHOOSE u \in Tabs : Open(u)].bound

\* Where the input of a tab goes: to the id its callbacks hold.
Target(t) == tabs[t].bound

\* terminal.onData: a write to a session that does not run fails silently.
Type(t) ==
    /\ Open(t)
    /\ sessions[Target(t)].state = "running"
    /\ typed' = [tab |-> t, life |-> sessions[Target(t)].life]
    /\ UNCHANGED <<starts, nextId, lives, sessions, tabs, polls, reconnect, closes, given, leaked>>

---------------------------------------------------------------------------
Init ==
    /\ starts = 1 /\ nextId = 1 /\ lives = 0
    /\ sessions = [id \in Ids |-> Gone]
    /\ tabs = [t \in Tabs |-> NoTab] /\ polls = [t \in Tabs |-> Idle]
    /\ reconnect = Idle /\ closes = {}
    /\ typed = Idle /\ given = [t \in Tabs |-> {}] /\ leaked = {}

Next ==
    \/ \E id \in Ids : ShellExits(id)
    \/ Restart
    \/ \E t \in Tabs :
        \/ OpenTab(t) \/ TabOpened(t) \/ OpenGivenUp(t) \/ CloseTab(t) \/ Reconnect(t)
        \/ Poll(t) \/ Subscribe(t) \/ Resize(t) \/ PollFails(t) \/ Shown(t) \/ Type(t)
    \/ \E c \in closes : CloseArrives(c) \/ CloseLost(c)
    \/ OldClosed \/ NewOpened \/ NewFails \/ Reconnected

Spec == Init /\ [][Next]_vars

---------------------------------------------------------------------------
(* Properties.                                                               *)

\* The type invariant.
TypeOK ==
    /\ starts \in 1..MaxStarts /\ nextId \in 1..(MaxLives + 1) /\ lives \in 0..MaxLives
    /\ sessions \in [Ids -> [life: 0..MaxLives, state: {"gone", "running", "exited"}]]
    /\ tabs \in [Tabs -> {NoTab} \cup [stage: {"opening"}, session: Ids, since: 1..MaxStarts]
                    \cup [stage: {"open", "closed"}, session: Ids, bound: Ids, since: 1..MaxStarts]]
    /\ polls \in [Tabs -> {Idle} \cup [stage: {"asked"}, session: Ids]
                    \cup [stage: {"answered"}, session: Ids, state: {"running", "exited"}]]
    /\ reconnect \in {Idle} \cup [stage: {"closing", "opening"}, tab: Tabs, session: Ids]
                    \cup [stage: {"opened"}, tab: Tabs, session: Ids, since: 1..MaxStarts]
    /\ closes \subseteq [tab: Tabs, session: Ids]
    /\ typed \in {Idle} \cup [tab: Tabs, life: Lives] /\ given \in [Tabs -> SUBSET Lives]
    /\ leaked \subseteq Lives

\* What is typed into a tab reaches a session that was opened for it, whatever
\* reconnects and closes go on, as long as the isshd that gave out its id lives.
InputStaysHome == typed # Idle => typed.life \in given[typed.tab] \/ Stale(typed.tab)

\* A session that a close of a tab ends was opened for that tab, unless the tab is
\* from before a start of isshd.
CloseSparesOthers ==
    [][\A c \in closes : CloseArrives(c) /\ sessions[c.session] # Gone
          => sessions[c.session].life \in given[c.tab] \/ Stale(c.tab)]_vars

\* Someone still answers for session id: a tab that shows it, a close under way, or
\* an open whose answer is under way.
Held(id) ==
    \/ \E t \in Tabs : tabs[t].stage \in {"opening", "open"} /\ tabs[t].session = id
    \/ \E c \in closes : c.session = id
    \/ reconnect # Idle /\ reconnect.session = id

\* A session runs with nobody to answer for it only for a known reason: its close
\* failed, its tab was closed during the reconnect, a late poll answer put the old
\* session back into the tab, or the window gave up on the open that made it.
NoOtherLeak == \A id \in Ids : Alive(id) => Held(id) \/ sessions[id].life \in leaked

\* After a reconnect the terminal writes to the session its tab has now.
InputFollowsReconnect ==
    [][\A t \in Tabs : Reconnected /\ Open(t) /\ reconnect.tab = t
          => tabs'[t].bound = tabs'[t].session]_vars

=============================================================================
