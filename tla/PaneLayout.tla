----------------------------- MODULE PaneLayout -----------------------------
(* The tabs and split panes of the window (App.svelte, splitLayout.ts), and the  *)
(* record in localStorage from which they are opened again after a restart. A    *)
(* split or a copy of a tab waits for a session to open, a restore waits once    *)
(* for every tab, and meanwhile the user goes on and shells exit.                *)
(* The layout tree is abstracted to the sequence of its leaves, which is all     *)
(* that anything but the drawing reads: a new pane comes right after its source, *)
(* a removal takes a leaf out. <<>> is no layout. All profile tabs have one      *)
(* profile. isshd numbers local and SSH sessions apart, from 1 whenever it       *)
(* starts; the window keeps its tabs meanwhile, so that two can have one id.     *)
(* Bounds: the session ids; the user opens a tab only while fewer than MaxTabs   *)
(* are open; MaxRare splits, copies, reconnects, restarts of the window and of   *)
(* isshd and visits of the home page in all, MaxClones of the first two at once. *)
EXTENDS Naturals, Sequences, FiniteSets, SequencesExt, Functions

CONSTANTS Kinds, MaxId, MaxTabs, MaxClones, MaxRare

\* typed: SSH, to an address without a profile
AllKinds == {"local", "profile", "typed"}
ASSUME KindsAssumption == Kinds \subseteq AllKinds
ASSUME BoundsAssumption == {MaxId, MaxTabs, MaxClones, MaxRare} \subseteq Nat

VARIABLES
    window,     \* what App.svelte keeps of tabs and panes, and the stored record
    clones,     \* splitTab and cloneTab under way
    restore,    \* restoreRecoveredTabs
    counters,   \* isshd: the numbers of the next local and of the next SSH session
    rare,       \* (bound)
    gone,       \* history: ids that a tab has lost, but something may still use
    crossed     \* history: a clone or the restore took an id that another had taken, or
                \* isshd gave out an id that a clone held

layoutVars == <<window, clones, restore, counters, rare, gone, crossed>>

TabIds == {"local", "ssh"} \X (1..MaxId)
None   == <<"none", 0>>                     \* no id, or ''
Slots  == 1..MaxClones

NoRecord == [layout |-> <<>>, tabs |-> <<>>]
NewWindow(saved) ==
    [ tabs |-> <<>>, active |-> None, home |-> FALSE, layout |-> <<>>, panes |-> <<>>,
      maximized |-> None, saved |-> saved ]
NoClone   == [step |-> "idle", source |-> None, kind |-> "local", previous |-> None,
              before |-> {}, split |-> FALSE, found |-> None]
NoRestore == [step |-> "idle", record |-> NoRecord, layout |-> <<>>, todo |-> <<>>,
              before |-> {}, mapping |-> <<>>]

---------------------------------------------------------------------------
(* What the window derives from its tabs and its layout                     *)

\* The sequences of[s[1]], of[s[2]] and so on in a row, and the elements of s in a set.
Spread(s, of) ==
    LET row[i \in 0..Len(s)] == IF i = 0 THEN <<>> ELSE row[i - 1] \o of[s[i]]
    IN  row[Len(s)]
Only(s, set) == Spread(s, [x \in ToSet(s) |-> IF x \in set THEN <<x>> ELSE <<>>])

IdsOf(w)       == {w.tabs[i].id : i \in DOMAIN w.tabs}
\* layoutPaneIds, splitRootId, headerTabs, visiblePaneIds
LayoutPanes(w) == Only(w.layout, IdsOf(w))
HasSplit(w)    == Len(LayoutPanes(w)) > 1
Root(w)        == IF HasSplit(w) THEN LayoutPanes(w)[1] ELSE None
Headers(w)     == {id \in IdsOf(w) : HasSplit(w) => id = Root(w) \/ id \notin ToSet(w.layout)}
Visible(w)     == IF w.maximized # None THEN {w.maximized}
                  ELSE IF HasSplit(w) THEN ToSet(LayoutPanes(w)) ELSE {w.active}

Sync(w) == [w EXCEPT !.panes = LayoutPanes(w)]

\* A tab without a profile is recorded as local, whatever it is.
Recorded(tabs) == [i \in DOMAIN tabs |-> [old |-> tabs[i].id,
                       kind |-> IF tabs[i].kind = "profile" THEN "profile" ELSE "local"]]
Persist(w) == [w EXCEPT !.saved = IF w.tabs = <<>> THEN NoRecord
                                  ELSE [layout |-> w.layout, tabs |-> Recorded(w.tabs)]]

\* insertSplitPane, removeSplitPane, remapRecoveryLayout
Insert(layout, source, id) ==
    IF layout = <<>> THEN <<source, id>>
    ELSE Spread(layout, [leaf \in ToSet(layout) |->
                            IF leaf = source THEN <<source, id>> ELSE <<leaf>>])
Without(layout, id)    == Only(layout, ToSet(layout) \ {id})
\* Mutated form of Remap: the panes that were not restored stay.
RemapAll(layout, mapping) ==
    [i \in DOMAIN layout |-> IF layout[i] \in DOMAIN mapping THEN mapping[layout[i]] ELSE None]
Remap(layout, mapping) ==
    Spread(layout, [leaf \in ToSet(layout) |->
                       IF leaf \in DOMAIN mapping THEN <<mapping[leaf]>> ELSE <<>>])

\* The tabs that are not id.
Others(tabs, id) == Only(tabs, {tab \in ToSet(tabs) : tab.id # id})

---------------------------------------------------------------------------
(* closeTab, closeSplit and activateTab call each other                     *)

\* Mutated form of Removed: the leaf stays in the layout.
RemovedTab(w, id) ==
    Persist(Sync([w EXCEPT !.tabs = Others(@, id),
                           !.maximized = IF @ = id THEN None ELSE @]))
\* Mutated form of Removed: the record is written before the tab goes.
RemovedLate(w, id) ==
    Sync([Persist(w) EXCEPT !.tabs = Others(@, id),
                            !.layout = Without(@, id),
                            !.maximized = IF @ = id THEN None ELSE @])
\* The first half of closeTab.
Removed(w, id) ==
    Persist(Sync([w EXCEPT !.tabs = Others(@, id),
                           !.layout = Without(@, id),
                           !.maximized = IF @ = id THEN None ELSE @]))

\* closeTab for a pane of a split that is closed: there is no layout any more.
CloseClone(w, id) ==
    IF id \notin IdsOf(w) THEN w
    ELSE LET r == Removed(w, id)
         IN  IF r.active # id THEN r
             ELSE IF r.tabs = <<>> THEN [r EXCEPT !.active = None]
             ELSE [r EXCEPT !.active = r.tabs[1].id, !.home = FALSE]

\* The first leaf keeps its tab, and becomes active if one of the leaves is.
CloseSplit(w) ==
    LET cleared == [w EXCEPT !.panes = <<>>, !.maximized = None, !.layout = <<>>,
                             !.active = IF @ \in ToSet(w.layout) THEN w.layout[1] ELSE @]
        closed[i \in 1..Len(w.layout)] ==
            IF i = 1 THEN cleared ELSE CloseClone(closed[i - 1], w.layout[i])
    IN  Persist(IF w.layout = <<>> THEN cleared ELSE closed[Len(w.layout)])

\* Going to a tab outside the split closes the split.
Activate(w, id) ==
    IF w.active = id /\ ~w.home THEN w
    ELSE LET s == IF Len(w.panes) > 1 /\ id \notin ToSet(w.panes) THEN CloseSplit(w) ELSE w
         IN  [s EXCEPT !.active = id, !.home = FALSE]

\* Mutated form of NextTab: the tab that was last.
NextPane(w) == IF w.layout # <<>> THEN w.layout[1] ELSE None
NextTab(w) == IF w.layout # <<>> /\ w.layout[1] \in IdsOf(w) THEN w.layout[1] ELSE w.tabs[1].id

CloseTab(w, id) ==
    LET r == Removed(w, id)
        s == IF r.layout # <<>> /\ Len(r.panes) < 2 THEN CloseSplit(r) ELSE r
    IN  IF s.active # id THEN s
        ELSE IF s.tabs = <<>> THEN [s EXCEPT !.active = None]
        ELSE Activate(s, NextTab(s))

\* closeHeaderTab: the first pane stands for its group.
CloseHeader(w, id) == CloseTab(IF HasSplit(w) /\ id = Root(w) THEN CloseSplit(w) ELSE w, id)

\* The $effect that drops a layout none of whose leaves is a tab.
Effect(w) ==
    IF w.layout # <<>> /\ ToSet(w.layout) \cap IdsOf(w) = {}
    THEN [w EXCEPT !.layout = <<>>, !.panes = <<>>] ELSE w

\* Ids that a continuation has taken before it waited, and will use afterwards.
Held == Range(restore.mapping)
            \cup UNION {{clones[c].source, clones[c].previous, clones[c].found} : c \in Slots}

\* Tabs that a split or the restore took for the one it has opened, or that are panes.
Taken == {clones[c].found : c \in Slots} \cup Range(restore.mapping) \cup ToSet(window.layout)
\* The tabs that splits under way go on with.
Waiting == UNION {{clones[c].source, clones[c].found} : c \in Slots}
\* A tab gets the id given, and a split or the restore takes the id found, or None.
Crosses(given, found) ==
    crossed' = \/ crossed
               \/ given # None /\ given \in Waiting
               \/ found # None /\ found \in Taken

\* The window becomes w. Of lost are the ids that a tab gives up or gets back, which its pane,
\* the active tab and the rest keep.
Changes(w, lost) ==
    /\ window' = Effect(w)
    /\ gone' = gone \cup (((IdsOf(window) \cap Held) \cup lost) \ IdsOf(w))
Becomes(w) == Changes(w, {})

---------------------------------------------------------------------------
(* isshd                                                                    *)

Family(kind) == IF kind = "local" THEN "local" ELSE "ssh"
NewId(kind)  == <<Family(kind), counters[Family(kind)]>>
Allocates(kind) ==
    /\ counters[Family(kind)] <= MaxId
    /\ counters' = [counters EXCEPT ![Family(kind)] = @ + 1]
\* isshd has given the id since it started.
Served(id) == id[2] < counters[id[1]]
Rare == rare < MaxRare /\ rare' = rare + 1

\* The tabs stay; their polls fail until isshd has a session of that id again.
RuntimeRestarts ==
    /\ Rare
    /\ counters' = [family \in {"local", "ssh"} |-> 1]
    /\ UNCHANGED <<window, clones, restore, gone, crossed>>

---------------------------------------------------------------------------
(* The user, and shells that exit                                           *)

\* addLocalTab and the end of confirmFingerprint, once the session is open.
Opened(w, kind) ==
    LET tab == [id |-> NewId(kind), kind |-> kind, former |-> {}]
    IN  Persist([w EXCEPT !.tabs = Append(@, tab), !.active = tab.id, !.home = FALSE])

OpenTab(kind) ==
    /\ Allocates(kind) /\ Len(window.tabs) < MaxTabs
    /\ Becomes(Opened(window, kind)) /\ Crosses(NewId(kind), None)
    /\ UNCHANGED <<clones, restore, rare>>

\* showHomePage; connectHost leaves the home page before it connects.
ShowHome(home) ==
    /\ window.home # home /\ (IF home THEN Rare ELSE UNCHANGED rare)
    /\ Becomes([window EXCEPT !.home = home])
    /\ UNCHANGED <<clones, restore, counters, crossed>>

\* A click on a header or a pane, Ctrl+Tab.
Click(id) ==
    /\ id \in Headers(window) \cup (Visible(window) \cap IdsOf(window))
    /\ Becomes(Activate(window, id))
    /\ UNCHANGED <<clones, restore, counters, rare, crossed>>

\* navigatePane, by the panes of the last sync; an active tab that is none has index -1.
Navigate(back) ==
    /\ window.panes # <<>>
    /\ LET n     == Len(window.panes)
           at    == {i \in 1..n : window.panes[i] = window.active}
           index == IF at = {} THEN 0 ELSE CHOOSE i \in at : \A j \in at : i <= j
           next  == window.panes[((index + n - (IF back THEN 2 ELSE 0)) % n) + 1]
       IN  /\ next \in IdsOf(window)
           /\ Becomes(Activate(window, next))
    /\ UNCHANGED <<clones, restore, counters, rare, crossed>>

\* togglePaneMaximize
Maximize ==
    /\ Len(window.panes) > 1
    /\ Becomes([window EXCEPT !.maximized = IF @ = window.active THEN None ELSE window.active])
    /\ UNCHANGED <<clones, restore, counters, rare, crossed>>

\* The button and a hotkey, which works without a split too.
CancelSplit ==
    /\ Becomes(CloseSplit(window))
    /\ UNCHANGED <<clones, restore, counters, rare, crossed>>

\* A header is closed, or Ctrl+W closes the active tab, with its group if it is the first.
Close(id) ==
    /\ \/ id \in Headers(window)
       \/ id \in IdsOf(window) /\ id = window.active
    /\ Becomes(CloseHeader(window, id))
    /\ UNCHANGED <<clones, restore, counters, rare, crossed>>

\* pollOutput sees that the session has ended.
Exits(id) ==
    /\ id \in IdsOf(window) /\ Served(id)
    /\ Becomes(CloseTab(window, id))
    /\ UNCHANGED <<clones, restore, counters, rare, crossed>>

\* The tab at i has another session. Only it, and a split that has it as its new tab, learn
\* the id; which of two tabs of one id that is, the ids do not tell.
Renamed(w, i, id) ==
    [w EXCEPT !.tabs[i].id = id, !.tabs[i].former = (@ \cup {w.tabs[i].id}) \ {id}]
Follow(i, id) ==
    LET old == window.tabs[i].id
        all == {c \in Slots : clones[c].found = old}
    IN  \E moved \in SUBSET all :
            /\ moved = all \/ crossed \/ old \in IdsOf(Renamed(window, i, id))
            /\ clones' = [c \in Slots |-> IF c \in moved THEN [clones[c] EXCEPT !.found = id]
                                          ELSE clones[c]]
            /\ Crosses(id, IF moved = {} THEN None ELSE id)

\* reconnectTab gives the tab another session.
Reconnect(i) ==
    /\ i \in DOMAIN window.tabs /\ window.tabs[i].kind # "local"
    /\ Rare /\ Allocates("profile")
    /\ Changes(Renamed(window, i, NewId("profile")), {window.tabs[i].id})
    /\ Follow(i, NewId("profile"))
    /\ UNCHANGED restore

\* A resize or a poll of a session that the tab had before its reconnect is answered now, and
\* gives it that session again; a poll that sees it ended closes the tab.
LateAnswer(i, old) ==
    /\ i \in DOMAIN window.tabs /\ old \in window.tabs[i].former
    /\ LET w == Renamed(window, i, old)
       IN  \E ended \in BOOLEAN :
               Changes(IF ended THEN CloseTab(w, old) ELSE w, {window.tabs[i].id, old})
    /\ Follow(i, old)
    /\ UNCHANGED <<restore, counters, rare>>

---------------------------------------------------------------------------
(* splitTab and duplicateTab: a session opens, the state is synchronised    *)

\* A split of the active tab, or of one from its menu; a copy from the menu.
Clone(c, id, split) ==
    /\ clones[c].step = "idle" /\ \A d \in Slots : d < c => clones[d].step # "idle"
    /\ Rare
    /\ id \in Headers(window) \/ (split /\ id = window.active)
    /\ \E i \in DOMAIN window.tabs :
        /\ window.tabs[i].id = id /\ window.tabs[i].kind # "typed"
        /\ clones' = [clones EXCEPT ![c] =
              [ step |-> "opening", source |-> id, kind |-> window.tabs[i].kind,
                previous |-> window.active, split |-> split, found |-> None,
                before |-> IF window.tabs[i].kind = "local" THEN {} ELSE IdsOf(window) ]]
        /\ Becomes([window EXCEPT !.home = @ /\ window.tabs[i].kind = "local"])
    /\ UNCHANGED <<restore, counters, crossed>>

\* After the tab cloneTab synchronises the state; only a split then goes on.
Found(clone, id) ==
    IF clone.split /\ id # None
    THEN [clone EXCEPT !.step = "syncing", !.found = id, !.kind = "local", !.before = {}]
    ELSE NoClone

CloneOpensLocal(c) ==
    /\ clones[c].step = "opening" /\ clones[c].kind = "local"
    /\ Allocates("local")
    /\ Becomes([Opened(window, "local") EXCEPT !.active = clones[c].previous,
                                               !.home   = window.home])
    /\ clones' = [clones EXCEPT ![c] = Found(@, NewId("local"))]
    /\ Crosses(NewId("local"), NewId("local"))
    /\ UNCHANGED <<restore, rare>>

CloneFails(c) ==
    /\ clones[c].step = "opening" /\ clones[c].kind = "local"
    /\ Becomes([window EXCEPT !.active = clones[c].previous])
    /\ clones' = [clones EXCEPT ![c] = NoClone]
    /\ UNCHANGED <<restore, counters, rare, crossed>>

\* Tabs of a kind that have come since, the first of them or none.
NewTab(w, before, kind) ==
    LET new == Only(w.tabs, {tab \in ToSet(w.tabs) : tab.id \notin before /\ tab.kind = kind})
    IN  IF new = <<>> THEN None ELSE new[1].id

\* connectHost has ended, with a tab or without: the first new tab of the profile
\* is taken for the clone.
CloneConnected(c) ==
    /\ clones[c].step = "opening" /\ clones[c].kind = "profile"
    /\ \E opened \in BOOLEAN :
        LET w     == IF opened THEN Opened(window, "profile") ELSE window
            found == NewTab(w, clones[c].before, "profile")
        IN  /\ IF opened THEN Allocates("profile") ELSE UNCHANGED counters
            /\ Becomes([w EXCEPT !.active = clones[c].previous, !.home = FALSE])
            /\ clones' = [clones EXCEPT ![c] = Found(@, found)]
            /\ Crosses(IF opened THEN NewId("profile") ELSE None, found)
    /\ UNCHANGED <<restore, rare>>

\* The rest of splitTab. The source may be in no layout, or gone.
CloneEnds(c) ==
    /\ clones[c].step = "syncing"
    /\ clones' = [clones EXCEPT ![c] = NoClone]
    /\ LET source == clones[c].source
           s == IF window.layout # <<>> /\ source \notin ToSet(window.layout)
                THEN CloseSplit(window) ELSE window
           i == Sync([s EXCEPT !.layout = Insert(@, source, clones[c].found)])
       IN  Becomes([Persist([i EXCEPT !.maximized = None]) EXCEPT !.active = source])
    /\ UNCHANGED <<restore, counters, rare, crossed>>

---------------------------------------------------------------------------
(* The window is closed or crashes, and starts again                        *)

RestartWindow ==
    /\ Rare
    /\ window' = NewWindow(window.saved)
    /\ clones' = [c \in Slots |-> NoClone]
    /\ restore' = [NoRestore EXCEPT !.step = "loaded"]
    /\ gone' = {}
    /\ UNCHANGED <<counters, crossed>>

\* restoreRecoveredTabs starts when the runtime and the vault have answered.
ReadRecord ==
    /\ restore.step = "loaded"
    /\ restore' = IF window.saved = NoRecord THEN NoRestore
                  ELSE [restore EXCEPT !.step = "reading", !.record = window.saved]
    /\ UNCHANGED <<window, clones, counters, rare, gone, crossed>>

\* The host profiles are there. The layout that the window has by now is put aside.
BeginRestore ==
    /\ restore.step = "reading"
    /\ restore' = [restore EXCEPT !.step = "opening", !.todo = restore.record.tabs,
                      !.before = IdsOf(window), !.record = NoRecord,
                      !.layout = IF restore.record.layout # <<>> THEN restore.record.layout
                                 ELSE window.layout]
    /\ Becomes([window EXCEPT !.layout = <<>>, !.panes = <<>>])
    /\ UNCHANGED <<clones, counters, rare, crossed>>

\* The next tab of the record, after this one has been found or not, and perhaps opened.
NextEntry(w, given, found) ==
    /\ restore' = [restore EXCEPT !.step = "opening", !.todo = Tail(@), !.before = IdsOf(w),
          !.mapping = IF found = None THEN @
                      ELSE [old \in DOMAIN @ \cup {Head(restore.todo).old} |->
                               IF old = Head(restore.todo).old THEN found ELSE @[old]]]
    /\ Crosses(given, found)

RestoreLocal ==
    /\ restore.step = "opening" /\ restore.todo # <<>> /\ Head(restore.todo).kind = "local"
    /\ \/ /\ Allocates("local")
          /\ Becomes(Opened(window, "local"))
          /\ restore' = [restore EXCEPT !.step = "syncing"]
          /\ Crosses(NewId("local"), None)
       \/ /\ NextEntry(window, None, NewTab(window, restore.before, "local"))
          /\ UNCHANGED <<window, counters, gone>>
    /\ UNCHANGED <<clones, rare>>

RestoredLocal ==
    /\ restore.step = "syncing"
    /\ NextEntry(window, None, NewTab(window, restore.before, "local"))
    /\ UNCHANGED <<window, clones, counters, rare, gone>>

\* Without a profile or a trusted key the tab is passed over; connectHost may fail.
RestoreProfile ==
    /\ restore.step = "opening" /\ restore.todo # <<>> /\ Head(restore.todo).kind = "profile"
    /\ \/ /\ NextEntry(window, None, None)
          /\ UNCHANGED <<window, counters, gone>>
       \/ \E opened \in BOOLEAN :
            LET w == IF opened THEN Opened(window, "profile") ELSE [window EXCEPT !.home = FALSE]
            IN  /\ IF opened THEN Allocates("profile") ELSE UNCHANGED counters
                /\ NextEntry(w, IF opened THEN NewId("profile") ELSE None,
                             NewTab(w, restore.before, "profile"))
                /\ Becomes(w)
    /\ UNCHANGED <<clones, rare>>

EndRestore ==
    /\ restore.step = "opening" /\ restore.todo = <<>>
    /\ restore' = NoRestore
    /\ LET w == [window EXCEPT !.layout = Remap(restore.layout, restore.mapping)]
       IN  Becomes(Persist(IF w.layout = <<>> THEN w ELSE Sync(w)))
    /\ UNCHANGED <<clones, counters, rare, crossed>>

---------------------------------------------------------------------------
LayoutInit ==
    /\ window = NewWindow(NoRecord)
    /\ clones = [c \in Slots |-> NoClone] /\ restore = NoRestore
    /\ counters = [family \in {"local", "ssh"} |-> 1]
    /\ rare = 0 /\ gone = {} /\ crossed = FALSE

LayoutNext ==
    \/ \E kind \in Kinds : OpenTab(kind)
    \/ \E home \in BOOLEAN : ShowHome(home)
    \/ \E back \in BOOLEAN : Navigate(back)
    \/ \E id \in TabIds : Click(id) \/ Close(id) \/ Exits(id)
    \/ \E i \in DOMAIN window.tabs : Reconnect(i) \/ \E old \in TabIds : LateAnswer(i, old)
    \/ Maximize \/ CancelSplit \/ RuntimeRestarts
    \/ \E c \in Slots, id \in TabIds, split \in BOOLEAN : Clone(c, id, split)
    \/ \E c \in Slots : CloneOpensLocal(c) \/ CloneFails(c) \/ CloneConnected(c) \/ CloneEnds(c)
    \/ RestartWindow \/ ReadRecord \/ BeginRestore
    \/ RestoreLocal \/ RestoredLocal \/ RestoreProfile \/ EndRestore

LayoutSpec == LayoutInit /\ [][LayoutNext]_layoutVars

---------------------------------------------------------------------------
(* Properties.                                                              *)

\* The type invariant.
MaybeId     == TabIds \cup {None}
EntryType   == [old: TabIds, kind: {"local", "profile"}]
RecordType  == [layout: Seq(TabIds), tabs: Seq(EntryType)]
TabType     == [id: TabIds, kind: AllKinds, former: SUBSET TabIds]
WindowType  == [ tabs: Seq(TabType), active: MaybeId, home: BOOLEAN, layout: Seq(TabIds),
                 panes: Seq(TabIds), maximized: MaybeId, saved: RecordType ]
CloneType   == [ step: {"idle", "opening", "syncing"}, source: MaybeId, previous: MaybeId,
                 kind: {"local", "profile"}, before: SUBSET TabIds, split: BOOLEAN,
                 found: MaybeId ]
RestoreType == [ step: {"idle", "loaded", "reading", "opening", "syncing"}, record: RecordType,
                 layout: Seq(TabIds), todo: Seq(EntryType), before: SUBSET TabIds,
                 mapping: UNION {[olds -> TabIds] : olds \in SUBSET TabIds} ]
LayoutTypeOK ==
    /\ window \in WindowType /\ clones \in [Slots -> CloneType] /\ restore \in RestoreType
    /\ counters \in [{"local", "ssh"} -> 1..(MaxId + 1)] /\ rare \in 0..MaxRare
    /\ gone \subseteq TabIds /\ crossed \in BOOLEAN

\* A session is in at most one pane, and every pane has a tab, after any order of splits, exits,
\* cancelled splits, restores and restarts of isshd. Known exceptions: a reconnect, the late
\* answer of the session before it, or a close while a split or a restore waits leaves an id
\* behind that no tab has; a split may take the tab of another split or of the restore, or the
\* restore that of a split, since both look for a tab that was not there before; and a restarted
\* isshd may give the new session the id of a pane or of a tab that a split waits with, so that a
\* split of local-1 is one of local-1 and local-1.
PanesAreTabs ==
    /\ ToSet(window.layout) \subseteq IdsOf(window) \cup gone
    /\ crossed \/ IsInjective(window.layout)

\* As long as there is a tab, a terminal is on the screen (or behind the home page): what is
\* maximised or active has not been closed, but for an id that is left behind as above.
SomethingIsShown ==
    window.tabs # <<>> =>
        Visible(window) \cap IdsOf(window) # {} \/ Visible(window) \subseteq gone

\* What a restart would open again is what is open, however the tabs came and went; only before
\* a restore has opened its first tab it is still what was open at the end of the last run. So a
\* restore that passes SSH tabs over, because the vault is locked, drops them from the record
\* too, although REQUIREMENTS.md:1666-1667 keeps them there until it is unlocked.
RecordIsCurrent ==
    \/ [i \in DOMAIN window.saved.tabs |-> window.saved.tabs[i].kind]
          = [i \in DOMAIN window.tabs |-> Recorded(window.tabs)[i].kind]
    \/ restore.step # "idle" /\ window.tabs = <<>>

=============================================================================
