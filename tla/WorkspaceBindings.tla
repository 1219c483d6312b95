-------------------------- MODULE WorkspaceBindings --------------------------
(***************************************************************************)
(* Which terminals belong to which Workspace: the bindings and agents of   *)
(* the SQLite store (crates/workspace), the session.sync requests by which *)
(* the window tells the store its tabs (App.svelte, syncWorkspaceState),   *)
(* and the restarts of isshd, after which session ids are used again.      *)
(*                                                                         *)
(* Every store operation holds the store's mutex and changes the database  *)
(* in one transaction: one operation is one step. A session.sync carries   *)
(* the tabs of the moment it was sent and may arrive later.                *)
(*                                                                         *)
(* A tab is told from another one with the same session id by the run of   *)
(* isshd (the epoch) that gave it the id. A tab whose session ended is     *)
(* still listed until the window closes it, as not connected.              *)
(***************************************************************************)
EXTENDS Integers, Sequences, FiniteSets, FiniteSetsExt

CONSTANTS
    Workspaces,   \* the ids create_workspace will hand out
    Profiles,     \* ids of saved host profiles
    NoProfile,    \* profile_id = NULL: a tab without a saved profile
    MaxId,        \* bound: session ids per run of isshd
    MaxRestarts,  \* bound: restarts of isshd
    MaxEnded,     \* bound: ids that are not connected at a time
    MaxAgents,    \* bound: agents registered at a time
    MaxBindings,  \* bound: binding rows at a time
    MaxSyncs      \* bound: session.sync requests under way

ASSUME BoundAssumption ==
    /\ NoProfile \notin Profiles
    /\ {MaxId, MaxRestarts, MaxEnded, MaxAgents, MaxBindings, MaxSyncs} \subseteq Nat

VARIABLES
    epoch,      \* runs of isshd before this one
    nextId,     \* next session id of this run
    tabs,       \* tabs of the window
    syncs,      \* session.sync requests under way, each the tabs it lists
    sessions,   \* WorkspaceStore.sessions: id -> profile_id and connected, lost at a restart
    workspace,  \* state of each row of the workspaces table
    bindings,   \* the bindings table, in the order of its rowids
    agents,     \* the agents table
    lastBound   \* the profile of the last binding.connected event of a session
                \* id in a workspace that named one (events table)

window == <<epoch, nextId, tabs>>
tables == <<workspace, bindings, agents, lastBound>>
vars   == <<window, syncs, sessions, tables>>

Ids == 1..MaxId
AnyProfile == Profiles \cup {NoProfile}
Tab == [id: Ids, epoch: 0..MaxRestarts, profile: AnyProfile, running: BOOLEAN]
Session == [profile: AnyProfile, connected: BOOLEAN]

\* binding_key: profile:<profile> or session:<id>
Key == [by: {"profile"}, of: Profiles] \cup [by: {"session"}, of: Ids]
Binding == [workspace: Workspaces, key: Key, session: Ids, profile: AnyProfile,
            status: {"connected", "disconnected"}]
\* legacy: what find_legacy_agent_profile_id reads from the events for it.
Agent == [workspace: Workspaces, session: Ids, profile: AnyProfile,
          legacy: AnyProfile]

Live(w) == workspace[w] = "live"
Alive == {w \in Workspaces : Live(w)}

---------------------------------------------------------------------------
(* The window and isshd.                                                     *)

\* addLocalTab or connectHost: a new session with the next id of this run.
OpenTab(p) ==
    /\ nextId <= MaxId
    /\ tabs' = tabs \cup {[id |-> nextId, epoch |-> epoch, profile |-> p, running |-> TRUE]}
    /\ nextId' = nextId + 1
    /\ UNCHANGED <<epoch, syncs, sessions, tables>>

\* The tabs the window or the store has as not running.
Ended ==
    {t.id : t \in {u \in UNION (syncs \cup {tabs}) : ~u.running}}
        \cup {id \in DOMAIN sessions : ~sessions[id].connected}

\* An answer tells the window that the session of a tab is not running any more; the
\* tab stays until closeTab.
SessionEnds(t) ==
    /\ t.running /\ Cardinality(Ended) < MaxEnded
    /\ tabs' = (tabs \ {t}) \cup {[t EXCEPT !.running = FALSE]}
    /\ UNCHANGED <<epoch, nextId, syncs, sessions, tables>>

\* closeTab drops every tab with the id.
CloseTab(id) ==
    /\ \E t \in tabs : t.id = id
    /\ tabs' = {t \in tabs : t.id # id}
    /\ UNCHANGED <<epoch, nextId, syncs, sessions, tables>>

\* The window sends session.sync.
SendSync ==
    /\ Cardinality(syncs) < MaxSyncs
    /\ syncs' = syncs \cup {tabs}
    /\ UNCHANGED <<window, sessions, tables>>

\* backfill_agent_profile_ids: agents with a session and no profile get the
\* profile that the events name for the session id they were registered with.
Backfilled ==
    {IF a.profile = NoProfile THEN [a EXCEPT !.profile = a.legacy] ELSE a : a \in agents}

\* isshd ends and starts again: the database stays, the sessions and the id
\* counter do not. The window may keep its tabs, or restart as well.
Restart ==
    /\ epoch < MaxRestarts
    /\ epoch' = epoch + 1 /\ nextId' = 1
    /\ tabs' \in {tabs, {}}
    /\ syncs' = {} /\ sessions' = << >>
    /\ agents' = Backfilled
    /\ UNCHANGED <<workspace, bindings, lastBound>>

---------------------------------------------------------------------------
(* sync_sessions.                                                            *)

\* Mutated form of Candidates: the old id wins over the profile.
CandidatesById(b, listed) == {id \in DOMAIN listed : id = b.session}

\* The sessions the store may match with a binding: those of its profile, or
\* the one with its id when it has none.
Candidates(b, listed) ==
    {id \in DOMAIN listed :
        IF b.profile # NoProfile THEN listed[id].profile = b.profile ELSE id = b.session}

\* Candidates no earlier binding took (used_session_ids).
Free(b, listed, taken) == Candidates(b, listed) \ taken

\* The matching: each binding takes the first session no earlier binding took; 0 for none.
Matching(rows, listed) ==
    CHOOSE match \in [DOMAIN rows -> Ids \cup {0}] :
        \A i \in DOMAIN rows :
            LET free == Free(rows[i], listed, {match[j] : j \in 1..(i - 1)})
            IN  match[i] = IF free = {} THEN 0 ELSE Min(free)

\* Mutated form of Disconnected: the session id is cleared.
DisconnectedCleared(b) == [b EXCEPT !.status = "disconnected", !.session = 0]

\* A binding without a session keeps the last id.
Disconnected(b) == [b EXCEPT !.status = "disconnected"]

Status(session) == IF session.connected THEN "connected" ELSE "disconnected"

\* The bindings table after the sync.
Rebound(rows, match, listed) ==
    [i \in DOMAIN rows |->
        IF match[i] = 0 THEN Disconnected(rows[i])
        ELSE [rows[i] EXCEPT !.session = match[i], !.profile = listed[match[i]].profile,
                             !.status = Status(listed[match[i]])]]

\* The agents that move with a binding.
Attached(a, b) == b.workspace = a.workspace /\ b.profile # NoProfile /\ b.profile = a.profile

\* update_agent_sessions: when a binding moved to another session, the agents of
\* its profile in its workspace follow. (A binding without a profile never
\* moves: it is matched by its own id.)
Followed(rows, match, all) ==
    LET moves(a) == {i \in DOMAIN rows :
                        match[i] \notin {0, rows[i].session} /\ Attached(a, rows[i])}
    IN  {IF moves(a) = {} THEN a ELSE [a EXCEPT !.session = match[Max(moves(a))]] : a \in all}

Duplicate(snapshot) == \E t, u \in snapshot : t # u /\ t.id = u.id

\* DuplicateSession: the backfill is done, nothing else.
SyncRefused(snapshot) ==
    /\ snapshot \in syncs /\ Duplicate(snapshot)
    /\ syncs' = syncs \ {snapshot}
    /\ agents' = Backfilled
    /\ UNCHANGED <<window, sessions, workspace, bindings, lastBound>>

Sync(snapshot) ==
    /\ snapshot \in syncs /\ ~Duplicate(snapshot)
    /\ syncs' = syncs \ {snapshot}
    /\ sessions' = [id \in {t.id : t \in snapshot} |->
                        LET t == CHOOSE u \in snapshot : u.id = id
                        IN  [profile |-> t.profile, connected |-> t.running]]
    /\ LET match == Matching(bindings, sessions') IN
        /\ bindings' = Rebound(bindings, match, sessions')
        /\ agents' = Followed(bindings, match, Backfilled)
    /\ UNCHANGED <<window, workspace, lastBound>>

---------------------------------------------------------------------------
(* The Workspace operations.                                                 *)

CreateWorkspace(w) ==
    /\ workspace[w] = "new"
    /\ workspace' = [workspace EXCEPT ![w] = "live"]
    /\ UNCHANGED <<window, syncs, sessions, bindings, agents, lastBound>>

\* The bindings table when only the rows at these places stay.
RowsAt(stay) ==
    [k \in 1..Cardinality(stay) |->
        bindings[CHOOSE i \in stay : Cardinality({j \in stay : j <= i}) = k]]

\* The rows ON DELETE CASCADE leaves.
Survives(row, w) == row.workspace # w

\* delete_workspace: the foreign keys take the rows, the events too.
DeleteWorkspace(w) ==
    /\ Live(w)
    /\ workspace' = [workspace EXCEPT ![w] = "deleted"]
    /\ bindings' = RowsAt({i \in DOMAIN bindings : Survives(bindings[i], w)})
    /\ agents' = {a \in agents : Survives(a, w)}
    /\ lastBound' = [lastBound EXCEPT ![w] = [id \in Ids |-> NoProfile]]
    /\ UNCHANGED <<window, syncs, sessions>>

KeyOf(id, p) ==
    IF p # NoProfile THEN [by |-> "profile", of |-> p] ELSE [by |-> "session", of |-> id]

\* Mutated form of BoundElsewhere: the key alone.
BoundElsewhereByKey(w, id) ==
    \E i \in DOMAIN bindings :
        bindings[i].workspace # w /\ bindings[i].key = KeyOf(id, sessions[id].profile)

\* bind refuses a session whose key or id another Workspace's row holds.
BoundElsewhere(w, id) ==
    \E i \in DOMAIN bindings :
        /\ bindings[i].workspace # w
        /\ bindings[i].key = KeyOf(id, sessions[id].profile) \/ bindings[i].session = id

\* bind: INSERT, or UPDATE of the row with the same workspace and key. A refused
\* bind records a security event only.
Bind(w, id) ==
    /\ Live(w) /\ id \in DOMAIN sessions
    /\ ~BoundElsewhere(w, id)
    /\ LET p   == sessions[id].profile
           row == [workspace |-> w, key |-> KeyOf(id, p), session |-> id, profile |-> p,
                   status |-> Status(sessions[id])]
           at  == {i \in DOMAIN bindings : bindings[i].workspace = w /\ bindings[i].key = row.key}
       IN /\ bindings' = IF at = {} THEN Append(bindings, row)
                         ELSE [i \in DOMAIN bindings |-> IF i \in at THEN row ELSE bindings[i]]
          /\ lastBound' = IF p = NoProfile THEN lastBound ELSE [lastBound EXCEPT ![w][id] = p]
    /\ Len(bindings') <= MaxBindings
    /\ UNCHANGED <<window, syncs, sessions, workspace, agents>>

\* unbind: the rows of the workspace with the session id; its agents stay.
Unbind(w, id) ==
    /\ Live(w)
    /\ bindings' = RowsAt({i \in DOMAIN bindings :
                             ~(bindings[i].workspace = w /\ bindings[i].session = id)})
    /\ UNCHANGED <<window, syncs, sessions, workspace, agents, lastBound>>

IsBound(w, id) ==
    \E i \in DOMAIN bindings : bindings[i].workspace = w /\ bindings[i].session = id

\* register_agent with a session: the session is listed, and a row of the
\* workspace holds its id. (An agent without a session is attached to nothing.)
RegisterAgent(w, id) ==
    /\ Live(w) /\ id \in DOMAIN sessions
    /\ IsBound(w, id)
    /\ Cardinality(agents) < MaxAgents
    /\ LET p == sessions[id].profile
       IN  agents' = agents \cup
              {[ workspace |-> w, session |-> id, profile |-> p,
                 legacy |-> IF p # NoProfile THEN p ELSE lastBound[w][id] ]}
    /\ UNCHANGED <<window, syncs, sessions, workspace, bindings, lastBound>>

UnregisterAgent(a) ==
    /\ agents' = agents \ {a}
    /\ UNCHANGED <<window, syncs, sessions, workspace, bindings, lastBound>>

---------------------------------------------------------------------------
Init ==
    /\ epoch = 0 /\ nextId = 1 /\ tabs = {} /\ syncs = {}
    /\ sessions = << >>
    /\ workspace = [w \in Workspaces |-> "new"]
    /\ bindings = << >> /\ agents = {}
    /\ lastBound = [w \in Workspaces |-> [id \in Ids |-> NoProfile]]

Next ==
    \/ \E p \in AnyProfile : OpenTab(p)
    \/ \E t \in tabs : SessionEnds(t)
    \/ \E id \in Ids : CloseTab(id)
    \/ Restart
    \/ SendSync
    \/ \E snapshot \in syncs : Sync(snapshot) \/ SyncRefused(snapshot)
    \/ \E w \in Workspaces : CreateWorkspace(w) \/ DeleteWorkspace(w)
    \/ \E w \in Workspaces, id \in Ids : Bind(w, id) \/ Unbind(w, id) \/ RegisterAgent(w, id)
    \/ \E a \in agents : UnregisterAgent(a)

Spec == Init /\ [][Next]_vars

---------------------------------------------------------------------------
(* Properties.                                                               *)

\* The type invariant.
TypeOK ==
    /\ epoch \in 0..MaxRestarts /\ nextId \in 1..(MaxId + 1)
    /\ tabs \subseteq Tab
    /\ syncs \subseteq SUBSET Tab
    /\ DOMAIN sessions \subseteq Ids /\ \A id \in DOMAIN sessions : sessions[id] \in Session
    /\ workspace \in [Workspaces -> {"new", "live", "deleted"}]
    /\ bindings \in Seq(Binding)
    /\ agents \subseteq Agent
    /\ lastBound \in [Workspaces -> [Ids -> AnyProfile]]

\* No two Workspaces are connected to one session, whatever ids the session
\* store hands out again (the checks of bind, the used ids of sync_sessions).
ConnectedSessionHasOneWorkspace ==
    \A i, j \in DOMAIN bindings :
        /\ bindings[i].status = "connected" /\ bindings[j].status = "connected"
        /\ bindings[i].session = bindings[j].session
        => bindings[i].workspace = bindings[j].workspace

Synced == \E snapshot \in syncs : Sync(snapshot)

\* A sync keeps the Workspaces of different hosts apart, though the ids of sessions start over:
\* it connects a binding that has a profile only to a tab of that profile (the comment in
\* sync_sessions), and when it moves the binding of a profile to another tab, the agents of
\* that profile in the Workspace are on a tab of the profile afterwards.
SyncKeepsProfiles ==
    [][Synced => \A i \in DOMAIN bindings : bindings[i].profile # NoProfile =>
          /\ bindings'[i].status = "connected" =>
                sessions'[bindings'[i].session].profile = bindings[i].profile
          /\ bindings'[i].session # bindings[i].session =>
                \A a \in agents' :
                    (a.workspace = bindings[i].workspace /\ a.profile = bindings[i].profile)
                        => a.session \in DOMAIN sessions' /\ sessions'[a.session].profile = a.profile]_vars

==============================================================================
