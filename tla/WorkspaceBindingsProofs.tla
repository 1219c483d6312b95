----------------------- MODULE WorkspaceBindingsProofs -----------------------
(* Proofs about WorkspaceBindings, for any Workspaces, profiles and bounds: its  *)
(* type invariant, that no session is connected to two Workspaces, and that a   *)
(* session.sync keeps to the profiles.                                          *)
EXTENDS WorkspaceBindings, FiniteSetTheorems, SequenceTheorems, WellFoundedInduction, TLAPS

---------------------------------------------------------------------------
(* Numbers and sequences.                                                   *)

\* Numbers are well-founded: a set of them has a least one.
LEMMA LeastIsThere ==
    ASSUME NEW S, S \subseteq Nat, S # {}
    PROVE  \E x \in S : \A y \in S : x <= y
<1> DEFINE R == {ss \in Nat \X Nat : ss[1] < ss[2]}
<1>1. IsWellFoundedOn(R, Nat)
  BY NatLessThanWellFounded DEF OpToRel
<1>2. PICK x \in S : \A y \in S : <<y, x>> \notin R
  BY <1>1, WFMin, Zenon
<1>3. \A y \in S : x \in Nat /\ y \in Nat /\ ~ (y < x)
  <2> SUFFICES ASSUME NEW y \in S PROVE x \in Nat /\ y \in Nat /\ ~ (y < x)
    OBVIOUS
  <2>1. x \in Nat /\ y \in Nat /\ <<y, x>> \in Nat \X Nat
    OBVIOUS
  <2> QED
    BY <1>2, <2>1
<1> QED
  BY <1>3

\* So the CHOOSE of Min and that of Max mean something.
LEMMA MinIsThere ==
    ASSUME NEW S, S \subseteq Nat, S # {}
    PROVE  Min(S) \in S
  BY LeastIsThere, Zenon DEF Min

LEMMA MaxIsThere ==
    ASSUME NEW S, NEW n \in Nat, S \subseteq 1..n, S # {}
    PROVE  Max(S) \in S
<1> DEFINE Above == {u \in Nat : \A y \in S : y <= u}
<1>1. n \in Above
  OBVIOUS
<1>2. PICK u \in Above : \A v \in Above : u <= v
  BY <1>1, LeastIsThere
<1>3. u \in S
  <2> SUFFICES ASSUME u \notin S PROVE FALSE
    OBVIOUS
  <2>1. PICK y \in S : TRUE
    OBVIOUS
  <2>2. \A z \in S : z \in Nat /\ z <= u /\ z # u
    BY <1>2
  <2>3. u - 1 \in Above
    BY <2>1, <2>2
  <2> QED
    BY <1>2, <2>3
<1>4. \E x \in S : \A y \in S : x >= y
  BY <1>2, <1>3
<1> QED
  BY <1>4, Zenon DEF Max

\* The k-th element of a set of numbers is there.
LEMMA KthIsThere ==
    ASSUME NEW n \in Nat, NEW S, S \subseteq 1..n, NEW k \in 1..Cardinality(S)
    PROVE  \E i \in S : Cardinality({j \in S : j <= i}) = k
<1> DEFINE UpTo(m) == {j \in S : j <= m}
           Enough == {m \in 0..n : Cardinality(UpTo(m)) >= k}
<1>0. \A j \in S : j \in Nat /\ 1 <= j /\ j <= n
  OBVIOUS
<1>1. IsFiniteSet(S) /\ \A m \in Nat : IsFiniteSet(UpTo(m)) /\ Cardinality(UpTo(m)) \in Nat
  <2>1. IsFiniteSet(S)
    <3>1. IsFiniteSet(1..n)
      BY FS_Interval
    <3> QED
      BY <3>1, FS_Subset
  <2>2. \A m \in Nat : UpTo(m) \in SUBSET S
    OBVIOUS
  <2> HIDE DEF UpTo
  <2>3. \A m \in Nat : IsFiniteSet(UpTo(m))
    BY <2>1, <2>2, FS_Subset
  <2> QED
    BY <2>1, <2>3, FS_CardinalityType
<1>2. UpTo(n) = S /\ UpTo(0) = {}
  <2>1. \A j \in S : j <= n /\ ~(j <= 0)
    BY <1>0
  <2> QED
    BY <2>1
<1>a. \A m \in Nat : m # 0 => /\ m \notin S => UpTo(m) = UpTo(m - 1)
                              /\ m \in S => UpTo(m) = UpTo(m - 1) \cup {m} /\ m \notin UpTo(m - 1)
  <2> SUFFICES ASSUME NEW m \in Nat, m # 0
               PROVE  /\ m \notin S => UpTo(m) = UpTo(m - 1)
                      /\ m \in S => UpTo(m) = UpTo(m - 1) \cup {m} /\ m \notin UpTo(m - 1)
    OBVIOUS
  <2>1. /\ \A j \in S : j <= m <=> (j <= m - 1 \/ j = m)
        /\ m <= m /\ ~(m <= m - 1)
    BY <1>0
  <2> QED
    BY <2>1, Zenon
<1> HIDE DEF UpTo
<1>3. n \in Enough /\ Enough \subseteq Nat
  BY <1>1, <1>2, FS_CardinalityType
<1>4. PICK i \in Enough : \A m \in Enough : i <= m
  BY <1>3, LeastIsThere
<1>5. i \in Nat /\ i <= n /\ Cardinality(UpTo(i)) >= k /\ i # 0
  BY <1>2, <1>4, FS_EmptySet
<1>6. i - 1 \in Nat /\ Cardinality(UpTo(i - 1)) < k
  <2>1. i - 1 \in Nat /\ i - 1 \in 0..n /\ ~(i <= i - 1)
    BY <1>5
  <2>2. i - 1 \notin Enough
    BY <1>4, <2>1
  <2> QED
    BY <1>1, <2>1, <2>2
<1>7. CASE i \in S
  <2>1. Cardinality(UpTo(i)) = Cardinality(UpTo(i - 1)) + 1
    BY <1>1, <1>5, <1>6, <1>7, <1>a, FS_AddElement
  <2>2. Cardinality(UpTo(i)) = k
    BY <1>1, <1>5, <1>6, <2>1
  <2> QED
    BY <1>7, <2>2 DEF UpTo
<1>8. CASE i \notin S
  BY <1>1, <1>5, <1>6, <1>8, <1>a
<1> QED
  BY <1>7, <1>8

\* The form of a sequence, and a function that has it.
LEMMA SeqForm ==
    ASSUME NEW B, NEW s \in Seq(B)
    PROVE  Len(s) \in Nat /\ DOMAIN s = 1..Len(s) /\ \A i \in DOMAIN s : s[i] \in B
  OBVIOUS

LEMMA SeqOf ==
    ASSUME NEW B, NEW n \in Nat, NEW f \in [1..n -> B]
    PROVE  f \in Seq(B)
  BY SeqDef

---------------------------------------------------------------------------
(* The operators.                                                           *)

\* The rows that stay are rows of the table.
LEMMA RowsStay ==
    ASSUME bindings \in Seq(Binding), NEW S, S \subseteq DOMAIN bindings
    PROVE  /\ RowsAt(S) \in Seq(Binding)
           /\ \A k \in DOMAIN RowsAt(S) : \E i \in DOMAIN bindings : RowsAt(S)[k] = bindings[i]
<1> DEFINE at(k) == CHOOSE i \in S : Cardinality({j \in S : j <= i}) = k
<1>1. Len(bindings) \in Nat /\ DOMAIN bindings = 1..Len(bindings)
      /\ \A i \in DOMAIN bindings : bindings[i] \in Binding
  BY SeqForm
<1>2. IsFiniteSet(S) /\ Cardinality(S) \in Nat
  <2>1. IsFiniteSet(1..Len(bindings))
    BY <1>1, FS_Interval
  <2> QED
    BY <1>1, <2>1, FS_Subset, FS_CardinalityType
<1>3. \A k \in 1..Cardinality(S) : at(k) \in S
  BY <1>1, KthIsThere
<1> HIDE DEF at
<1>4. RowsAt(S) = [k \in 1..Cardinality(S) |-> bindings[at(k)]]
  BY DEF RowsAt, at
<1>5. RowsAt(S) \in [1..Cardinality(S) -> Binding]
  BY <1>1, <1>3, <1>4
<1> QED
  BY <1>2, <1>3, <1>4, <1>5, SeqOf

\* What match[i] is, given what earlier bindings took.
Takes(rows, listed, match, i) ==
    LET free == Free(rows[i], listed, {match[j] : j \in 1..(i - 1)})
    IN  match[i] = IF free = {} THEN 0 ELSE Min(free)

\* There is a match of the bindings with the sessions, so Matching is one.
LEMMA MatchingIsThere ==
    ASSUME NEW rows \in Seq(Binding), NEW listed, DOMAIN listed \subseteq Ids
    PROVE  /\ Matching(rows, listed) \in [DOMAIN rows -> Ids \cup {0}]
           /\ \A i \in DOMAIN rows : Takes(rows, listed, Matching(rows, listed), i)
<1> DEFINE Prefix(n) == \E match \in [1..n -> Ids \cup {0}] :
                            \A i \in 1..n : Takes(rows, listed, match, i)
           Bad == {n \in 0..Len(rows) : ~Prefix(n)}
<1>1. Len(rows) \in Nat /\ DOMAIN rows = 1..Len(rows)
  BY SeqForm
<1>2. Bad = {}
  <2> SUFFICES ASSUME Bad # {} PROVE FALSE
    OBVIOUS
  <2>a. Bad \subseteq Nat
    BY <1>1
  <2>1. PICK n \in Bad : \A m \in Bad : n <= m
    BY <2>a, LeastIsThere
  <2>2. Prefix(0)
    <3>1. [i \in 1..0 |-> 0] \in [1..0 -> Ids \cup {0}] /\ 1..0 = {}
      OBVIOUS
    <3> QED
      BY <3>1
  <2>3. n \in Nat /\ n # 0 /\ n \in 1..Len(rows) /\ n - 1 \in 0..Len(rows) /\ n - 1 \notin Bad
    <3> HIDE DEF Prefix
    <3>1. n \in 0..Len(rows) /\ n # 0
      BY <2>1, <2>2
    <3>2. n - 1 \in 0..Len(rows) /\ ~(n <= n - 1)
      BY <1>1, <3>1
    <3> QED
      BY <1>1, <2>1, <3>1, <3>2
  <2>4. Prefix(n - 1)
    BY <2>3
  <2>5. PICK match \in [1..(n - 1) -> Ids \cup {0}] :
            \A i \in 1..(n - 1) : Takes(rows, listed, match, i)
    BY <2>4
  <2> DEFINE free == Free(rows[n], listed, {match[j] : j \in 1..(n - 1)})
             last == IF free = {} THEN 0 ELSE Min(free)
             longer == [i \in 1..n |-> IF i = n THEN last ELSE match[i]]
  <2>6. last \in Ids \cup {0}
    <3>1. free \subseteq Ids /\ Ids \subseteq Nat
      BY DEF Free, Candidates, Ids
    <3> QED
      BY <3>1, MinIsThere
  <2>b. \A i \in 1..n : i # n => i \in 1..(n - 1)
    BY <2>3
  <2>7. longer \in [1..n -> Ids \cup {0}]
    <3> HIDE DEF last
    <3> QED
      BY <2>5, <2>6, <2>b
  <2>8. ASSUME NEW i \in 1..n PROVE Takes(rows, listed, longer, i)
    <3>1. {longer[j] : j \in 1..(i - 1)} = {match[j] : j \in 1..(i - 1)}
      <4>1. \A j \in 1..(i - 1) : longer[j] = match[j]
        BY <2>3
      <4> QED
        BY <4>1
    <3>2. CASE i = n
      <4>1. longer[n] = last
        BY <2>3
      <4> QED
        BY <3>1, <3>2, <4>1 DEF Takes
    <3>3. CASE i # n
      <4>1. i \in 1..(n - 1) /\ longer[i] = match[i]
        BY <2>3, <3>3
      <4> QED
        BY <2>5, <3>1, <4>1 DEF Takes
    <3> QED
      BY <3>2, <3>3
  <2>9. Prefix(n)
    BY <2>7, <2>8
  <2> QED
    BY <2>1, <2>9
<1>3. Prefix(Len(rows))
  BY <1>1, <1>2
<1>4. \E match \in [DOMAIN rows -> Ids \cup {0}] : \A i \in DOMAIN rows : Takes(rows, listed, match, i)
  BY <1>1, <1>3
<1> QED
  BY <1>4, Zenon DEF Matching, Takes

\* A binding takes one of its candidates, and none that an earlier one took.
LEMMA MatchingFacts ==
    ASSUME NEW rows \in Seq(Binding), NEW listed, DOMAIN listed \subseteq Ids,
           NEW match, match = Matching(rows, listed)
    PROVE  \A i \in DOMAIN rows :
              /\ match[i] \in Ids \cup {0}
              /\ match[i] # 0 => /\ match[i] \in Candidates(rows[i], listed)
                                 /\ \A j \in 1..(i - 1) : match[j] # match[i]
<1> SUFFICES ASSUME NEW i \in DOMAIN rows, match[i] # 0
             PROVE  /\ match[i] \in Candidates(rows[i], listed)
                    /\ \A j \in 1..(i - 1) : match[j] # match[i]
  BY MatchingIsThere
<1> DEFINE free == Free(rows[i], listed, {match[j] : j \in 1..(i - 1)})
<1>0. Takes(rows, listed, match, i)
  BY MatchingIsThere
<1>1. match[i] = IF free = {} THEN 0 ELSE Min(free)
  BY <1>0, Zenon DEF Takes
<1>2. free \subseteq Nat
  BY DEF Free, Candidates, Ids
<1>3. match[i] \in free
  BY <1>1, <1>2, MinIsThere
<1> QED
  BY <1>3 DEF Free

---------------------------------------------------------------------------
(* Types.                                                                   *)

\* TypeOK gives the numbers their bounds; the rest is about records.
SessionsType == DOMAIN sessions \subseteq Ids /\ \A id \in DOMAIN sessions : sessions[id] \in Session

\* What a sync makes of agents and bindings has the type it had.
LEMMA BackfilledType ==
    ASSUME agents \subseteq Agent
    PROVE  Backfilled \subseteq Agent
  BY DEF Backfilled, Agent

\* The sessions of a snapshot that lists no id twice.
LEMMA ListedType ==
    ASSUME TypeOK, NEW snapshot \in syncs, Sync(snapshot)
    PROVE  SessionsType'
<1>1. snapshot \subseteq Tab
  BY DEF TypeOK
<1>2. \A id \in {t.id : t \in snapshot} : (CHOOSE u \in snapshot : u.id = id) \in Tab /\ id \in Ids
  BY <1>1 DEF Tab
<1> QED
  BY <1>2 DEF Sync, SessionsType, Session, Tab

LEMMA ReboundType ==
    ASSUME NEW rows \in Seq(Binding), NEW listed, DOMAIN listed \subseteq Ids,
           \A id \in DOMAIN listed : listed[id] \in Session,
           NEW match, match = Matching(rows, listed)
    PROVE  /\ Rebound(rows, match, listed) \in Seq(Binding)
           /\ DOMAIN Rebound(rows, match, listed) = DOMAIN rows
<1> DEFINE row(i) == IF match[i] = 0 THEN Disconnected(rows[i])
                     ELSE [rows[i] EXCEPT !.session = match[i], !.profile = listed[match[i]].profile,
                                          !.status = Status(listed[match[i]])]
<1>1. ASSUME NEW i \in DOMAIN rows PROVE row(i) \in Binding
  <2>1. rows[i] \in Binding
    BY <1>1
  <2>2. match[i] = 0 \/ (match[i] \in Ids /\ listed[match[i]] \in Session)
    BY <1>1, MatchingFacts DEF Candidates
  <2> QED
    BY <2>1, <2>2 DEF Binding, Disconnected, Session, Status
<1>2. DOMAIN rows = 1..Len(rows) /\ Len(rows) \in Nat
  BY SeqForm
<1> HIDE DEF row
<1>3. Rebound(rows, match, listed) = [i \in DOMAIN rows |-> row(i)]
  BY DEF Rebound, row
<1> QED
  BY <1>1, <1>2, <1>3, SeqOf

\* An agent follows a binding of its profile to the session that this binding took.
Moves(rows, match, a) ==
    {i \in DOMAIN rows : match[i] \notin {0, rows[i].session} /\ Attached(a, rows[i])}

\* The last of the moves of an agent is one of them.
LEMMA LastMove ==
    ASSUME NEW rows \in Seq(Binding), NEW match, NEW a, Moves(rows, match, a) # {}
    PROVE  Max(Moves(rows, match, a)) \in Moves(rows, match, a)
<1>1. Len(rows) \in Nat /\ Moves(rows, match, a) \subseteq 1..Len(rows)
  BY SeqForm DEF Moves
<1> QED
  BY <1>1, MaxIsThere

\* An agent follows one move of its binding, or stays.
LEMMA FollowedForm ==
    ASSUME NEW rows \in Seq(Binding), NEW match, NEW all
    PROVE  \A b \in Followed(rows, match, all) : \E a \in all :
              \/ Moves(rows, match, a) = {} /\ b = a
              \/ \E i \in Moves(rows, match, a) : b = [a EXCEPT !.session = match[i]]
<1> SUFFICES ASSUME NEW b \in Followed(rows, match, all)
             PROVE  \E a \in all :
                        \/ Moves(rows, match, a) = {} /\ b = a
                        \/ \E i \in Moves(rows, match, a) : b = [a EXCEPT !.session = match[i]]
  OBVIOUS
<1>1. PICK a \in all : b = IF Moves(rows, match, a) = {} THEN a
                           ELSE [a EXCEPT !.session = match[Max(Moves(rows, match, a))]]
  BY Zenon DEF Followed, Moves
<1> QED
  BY <1>1, LastMove

LEMMA FollowedType ==
    ASSUME NEW rows \in Seq(Binding), NEW listed, DOMAIN listed \subseteq Ids,
           NEW match, match = Matching(rows, listed), NEW all, all \subseteq Agent
    PROVE  Followed(rows, match, all) \subseteq Agent
<1> SUFFICES ASSUME NEW b \in Followed(rows, match, all) PROVE b \in Agent
  OBVIOUS
<1>1. PICK a \in all : \/ Moves(rows, match, a) = {} /\ b = a
                       \/ \E i \in Moves(rows, match, a) : b = [a EXCEPT !.session = match[i]]
  BY FollowedForm
<1>2. \A i \in Moves(rows, match, a) : match[i] \in Ids
  BY MatchingFacts DEF Moves
<1> QED
  BY <1>1, <1>2 DEF Agent

\* The key of a binding.
LEMMA KeyType ==
    ASSUME NEW id \in Ids, NEW p \in AnyProfile
    PROVE  KeyOf(id, p) \in Key
  BY DEF KeyOf, Key, AnyProfile

\* Both invariants are kept by every step and hold at the beginning.
LEMMA TypeStep == TypeOK /\ [Next]_vars => TypeOK'
<1> SUFFICES ASSUME TypeOK, [Next]_vars PROVE TypeOK'
  OBVIOUS
<1> USE BoundAssumption
<1>a. /\ epoch \in 0..MaxRestarts /\ nextId \in 1..(MaxId + 1) /\ tabs \subseteq Tab
      /\ syncs \subseteq SUBSET Tab /\ SessionsType
      /\ workspace \in [Workspaces -> {"new", "live", "deleted"}] /\ bindings \in Seq(Binding)
      /\ agents \subseteq Agent /\ lastBound \in [Workspaces -> [Ids -> AnyProfile]]
  BY DEF TypeOK, SessionsType
<1>0. CASE UNCHANGED vars
  BY <1>0, <1>a DEF vars, window, tables, TypeOK, SessionsType
<1>1. ASSUME NEW p \in AnyProfile, OpenTab(p) PROVE TypeOK'
  <2>1. nextId \in Ids /\ nextId' \in 1..(MaxId + 1)
    BY <1>1, <1>a DEF OpenTab, Ids
  <2>2. tabs' \subseteq Tab
    <3>1. [id |-> nextId, epoch |-> epoch, profile |-> p, running |-> TRUE] \in Tab
      BY <1>a, <2>1 DEF Tab
    <3> QED
      BY <1>1, <1>a, <3>1 DEF OpenTab
  <2> QED
    BY <1>1, <1>a, <2>1, <2>2 DEF OpenTab, tables, TypeOK, SessionsType
<1>2. ASSUME NEW id \in Ids, CloseTab(id) PROVE TypeOK'
  BY <1>2, <1>a DEF CloseTab, tables, TypeOK, SessionsType
<1>3. CASE Restart
  <2>1. agents' \subseteq Agent
    BY <1>3, <1>a, BackfilledType DEF Restart
  <2>2. DOMAIN sessions' = {} /\ syncs' = {} /\ tabs' \subseteq Tab
    BY <1>3, <1>a DEF Restart
  <2>3. epoch' \in 0..MaxRestarts /\ nextId' \in 1..(MaxId + 1)
    BY <1>3, <1>a DEF Restart
  <2> QED
    BY <1>3, <1>a, <2>1, <2>2, <2>3 DEF Restart, TypeOK, SessionsType
<1>4. CASE SendSync
  BY <1>4, <1>a DEF SendSync, window, tables, TypeOK, SessionsType
<1>5. ASSUME NEW snapshot \in syncs, Sync(snapshot) PROVE TypeOK'
  <2>1. SessionsType'
    BY <1>5, ListedType
  <2>2. bindings' \in Seq(Binding)
    BY <1>5, <1>a, <2>1, ReboundType DEF Sync, SessionsType
  <2>3. agents' \subseteq Agent
    BY <1>5, <1>a, <2>1, BackfilledType, FollowedType DEF Sync, SessionsType
  <2> QED
    BY <1>5, <1>a, <2>1, <2>2, <2>3 DEF Sync, window, TypeOK, SessionsType
<1>6. ASSUME NEW snapshot \in syncs, SyncRefused(snapshot) PROVE TypeOK'
  BY <1>6, <1>a, BackfilledType DEF SyncRefused, window, TypeOK, SessionsType
<1>7. ASSUME NEW w \in Workspaces, CreateWorkspace(w) PROVE TypeOK'
  BY <1>7, <1>a DEF CreateWorkspace, window, TypeOK, SessionsType
<1>8. ASSUME NEW w \in Workspaces, DeleteWorkspace(w) PROVE TypeOK'
  <2>1. bindings' \in Seq(Binding)
    BY <1>8, <1>a, RowsStay DEF DeleteWorkspace
  <2>2. [id \in Ids |-> NoProfile] \in [Ids -> AnyProfile]
    BY DEF AnyProfile
  <2> QED
    BY <1>8, <1>a, <2>1, <2>2 DEF DeleteWorkspace, window, TypeOK, SessionsType
<1>9. ASSUME NEW w \in Workspaces, NEW id \in Ids, Bind(w, id) PROVE TypeOK'
  <2> DEFINE p   == sessions[id].profile
             row == [workspace |-> w, key |-> KeyOf(id, p), session |-> id, profile |-> p,
                     status |-> Status(sessions[id])]
  <2>1. p \in AnyProfile
    BY <1>9, <1>a DEF Bind, SessionsType, Session
  <2>2. row \in Binding
    BY <2>1, KeyType DEF Binding, Status
  <2>3. bindings' \in Seq(Binding)
    <3> DEFINE at == {i \in DOMAIN bindings : bindings[i].workspace = w /\ bindings[i].key = row.key}
    <3>1. \/ bindings' = Append(bindings, row)
          \/ bindings' = [i \in DOMAIN bindings |-> IF i \in at THEN row ELSE bindings[i]]
      BY <1>9, Zenon DEF Bind
    <3>2. Append(bindings, row) \in Seq(Binding)
      BY <1>a, <2>2, AppendProperties
    <3> HIDE DEF row, at
    <3>3. [i \in DOMAIN bindings |-> IF i \in at THEN row ELSE bindings[i]] \in Seq(Binding)
      BY <1>a, <2>2, SeqForm, SeqOf
    <3> QED
      BY <3>1, <3>2, <3>3
  <2>4. lastBound' \in [Workspaces -> [Ids -> AnyProfile]]
    BY <1>9, <1>a, <2>1 DEF Bind
  <2> QED
    BY <1>9, <1>a, <2>3, <2>4 DEF Bind, window, TypeOK, SessionsType
<1>10. ASSUME NEW w \in Workspaces, NEW id \in Ids, Unbind(w, id) PROVE TypeOK'
  <2>1. bindings' \in Seq(Binding)
    BY <1>10, <1>a, RowsStay DEF Unbind
  <2> QED
    BY <1>10, <1>a, <2>1 DEF Unbind, window, TypeOK, SessionsType
<1>11. ASSUME NEW w \in Workspaces, NEW id \in Ids, RegisterAgent(w, id) PROVE TypeOK'
  <2>1. sessions[id].profile \in AnyProfile /\ lastBound[w][id] \in AnyProfile
    BY <1>11, <1>a DEF RegisterAgent, SessionsType, Session
  <2>2. agents' \subseteq Agent
    BY <1>11, <1>a, <2>1 DEF RegisterAgent, Agent
  <2> QED
    BY <1>11, <1>a, <2>2 DEF RegisterAgent, window, TypeOK, SessionsType
<1>12. ASSUME NEW a \in agents, UnregisterAgent(a) PROVE TypeOK'
  BY <1>12, <1>a DEF UnregisterAgent, window, TypeOK, SessionsType
<1>13. ASSUME NEW t \in tabs, SessionEnds(t) PROVE TypeOK'
  BY <1>13, <1>a DEF SessionEnds, Tab, tables, TypeOK, SessionsType
<1> QED
  BY <1>0, <1>1, <1>2, <1>3, <1>4, <1>5, <1>6, <1>7, <1>8, <1>9, <1>10, <1>11, <1>12, <1>13 DEF Next

---------------------------------------------------------------------------
(* One Workspace for a connected session.                                   *)

\* Each row of the table after the step is, as far as the property sees it, one before.
LEMMA FewerRows ==
    ASSUME ConnectedSessionHasOneWorkspace,
           \A k \in DOMAIN bindings' : \E i \in DOMAIN bindings : bindings'[k] = bindings[i]
    PROVE  ConnectedSessionHasOneWorkspace'
  BY DEF ConnectedSessionHasOneWorkspace

\* What bind writes is a row for a session that no row of another Workspace names.
LEMMA BindStep ==
    ASSUME TypeOK, ConnectedSessionHasOneWorkspace, NEW w \in Workspaces, NEW id \in Ids, Bind(w, id)
    PROVE  ConnectedSessionHasOneWorkspace'
<1>1. \A k \in DOMAIN bindings' :
        \/ bindings'[k].workspace = w /\ bindings'[k].session = id
        \/ \E i \in DOMAIN bindings : bindings'[k] = bindings[i]
  <2> DEFINE p   == sessions[id].profile
             row == [workspace |-> w, key |-> KeyOf(id, p), session |-> id, profile |-> p,
                     status |-> Status(sessions[id])]
             at  == {i \in DOMAIN bindings : bindings[i].workspace = w /\ bindings[i].key = row.key}
  <2>1. row.workspace = w /\ row.session = id
    OBVIOUS
  <2>2. \/ bindings' = Append(bindings, row)
        \/ bindings' = [i \in DOMAIN bindings |-> IF i \in at THEN row ELSE bindings[i]]
    BY Zenon DEF Bind
  <2>3. bindings \in Seq(Binding)
    BY DEF TypeOK
  <2> HIDE DEF row, at
  <2>4. CASE bindings' = Append(bindings, row)
    BY <2>1, <2>3, <2>4
  <2>5. CASE bindings' = [i \in DOMAIN bindings |-> IF i \in at THEN row ELSE bindings[i]]
    BY <2>1, <2>5
  <2> QED
    BY <2>2, <2>4, <2>5
<1>2. \A i \in DOMAIN bindings : bindings[i].session = id => bindings[i].workspace = w
  BY DEF Bind, BoundElsewhere
<1> QED
  BY <1>1, <1>2 DEF ConnectedSessionHasOneWorkspace

\* After a sync no two connected rows share a session.
LEMMA SyncStep ==
    ASSUME TypeOK, NEW snapshot \in syncs, Sync(snapshot)
    PROVE  ConnectedSessionHasOneWorkspace'
<1>1. bindings \in Seq(Binding) /\ SessionsType'
  BY ListedType DEF TypeOK
<1> DEFINE match == Matching(bindings, sessions')
<1>2. bindings' = Rebound(bindings, match, sessions') /\ DOMAIN bindings' = DOMAIN bindings
  BY <1>1 DEF Sync, Rebound
<1>3. \A i \in DOMAIN bindings : bindings'[i].status = "connected" =>
         match[i] # 0 /\ bindings'[i].session = match[i]
  <2> HIDE DEF match
  <2> SUFFICES ASSUME NEW i \in DOMAIN bindings
               PROVE  bindings'[i].status = "connected" => match[i] # 0 /\ bindings'[i].session = match[i]
    OBVIOUS
  <2>1. bindings[i] \in Binding
    BY <1>1
  <2> QED
    BY <1>2, <2>1 DEF Rebound, Disconnected, Binding
<1>4. \A i, j \in DOMAIN bindings : match[i] # 0 /\ j \in 1..(i - 1) => match[j] # match[i]
  BY <1>1, MatchingFacts DEF SessionsType
<1>5. \A i, j \in DOMAIN bindings : i = j \/ i \in 1..(j - 1) \/ j \in 1..(i - 1)
  BY <1>1, SeqForm
<1> HIDE DEF match
<1> QED
  BY <1>2, <1>3, <1>4, <1>5 DEF ConnectedSessionHasOneWorkspace

LEMMA OneWorkspaceStep ==
    TypeOK /\ ConnectedSessionHasOneWorkspace /\ [Next]_vars => ConnectedSessionHasOneWorkspace'
<1> SUFFICES ASSUME TypeOK, ConnectedSessionHasOneWorkspace, [Next]_vars
             PROVE  ConnectedSessionHasOneWorkspace'
  OBVIOUS
<1>1. CASE UNCHANGED bindings
  BY <1>1 DEF ConnectedSessionHasOneWorkspace
<1>2. CASE \E w \in Workspaces : DeleteWorkspace(w) \/ \E id \in Ids : Unbind(w, id)
  <2>1. PICK S \in SUBSET DOMAIN bindings : bindings' = RowsAt(S)
    BY <1>2 DEF DeleteWorkspace, Unbind
  <2>2. \A k \in DOMAIN RowsAt(S) : \E i \in DOMAIN bindings : RowsAt(S)[k] = bindings[i]
    BY RowsStay DEF TypeOK
  <2> QED
    BY <2>1, <2>2, FewerRows
<1>3. CASE \E w \in Workspaces, id \in Ids : Bind(w, id)
  BY <1>3, BindStep
<1>4. CASE \E snapshot \in syncs : Sync(snapshot)
  BY <1>4, SyncStep
<1> QED
  BY <1>1, <1>2, <1>3, <1>4
  DEF Next, vars, tables, OpenTab, SessionEnds, CloseTab, Restart, SendSync, SyncRefused,
      CreateWorkspace, RegisterAgent, UnregisterAgent

---------------------------------------------------------------------------
LEMMA InitInv == Init => TypeOK /\ ConnectedSessionHasOneWorkspace
<1> SUFFICES ASSUME Init PROVE TypeOK /\ ConnectedSessionHasOneWorkspace
  OBVIOUS
<1>1. bindings \in Seq(Binding) /\ DOMAIN bindings = {} /\ DOMAIN sessions = {}
  BY EmptySeq DEF Init
<1> QED
  BY <1>1, BoundAssumption DEF Init, TypeOK, ConnectedSessionHasOneWorkspace, AnyProfile

\* The tables and the requests under way are always well typed, for any Workspaces,
\* profiles and bounds (crates/workspace, syncWorkspaceState).
THEOREM TypeCorrect == Spec => []TypeOK
<1>1. Init => TypeOK
  BY InitInv
<1> QED
  BY <1>1, TypeStep, PTL DEF Spec

\* At no time are two Workspaces connected to one session, however bind, unbind, syncs
\* that arrive late and restarts that give ids out again follow each other (bind,
\* sync_sessions).
THEOREM SessionAlwaysHasOneWorkspace == Spec => []ConnectedSessionHasOneWorkspace
  BY InitInv, TypeStep, OneWorkspaceStep, PTL DEF Spec

\* A sync connects a binding with a profile to a session of that profile, and takes the
\* agents of that profile with it (sync_sessions, update_agent_sessions).
THEOREM SyncsKeepProfiles == Spec => SyncKeepsProfiles
<1>1. TypeOK /\ [Next]_vars =>
        [Synced => \A i \in DOMAIN bindings : bindings[i].profile # NoProfile =>
          /\ bindings'[i].status = "connected" =>
                sessions'[bindings'[i].session].profile = bindings[i].profile
          /\ bindings'[i].session # bindings[i].session =>
                \A a \in agents' :
                    (a.workspace = bindings[i].workspace /\ a.profile = bindings[i].profile)
                        => a.session \in DOMAIN sessions' /\ sessions'[a.session].profile = a.profile]_vars
  <2> SUFFICES ASSUME TypeOK, NEW snapshot \in syncs, Sync(snapshot),
                      NEW i \in DOMAIN bindings, bindings[i].profile # NoProfile
               PROVE  /\ bindings'[i].status = "connected" =>
                            sessions'[bindings'[i].session].profile = bindings[i].profile
                      /\ bindings'[i].session # bindings[i].session =>
                            \A a \in agents' :
                                (a.workspace = bindings[i].workspace /\ a.profile = bindings[i].profile)
                                => a.session \in DOMAIN sessions' /\ sessions'[a.session].profile = a.profile
    BY DEF Synced
  <2> DEFINE match == Matching(bindings, sessions')
  <2>1. bindings \in Seq(Binding) /\ SessionsType' /\ agents \subseteq Agent
    BY ListedType DEF TypeOK
  <2>2. bindings' = Rebound(bindings, match, sessions')
        /\ agents' = Followed(bindings, match, Backfilled) /\ Backfilled \subseteq Agent
    BY <2>1, BackfilledType DEF Sync
  <2>3. \A j \in DOMAIN bindings : match[j] # 0 /\ bindings[j].profile # NoProfile =>
           match[j] \in DOMAIN sessions' /\ sessions'[match[j]].profile = bindings[j].profile
    BY <2>1, MatchingFacts DEF SessionsType, Candidates
  <2> HIDE DEF match
  <2>4. bindings[i] \in Binding
    BY <2>1
  <2>5. /\ bindings'[i].status = "connected" => match[i] # 0 /\ bindings'[i].session = match[i]
        /\ bindings'[i].session # bindings[i].session => match[i] \notin {0, bindings[i].session}
    BY <2>2, <2>4 DEF Rebound, Disconnected, Binding
  <2>6. ASSUME bindings'[i].session # bindings[i].session, NEW b \in agents',
               b.workspace = bindings[i].workspace, b.profile = bindings[i].profile
        PROVE  b.session \in DOMAIN sessions' /\ sessions'[b.session].profile = b.profile
    <3>1. PICK rows, m, all : rows = bindings /\ m = match /\ all = Backfilled
      OBVIOUS
    <3>2. rows \in Seq(Binding) /\ b \in Followed(rows, m, all) /\ all \subseteq Agent
      BY <2>1, <2>2, <2>6, <3>1
    <3>3. PICK a \in all : \/ Moves(rows, m, a) = {} /\ b = a
                           \/ \E j \in Moves(rows, m, a) : b = [a EXCEPT !.session = m[j]]
      BY <3>2, FollowedForm
    <3>4. a.workspace = b.workspace /\ a.profile = b.profile
      BY <3>2, <3>3 DEF Agent
    <3>5. i \in Moves(rows, m, a)
      BY <2>5, <2>6, <3>1, <3>4 DEF Moves, Attached
    <3>6. PICK j \in Moves(rows, m, a) : b = [a EXCEPT !.session = m[j]]
      BY <3>3, <3>5
    <3>7. b.session = m[j]
      BY <3>2, <3>6 DEF Agent
    <3> QED
      BY <2>3, <3>1, <3>4, <3>6, <3>7 DEF Moves, Attached
  <2> QED
    BY <2>3, <2>5, <2>6
<1> QED
  BY <1>1, TypeCorrect, PTL DEF Spec, SyncKeepsProfiles

==============================================================================
