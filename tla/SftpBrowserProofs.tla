-------------------------- MODULE SftpBrowserProofs --------------------------
(* Proofs about SftpBrowser, for any sessions, directories, trees and budgets:   *)
(* types, that a request which changes something goes where the user meant it,   *)
(* that an upload is all or nothing, that a directory goes only when it is       *)
(* empty, and that the panel shows what it says it shows.                        *)
EXTENDS SftpBrowser, SequenceTheorems, WellFoundedInduction, TLAPS

\* The steps that a function of each kind takes.
StepOf(kind, step) ==
    \/ kind = "load"     /\ step \in {"close", "open", "list"}
    \/ kind = "list"     /\ step = "list"
    \/ kind = "edit"     /\ step \in {"prompt", "call", "list"}
    \/ kind = "delete"   /\ step \in {"call", "list"}
    \/ kind = "upload"   /\ step \in {"prepare", "mkdir", "statDir", "write", "rename", "cleanup",
                                      "list"}
    \/ kind = "sweep"    /\ step = "cleanup"
    \/ kind = "download" /\ step \in {"stat", "pick", "read", "list"}
    \/ kind = "preview"  /\ step \in {"stat", "read"}
    \/ kind = "follow"   /\ step \in {"readlink", "stat", "list"}

TaskType == [kind: Kinds, step: Steps, home: Sessions, at: Sessions,
             path: Dirs \cup Files \cup {None}, try: Tries, fresh: BOOLEAN]
\* A function that waits: what changes something goes home, what is read has its path.
Proper(task) ==
    /\ task \in TaskType
    /\ StepOf(task.kind, task.step)
    /\ task.step \in Changing => task.at = task.home
    /\ task.step \in {"list", "close", "open"} => task.path \in Dirs
    /\ task.kind = "preview" => task.path \in Files
Waits(t) == tasks[t] # Idle

RemoteType   == [nodes: SUBSET Nodes, temp: {"none", "part", "full"}, final: {"old", "part", "new"}]
EntryType    == [node: Nodes, ready: BOOLEAN]
RemovalType  == [pending: Seq(EntryType), children: Seq(Nodes), changed: BOOLEAN]
ProgressType == [phase: Phases, cancel: BOOLEAN, home: Sessions]
SentType     == [chunk: 0..Chunks, wrote: BOOLEAN, changed: BOOLEAN]

PanelType  == /\ sessionId \in Sessions /\ mounted \in BOOLEAN /\ cwd \in Dirs
              /\ listed \in (Sessions \X Dirs) \cup {None}
              /\ loading \in BOOLEAN /\ loadFailed \in BOOLEAN
ViewerType == /\ previewPath \in Files \cup {None} /\ strayed \in BOOLEAN
              /\ previewText \in (Sessions \X Files) \cup {None}
LinkType   == opened \in Sessions \cup {None} /\ reconnect \in Sessions \cup {None}
UploadType == /\ uploading \in BOOLEAN /\ dismiss \in BOOLEAN
              /\ progress \in ProgressType \cup {None} /\ sent \in SentType
DeleteType == /\ target \in [node: Nodes, home: Sessions] \cup {None} /\ deleting \in BOOLEAN
              /\ removal \in RemovalType
TasksType  == /\ tasks \in [Slots -> {Idle} \cup TaskType]
              /\ \A t \in Slots : Waits(t) => Proper(tasks[t])
              /\ Waits(Sweeper) => tasks[Sweeper].kind = "sweep"
OthersType == /\ transfer \in {"none", "run", "cancel"} /\ remote \in [Sessions -> RemoteType]
BudgetType == budget \in [Things -> Nat]
TypeInv == PanelType /\ ViewerType /\ LinkType /\ UploadType /\ DeleteType /\ TasksType /\ OthersType

\* A session that is not open yet will list its directory; and any answer that still counts
\* is the one of this session and directory, or the panel says that loading failed.
Loads    == \E t \in Slots : tasks[t].step \in {"close", "open"}
ListsNow(t) == tasks[t].step = "list" /\ tasks[t].fresh
LoadInv ==
    /\ loading => Loads \/ \E t \in Slots : ListsNow(t)
    /\ Loads \/ loadFailed \/ listed = <<sessionId, cwd>> \/ \E t \in Slots : ListsNow(t)
    /\ \A t \in Slots : ListsNow(t) =>
          Loads \/ loadFailed \/ (tasks[t].at = sessionId /\ tasks[t].path = cwd)

\* A preview whose answer still counts is the one of the file that is named, and asks the
\* session that is shown as long as the user stays in it.
PreviewInv ==
    /\ \A t \in Slots : tasks[t].kind = "preview" /\ tasks[t].fresh =>
          /\ previewPath \in {None, tasks[t].path}
          /\ strayed \/ tasks[t].at = sessionId
    /\ (previewText # None /\ previewPath # None) =>
          /\ previewText[2] = previewPath
          /\ strayed \/ previewText[1] = sessionId
\* A step that shows nothing else in the viewer: the user stays in the session, or goes.
ViewKept ==
    /\ UNCHANGED <<previewPath, previewText>>
    /\ strayed' \in BOOLEAN /\ (strayed' \/ UNCHANGED <<strayed, sessionId>>)

\* At most one upload is under way; its progress is shown, and its file is whole before
\* it gets its name.
Uploads(t) == tasks[t].kind = "upload" /\ tasks[t].step # "list"
UploadInv ==
    /\ \A t, u \in Slots : Uploads(t) /\ Uploads(u) => t = u
    /\ \A t \in Slots : Uploads(t) =>
          /\ uploading /\ progress \in ProgressType /\ progress.phase \in {"preparing", "running"}
          /\ progress.home = tasks[t].home
          /\ tasks[t].step \notin {"rename", "cleanup"} => sent.chunk < Chunks
    /\ \A t \in Slots : tasks[t].step = "rename" => remote[tasks[t].home].temp # "part"
    /\ dismiss => progress.phase = "completed"
    /\ AtomicUpload

\* At most one deletion is under way; what is left of a directory whose children were
\* read waits above it, and what was read of the top one is the beginning of its entries.
StackOf(pending, nodes) ==
    \A i \in DOMAIN pending : pending[i].ready =>
        /\ ~IsFile(pending[i].node)
        /\ \A c \in ToSet(Children[pending[i].node]) \cap nodes :
              \E j \in DOMAIN pending : i < j /\ pending[j].node = c
Removable(entry) == IsFile(entry.node) \/ entry.ready
IsStartOf(few, all) == Len(few) <= Len(all) /\ few = SubSeq(all, 1, Len(few))
RemovalOK(rest, nodes) ==
    LET top == rest.pending[Len(rest.pending)] IN
    /\ rest.pending # <<>> /\ StackOf(rest.pending, nodes)
    /\ Removable(top)  => rest.children = <<>>
    /\ ~Removable(top) => IsStartOf(rest.children, Kept(Children[top.node], nodes))
RemoveInv ==
    /\ \A t \in Slots : tasks[t].kind = "delete" => deleting
    /\ \A t, u \in Slots : tasks[t].kind = "delete" /\ tasks[u].kind = "delete" => t = u
    /\ \A t \in Slots : tasks[t].kind = "delete" /\ tasks[t].step = "call" =>
          RemovalOK(removal, remote[tasks[t].home].nodes)

\* The strengthening of the safety properties that every step keeps.
StepInv == TypeInv /\ LoadInv /\ PreviewInv /\ UploadInv /\ RemoveInv
IInv    == StepInv /\ BudgetType

---------------------------------------------------------------------------
(* Functions that wait.                                                     *)

\* A function that waits has the form of one.
LEMMA Waiting ==
    ASSUME TasksType, NEW t \in Slots, tasks[t].step # "idle" \/ tasks[t] # Idle
    PROVE  Waits(t) /\ Proper(tasks[t])
  BY DEF TasksType, Waits, Idle

\* A place without a function is told from every function that waits.
LEMMA IdleIsApart == ASSUME NEW task, Proper(task) PROVE task # Idle /\ task.step # "idle"
  BY DEF Proper, TaskType, Idle, Kinds, StepOf

\* What Goes makes of a function.
WentOn(new, task, step) ==
    /\ Proper(new)
    /\ new.kind = task.kind /\ new.step = step /\ new.home = task.home
    /\ new.path = task.path /\ new.fresh = task.fresh
\* The next request of a function has the form of one.
LEMMA GoesProper ==
    ASSUME sessionId \in Sessions, NEW task, Proper(task), NEW step \in Steps \ {"list"},
           StepOf(task.kind, step), step \in {"close", "open"} => task.path \in Dirs
    PROVE  WentOn(Goes(task, step), task, step)
  <1>1. task \in TaskType
    BY DEF Proper
  <1>2. step \in Changing => task.kind \in Homely
    BY DEF StepOf, Changing, Homely
  <1>3. Where(task, step) \in Sessions /\ (step \in Changing => Where(task, step) = task.home)
    BY <1>1, <1>2 DEF Where, TaskType
  <1> QED BY <1>1, <1>3 DEF Goes, WentOn, Proper, TaskType, Tries

\* What a function begins with.
LEMMA CallProper ==
    ASSUME NEW kind \in Kinds, NEW step \in Steps, NEW home \in Sessions,
           NEW path \in Dirs \cup Files \cup {None}, StepOf(kind, step),
           step \in {"list", "close", "open"} => path \in Dirs,
           kind = "preview" => path \in Files
    PROVE  Proper(Call(kind, step, home, path))
  BY DEF Call, Proper, TaskType, Tries

\* Slot u waits as before, or its answer no longer counts.
Same(u) == \/ tasks'[u] = tasks[u]
           \/ Waits(u) /\ tasks'[u] = [tasks[u] EXCEPT !.fresh = FALSE]
\* Only the function in slot t goes on, ends or begins.
Moves(t) ==
    /\ tasks' = [u \in Slots |-> tasks'[u]]
    /\ \A u \in Slots \ {t} : Same(u)
    /\ tasks'[t] = Idle \/ Proper(tasks'[t])
    /\ t # Sweeper \/ tasks'[t] = Idle \/ tasks'[t].kind = tasks[t].kind
\* The clean-up has a place of its own.
LEMMA SweeperIsThere == Sweeper \in Slots
  BY SizeAssumption DEF Sweeper, Slots
\* A step of one function and the clean-up keeps the types of all.
LEMMA MovesType ==
    ASSUME TasksType, NEW t \in Slots, Moves(t)
    PROVE  TasksType'
  <1>3. tasks'[Sweeper] # Idle => tasks'[Sweeper].kind = "sweep"
    <2>1. CASE t = Sweeper
      BY <2>1 DEF TasksType, Moves, Waits, Proper, StepOf, Idle
    <2>2. CASE t # Sweeper
      <3>1. Same(Sweeper)
        BY <2>2, SweeperIsThere DEF Moves
      <3>2. Waits(Sweeper) => tasks[Sweeper] \in TaskType
        BY SweeperIsThere DEF TasksType, Proper
      <3> QED BY <3>1, <3>2 DEF Same, TasksType, Waits, TaskType
    <2> QED BY <2>1, <2>2
  <1> SUFFICES ASSUME NEW u \in Slots
               PROVE  tasks'[u] = Idle \/ Proper(tasks'[u])
    BY <1>3 DEF TasksType, Moves, Proper, Waits
  <1>1. CASE u = t
    BY <1>1 DEF Moves
  <1>2. CASE u # t
    <2>1. tasks[u] = Idle \/ Proper(tasks[u])
      BY DEF TasksType, Waits
    <2>2. Same(u)
      BY <1>2 DEF Moves
    <2> QED BY <2>1, <2>2 DEF Same, Proper, TaskType, Waits
  <1> QED BY <1>1, <1>2

\* The others wait as before.
Became(t, task) ==
    Moves(t) /\ tasks'[t] = task /\ \A u \in Slots \ {t} : tasks'[u] = tasks[u]
\* Becomes is such a step.
LEMMA BecomesMoves ==
    ASSUME TasksType, NEW t \in Slots, NEW task, Becomes(t, task), task = Idle \/ Proper(task),
           t # Sweeper \/ task = Idle \/ task.kind = tasks[t].kind
    PROVE  Became(t, task)
  BY DEF Becomes, Became, Moves, Same, TasksType

\* What is left of a function whose answer no longer counts.
SameBut(u) ==
    /\ tasks'[u].kind = tasks[u].kind /\ tasks'[u].step = tasks[u].step
    /\ tasks'[u].home = tasks[u].home /\ tasks'[u].at = tasks[u].at
    /\ tasks'[u].path = tasks[u].path /\ (tasks'[u].fresh => tasks[u].fresh)
\* A function that a step leaves alone has the fields it had.
LEMMA SameFields ==
    ASSUME TasksType, NEW u \in Slots, Same(u)
    PROVE  SameBut(u)
  <1>1. Waits(u) => tasks[u] \in TaskType
    BY DEF TasksType, Proper
  <1> QED BY <1>1 DEF Same, SameBut, TaskType

\* The function in slot t waits for a list, and it is the only one whose answer counts.
ListsOnly(t, task, s, dir) ==
    /\ Moves(t) /\ Waits(t)' /\ ListsNow(t)'
    /\ tasks'[t].kind = task.kind /\ tasks'[t].home = task.home
    /\ tasks'[t].at = s /\ tasks'[t].path = dir
    /\ \A u \in Slots \ {t} : ~ListsNow(u)'
\* A function that begins to list is the only one whose answer counts.
LEMMA ListsMoves ==
    ASSUME TasksType, NEW t \in Slots, NEW task \in TaskType, StepOf(task.kind, "list"),
           NEW s \in Sessions, NEW dir \in Dirs, Lists(t, task, s, dir), t # Sweeper
    PROVE  ListsOnly(t, task, s, dir)
  <1> DEFINE new == [task EXCEPT !.step = "list", !.at = s, !.path = dir,
                                 !.try = "first", !.fresh = TRUE]
  <1>1. tasks'[t] = new /\ tasks' = [u \in Slots |-> tasks'[u]]
    BY DEF Lists
  <1>2. /\ new.kind = task.kind /\ new.home = task.home /\ new.step = "list" /\ new.fresh
        /\ new.at = s /\ new.path = dir /\ new \in TaskType
    BY DEF TaskType, Steps, Requests, Tries
  <1> HIDE DEF new
  <1>3. Proper(new)
    BY <1>2 DEF Proper, StepOf, Changing
  <1>4. ASSUME NEW u \in Slots \ {t}
        PROVE  Same(u) /\ ~ListsNow(u)'
    <2>1. CASE tasks[u].step = "list"
      <3>1. Waits(u) /\ tasks[u] \in TaskType /\ tasks'[u] = [tasks[u] EXCEPT !.fresh = FALSE]
        BY <2>1, Waiting DEF Lists, Proper
      <3> QED BY <3>1 DEF Same, ListsNow, TaskType
    <2>2. CASE tasks[u].step # "list"
      BY <2>2 DEF Lists, Same, ListsNow
    <2> QED BY <2>1, <2>2
  <1> QED BY <1>1, <1>2, <1>3, <1>4, IdleIsApart DEF ListsOnly, Moves, Waits, ListsNow

---------------------------------------------------------------------------
(* What is there, and what a request does to it.                            *)

\* A request that was answered, or whose answer was lost, was done or was not.
Done(t) == remote' = remote \/ (Possible(tasks[t]) /\ remote' = Applied(tasks[t]))
\* A change of the remote side gives a remote side.
LEMMA AppliedType ==
    ASSUME remote \in [Sessions -> RemoteType], NEW task, Proper(task)
    PROVE  Applied(task) \in [Sessions -> RemoteType]
  <1>1. task.at \in Sessions
    BY DEF Proper, TaskType
  <1>2. remote[task.at] \in RemoteType
    BY <1>1
  <1> QED BY <1>1, <1>2 DEF Applied, RemoteType
\* What an answer does to the remote side and the channel, whether it is good or not.
LEMMA AnswerDone ==
    ASSUME remote \in [Sessions -> RemoteType], TasksType, NEW t \in Slots,
           tasks[t].step # "idle", Succeeds(t) \/ Fails(t)
    PROVE  Done(t) /\ remote' \in [Sessions -> RemoteType] /\ UNCHANGED Link
  <1>1. Proper(tasks[t])
    BY Waiting
  <1>2. Done(t) /\ UNCHANGED Link
    BY DEF Succeeds, Fails, Refused, Lost, Breaks, Done, Link
  <1> QED BY <1>1, <1>2, AppliedType DEF Done

---------------------------------------------------------------------------
(* The entries of a directory.                                              *)

\* Every set of numbers has a least one.
LEMMA LeastIsThere ==
    ASSUME NEW S, S \subseteq Nat, S # {}
    PROVE  \E x \in S : \A y \in S : x <= y
  <1> DEFINE R == {ss \in Nat \X Nat : ss[1] < ss[2]}
  <1>1. IsWellFoundedOn(R, Nat)
    BY NatLessThanWellFounded DEF OpToRel
  <1>2. PICK x \in S : \A y \in S : <<y, x>> \notin R
    BY <1>1, WFMin, Zenon
  <1>3. \A y \in S : x \in Nat /\ y \in Nat /\ ~(y < x)
    <2> TAKE y \in S
    <2>1. x \in Nat /\ y \in Nat /\ <<y, x>> \in Nat \X Nat
      OBVIOUS
    <2> QED BY <1>2, <2>1
  <1> QED BY <1>3

\* What is kept of the first 0, 1, .. n elements.
KeptTo(seq, S, n, kept) ==
    kept = [i \in 0..n |->
        IF i = 0 THEN <<>>
        ELSE IF seq[i] \in S THEN Append(kept[i - 1], seq[i]) ELSE kept[i - 1]]

\* The recursion of Kept has a result: no n is the first without one.
LEMMA KeptEnds ==
    ASSUME NEW T, NEW seq \in Seq(T), NEW S
    PROVE  \E kept : KeptTo(seq, S, Len(seq), kept) /\ Kept(seq, S) = kept[Len(seq)]
  <1> DEFINE Bad == {n \in 0..Len(seq) : ~ \E kept : KeptTo(seq, S, n, kept)}
  <1>1. Bad = {}
    <2> SUFFICES ASSUME Bad # {} PROVE FALSE
      OBVIOUS
    <2>1. PICK n \in Bad : \A m \in Bad : n <= m
      <3>1. Bad \subseteq Nat
        OBVIOUS
      <3> QED BY <3>1, LeastIsThere
    <2>2. n # 0
      <3> DEFINE kept == [i \in 0..0 |-> <<>>]
      <3>1. \A i \in 0..0 : i = 0
        OBVIOUS
      <3>2. KeptTo(seq, S, 0, kept)
        BY <3>1 DEF KeptTo
      <3> HIDE DEF kept
      <3> QED BY <3>2
    <2>3. n \in Nat /\ n - 1 \in 0..Len(seq) /\ ~(n <= n - 1)
      BY <2>2
    <2>4. PICK kept : KeptTo(seq, S, n - 1, kept)
      BY <2>1, <2>3
    <2> DEFINE last   == IF seq[n] \in S THEN Append(kept[n - 1], seq[n]) ELSE kept[n - 1]
               longer == [i \in 0..n |-> IF i = n THEN last ELSE kept[i]]
    <2>5. \A i \in 0..n : longer[i] =
             IF i = 0 THEN <<>>
             ELSE IF seq[i] \in S THEN Append(longer[i - 1], seq[i]) ELSE longer[i - 1]
      <3> SUFFICES ASSUME NEW i \in 0..n
                   PROVE  longer[i] = IF i = 0 THEN <<>>
                                      ELSE IF seq[i] \in S THEN Append(longer[i - 1], seq[i])
                                           ELSE longer[i - 1]
        OBVIOUS
      <3>1. i # 0 => longer[i - 1] = kept[i - 1]
        BY <2>3
      <3>2. CASE i = n
        <4>1. longer[i] = last
          BY <3>2
        <4> HIDE DEF longer
        <4> QED BY <2>2, <3>1, <3>2, <4>1
      <3>3. CASE i # n
        <4>1. i \in 0..(n - 1) /\ longer[i] = kept[i]
          BY <2>3, <3>3
        <4>2. kept[i] = IF i = 0 THEN <<>>
                        ELSE IF seq[i] \in S THEN Append(kept[i - 1], seq[i]) ELSE kept[i - 1]
          BY <2>4, <4>1 DEF KeptTo
        <4> QED BY <3>1, <4>1, <4>2
      <3> QED BY <3>2, <3>3
    <2>6. longer = [i \in 0..n |-> longer[i]]
      OBVIOUS
    <2> HIDE DEF longer
    <2>7. KeptTo(seq, S, n, longer)
      BY <2>5, <2>6 DEF KeptTo
    <2> QED BY <2>1, <2>7
  <1>2. Len(seq) \in 0..Len(seq)
    OBVIOUS
  <1>3. \E kept : KeptTo(seq, S, Len(seq), kept)
    BY <1>1, <1>2
  <1> DEFINE kept == CHOOSE kept : KeptTo(seq, S, Len(seq), kept)
  <1>4. KeptTo(seq, S, Len(seq), kept)
    BY <1>3
  <1>5. Kept(seq, S) = kept[Len(seq)]
    BY Zenon DEF Kept, KeptTo
  <1> HIDE DEF kept
  <1> QED BY <1>4, <1>5

Has(seq, c) == \E i \in 1..Len(seq) : seq[i] = c
\* few has the elements of the first n of seq that are in S.
KeepsOf(few, T, seq, n, S) ==
    few \in Seq(T) /\ \A c : Has(few, c) <=> c \in S /\ \E i \in 1..n : seq[i] = c
\* The entries that are left are those of the directory that are there, in their order.
LEMMA KeptFacts ==
    ASSUME NEW T, NEW seq \in Seq(T), NEW S
    PROVE  KeepsOf(Kept(seq, S), T, seq, Len(seq), S)
  <1>1. PICK kept : KeptTo(seq, S, Len(seq), kept) /\ Kept(seq, S) = kept[Len(seq)]
    BY KeptEnds
  <1>2. \A i \in 0..Len(seq) : kept[i] =
            IF i = 0 THEN <<>>
            ELSE IF seq[i] \in S THEN Append(kept[i - 1], seq[i]) ELSE kept[i - 1]
    BY <1>1 DEF KeptTo
  <1> DEFINE Bad == {n \in 0..Len(seq) : ~KeepsOf(kept[n], T, seq, n, S)}
  <1>3. Bad = {}
    <2> SUFFICES ASSUME Bad # {} PROVE FALSE
      OBVIOUS
    <2>1. PICK n \in Bad : \A m \in Bad : n <= m
      <3>1. Bad \subseteq Nat
        OBVIOUS
      <3> QED BY <3>1, LeastIsThere
    <2>2. n # 0
      <3>1. kept[0] = <<>>
        BY <1>2
      <3>2. KeepsOf(<<>>, T, seq, 0, S)
        BY DEF KeepsOf, Has
      <3> QED BY <2>1, <3>1, <3>2
    <2>3. n \in 1..Len(seq) /\ n - 1 \in 0..Len(seq) /\ ~(n <= n - 1) /\ seq[n] \in T
      BY <2>1, <2>2
    <2> DEFINE few == kept[n - 1]
    <2>4. KeepsOf(few, T, seq, n - 1, S)
      BY <2>1, <2>3
    <2>5. kept[n] = IF seq[n] \in S THEN Append(few, seq[n]) ELSE few
      BY <1>2, <2>2, <2>3
    <2> HIDE DEF few
    <2>6. few \in Seq(T) /\ Len(few) \in Nat
      BY <2>4 DEF KeepsOf
    <2>7. \A c : (\E i \in 1..n : seq[i] = c) <=> c = seq[n] \/ \E i \in 1..(n - 1) : seq[i] = c
      BY <2>3
    <2>8. CASE seq[n] \in S
      <3>1. /\ Append(few, seq[n]) \in Seq(T) /\ Len(Append(few, seq[n])) = Len(few) + 1
            /\ Append(few, seq[n])[Len(few) + 1] = seq[n]
            /\ \A i \in 1..Len(few) : Append(few, seq[n])[i] = few[i]
        BY <2>3, <2>6
      <3>2. \A c : Has(Append(few, seq[n]), c) <=> c = seq[n] \/ Has(few, c)
        BY <2>6, <3>1 DEF Has
      <3>3. KeepsOf(Append(few, seq[n]), T, seq, n, S)
        BY <2>4, <2>7, <2>8, <3>1, <3>2 DEF KeepsOf
      <3> QED BY <2>1, <2>5, <2>8, <3>3
    <2>9. CASE seq[n] \notin S
      <3>1. KeepsOf(few, T, seq, n, S)
        BY <2>4, <2>7, <2>9 DEF KeepsOf
      <3> QED BY <2>1, <2>5, <2>9, <3>1
    <2> QED BY <2>8, <2>9
  <1>4. Len(seq) \in 0..Len(seq)
    OBVIOUS
  <1> QED BY <1>1, <1>3, <1>4

\* So are the entries of a directory of the tree.
LEMMA EntriesAreKept ==
    ASSUME remote \in [Sessions -> RemoteType], NEW s \in Sessions, NEW n \in Nodes
    PROVE  /\ Entries(s, n) \in Seq(Nodes)
           /\ ~IsFile(n) => /\ n \in DOMAIN Children /\ Children[n] \in Seq(Nodes)
                            /\ Entries(s, n) = Kept(Children[n], remote[s].nodes)
                            /\ KeepsOf(Entries(s, n), Nodes, Children[n], Len(Children[n]),
                                       remote[s].nodes)
  <1>1. CASE IsFile(n)
    BY <1>1 DEF Entries
  <1>2. CASE ~IsFile(n)
    <2>1. n \in DOMAIN Children /\ Children[n] \in Seq(Nodes)
      BY <1>2, TreeAssumption DEF IsFile
    <2>2. KeepsOf(Kept(Children[n], remote[s].nodes), Nodes, Children[n], Len(Children[n]),
                  remote[s].nodes)
      BY <2>1, KeptFacts
    <2>3. Entries(s, n) = Kept(Children[n], remote[s].nodes)
      BY <1>2 DEF Entries
    <2> QED BY <2>1, <2>2, <2>3 DEF KeepsOf
  <1> QED BY <1>1, <1>2

\* The least of two numbers.
LEMMA MinOfTwo ==
    ASSUME NEW a \in Nat, NEW b \in Nat
    PROVE  Min({a, b}) = IF a <= b THEN a ELSE b
  <1> DEFINE m == IF a <= b THEN a ELSE b
  <1>1. m \in {a, b} /\ \A x \in {a, b} : m <= x
    OBVIOUS
  <1>2. \A x \in {a, b} : (\A y \in {a, b} : x <= y) => x = m
    OBVIOUS
  <1> HIDE DEF m
  <1>3. Min({a, b}) = m
    BY <1>1, <1>2 DEF Min
  <1> QED BY <1>3 DEF m

\* A page brings what was read of a directory nearer to all of its entries.
ReadOn(more, T, all) ==
    more \in Seq(T) /\ IsStartOf(more, all) /\ (Len(more) < Len(all) \/ more = all)
\* The pages read of a directory so far and the next one are a beginning of it.
LEMMA PageFollows ==
    ASSUME NEW T, NEW all \in Seq(T), NEW few \in Seq(T), IsStartOf(few, all), NEW page,
           page = SubSeq(all, Len(few) + 1, Min({Len(few) + PageSize, Len(all)}))
    PROVE  ReadOn(few \o page, T, all)
  <1> DEFINE r == Len(few)
             n == Len(all)
             e == Min({r + PageSize, n})
             more == few \o page
  <1>1. r \in Nat /\ n \in Nat /\ r <= n /\ PageSize \in Nat /\ few = SubSeq(all, 1, r)
    BY SizeAssumption DEF IsStartOf
  <1>2. e \in Nat /\ r <= e /\ e <= n
    <2>1. r + PageSize \in Nat
      BY <1>1
    <2>2. e = IF r + PageSize <= n THEN r + PageSize ELSE n
      BY <1>1, <2>1, MinOfTwo
    <2> HIDE DEF e, r, n
    <2> QED BY <1>1, <2>2
  <1>3. page = SubSeq(all, r + 1, e)
    OBVIOUS
  <1> HIDE DEF r, n, e
  <1>4. \A i \in 1..n : all[i] \in T
    BY DEF n
  <1>5. page \in Seq(T) /\ Len(page) = e - r /\ \A i \in 1..(e - r) : page[i] = all[r + i]
    <2>1. \A i \in r + 1..e : all[i] \in T
      BY <1>1, <1>2, <1>4
    <2>2. r + 1 \in Int /\ e \in Int
      BY <1>1, <1>2
    <2>3. /\ page \in Seq(T)
          /\ Len(page) = IF r + 1 <= e THEN e - (r + 1) + 1 ELSE 0
          /\ \A i \in 1..e - (r + 1) + 1 : page[i] = all[r + 1 + i - 1]
      BY ONLY <1>3, <2>1, <2>2, SubSeqProperties
    <2>4. Len(page) = e - r
      <3>1. Len(page) = IF r + 1 <= e THEN e - (r + 1) + 1 ELSE 0
        BY ONLY <2>3
      <3>2. (IF r + 1 <= e THEN e - (r + 1) + 1 ELSE 0) = e - r
        BY ONLY <1>1, <1>2
      <3> QED BY ONLY <3>1, <3>2
    <2>5. ASSUME NEW i \in 1..(e - r) PROVE page[i] = all[r + i]
      <3>1. i \in Int /\ i \in 1..e - (r + 1) + 1 /\ r + 1 + i - 1 = r + i
        BY <1>1, <1>2
      <3>2. page[i] = all[r + 1 + i - 1]
        BY ONLY <2>3, <3>1
      <3> QED BY ONLY <3>1, <3>2
    <2> QED BY ONLY <2>3, <2>4, <2>5
  <1>6. \A i \in 1..r : few[i] = all[i]
    <2>1. \A i \in 1..r : all[i] \in T
      BY <1>1, <1>4
    <2>2. 1 \in Int /\ r \in Int
      BY <1>1
    <2>3. \A i \in 1..r - 1 + 1 : SubSeq(all, 1, r)[i] = all[1 + i - 1]
      BY ONLY <2>1, <2>2, SubSeqProperties
    <2> QED BY <1>1, <2>3
  <1>7. more \in Seq(T) /\ Len(more) = e /\ \A i \in 1..e : more[i] = all[i]
    <2>1. /\ more \in Seq(T) /\ Len(more) = Len(few) + Len(page)
          /\ \A i \in 1..Len(few) + Len(page) :
                more[i] = IF i <= Len(few) THEN few[i] ELSE page[i - Len(few)]
      BY <1>5, ConcatProperties
    <2>2. Len(few) = r
      BY DEF r
    <2> HIDE DEF more
    <2>3. Len(more) = e
      BY <1>1, <1>2, <1>5, <2>1, <2>2
    <2>4. ASSUME NEW i \in 1..e PROVE more[i] = all[i]
      <3>1. i \in 1..Len(few) + Len(page)
        BY <1>1, <1>2, <1>5, <2>2
      <3>2. more[i] = IF i <= r THEN few[i] ELSE page[i - r]
        BY ONLY <2>1, <2>2, <3>1
      <3>3. CASE i <= r
        BY <1>1, <1>2, <1>6, <3>2, <3>3
      <3>4. CASE ~(i <= r)
        <4>1. i - r \in 1..(e - r) /\ r + (i - r) = i
          BY <1>1, <1>2, <3>4
        <4> QED BY <1>5, <3>2, <3>4, <4>1
      <3> QED BY <3>3, <3>4
    <2> QED BY <2>1, <2>3, <2>4
  <1> HIDE DEF more
  <1>8. IsStartOf(more, all)
    <2>1. /\ SubSeq(all, 1, e) \in Seq(T)
          /\ Len(SubSeq(all, 1, e)) = IF 1 <= e THEN e - 1 + 1 ELSE 0
          /\ \A i \in 1..e - 1 + 1 : SubSeq(all, 1, e)[i] = all[1 + i - 1]
      <3>1. \A i \in 1..e : all[i] \in T
        BY <1>1, <1>2, <1>4
      <3>2. 1 \in Int /\ e \in Int
        BY <1>2
      <3> QED BY ONLY <3>1, <3>2, SubSeqProperties
    <2>2. Len(SubSeq(all, 1, e)) = e /\ \A i \in 1..e : SubSeq(all, 1, e)[i] = all[i]
      BY <1>2, <2>1
    <2>3. more = SubSeq(all, 1, e)
      BY ONLY <1>7, <2>1, <2>2, SeqEqual
    <2> QED BY <1>2, <1>7, <2>3 DEF IsStartOf, n
  <1>9. e < n \/ more = all
    <2>1. CASE e = n
      BY <1>7, <2>1, SeqEqual DEF n
    <2>2. CASE e # n
      BY <1>1, <1>2, <2>2
    <2> QED BY <2>1, <2>2
  <1> QED BY <1>7, <1>8, <1>9 DEF ReadOn, more, n

---------------------------------------------------------------------------
(* What is left to delete.                                                  *)

\* What Last and Front give for a stack that is not empty.
LEMMA FrontFacts ==
    ASSUME NEW T, NEW seq \in Seq(T), seq # <<>>
    PROVE  /\ Len(seq) \in Nat \ {0} /\ Last(seq) \in T /\ Last(seq) = seq[Len(seq)]
           /\ Front(seq) \in Seq(T) /\ Len(Front(seq)) = Len(seq) - 1
           /\ \A i \in 1..(Len(seq) - 1) : Front(seq)[i] = seq[i]
  <1> DEFINE n == Len(seq)
             m == n - 1
  <1>1. n \in Nat \ {0}
    BY EmptySeq
  <1>2. m \in Nat /\ 1 \in Int /\ m \in Int /\ \A i \in 1..m : seq[i] \in T
    BY <1>1
  <1>3. Front(seq) = SubSeq(seq, 1, m)
    BY DEF Front
  <1> HIDE DEF m
  <1>4. /\ Front(seq) \in Seq(T)
        /\ Len(Front(seq)) = IF 1 <= m THEN m - 1 + 1 ELSE 0
        /\ \A i \in 1..m - 1 + 1 : Front(seq)[i] = seq[1 + i - 1]
    BY ONLY <1>2, <1>3, SubSeqProperties
  <1>5. Len(Front(seq)) = m /\ \A i \in 1..m : Front(seq)[i] = seq[i]
    BY ONLY <1>2, <1>4
  <1> QED BY <1>1, <1>4, <1>5 DEF Last, m

\* The entries that were found wait above the directory they are in, the first on top.
Todo(found) == Reverse([i \in DOMAIN found |-> [node |-> found[i], ready |-> FALSE]])
TodoOf(todo, found) ==
    /\ todo \in Seq(EntryType) /\ Len(todo) = Len(found)
    /\ \A i \in 1..Len(todo) : ~todo[i].ready
    /\ \A c : Has(found, c) => \E i \in 1..Len(todo) : todo[i].node = c
\* The stack of a directory: its children above it, none read.
LEMMA TodoFacts == ASSUME NEW found \in Seq(Nodes) PROVE TodoOf(Todo(found), found)
  <1> DEFINE entries == [i \in DOMAIN found |-> [node |-> found[i], ready |-> FALSE]]
             n == Len(found)
  <1>1. n \in Nat /\ DOMAIN found = 1..n /\ \A i \in 1..n : found[i] \in Nodes
    OBVIOUS
  <1>2. entries \in Seq(EntryType) /\ Len(entries) = n
    <2>1. \A i \in 1..n : [node |-> found[i], ready |-> FALSE] \in EntryType
      BY <1>1 DEF EntryType
    <2> QED BY <1>1, <2>1
  <1>3. \A i \in 1..n : ~entries[i].ready /\ entries[i].node = found[i]
    BY <1>1
  <1>4. Todo(found) = [j \in 1..n |-> entries[n - j + 1]]
    <2>1. Todo(found) = Reverse(entries)
      BY DEF Todo
    <2> HIDE DEF entries, n
    <2> QED BY <1>2, <2>1 DEF Reverse
  <1> HIDE DEF entries
  <1> HIDE DEF n
  <1>5. \A j \in 1..n : n - j + 1 \in 1..n /\ n - (n - j + 1) + 1 = j
    BY <1>1
  <1>6. \A j \in 1..n : entries[n - j + 1] \in EntryType
    BY <1>2, <1>5
  <1>7. Todo(found) \in Seq(EntryType) /\ Len(Todo(found)) = n
    BY <1>1, <1>4, <1>6
  <1>8. \A i \in 1..n : ~Todo(found)[i].ready
    BY <1>3, <1>4, <1>5
  <1>9. ASSUME NEW c, Has(found, c) PROVE \E i \in 1..n : Todo(found)[i].node = c
    <2>1. PICK i \in 1..n : found[i] = c
      BY <1>9 DEF Has, n
    <2>2. n - i + 1 \in 1..n /\ Todo(found)[n - i + 1] = entries[i]
      BY <1>4, <1>5
    <2> QED BY <1>3, <2>1, <2>2
  <1> QED BY <1>7, <1>8, <1>9 DEF TodoOf, n

\* Fewer nodes never make a stack wrong, and no removal of the top one does.
LEMMA StackShrinks ==
    ASSUME NEW pending, NEW nodes, NEW fewer, fewer \subseteq nodes, StackOf(pending, nodes)
    PROVE  StackOf(pending, fewer)
  BY DEF StackOf
\* A removal stays in order when the node on top is gone.
LEMMA RemovalShrinks ==
    ASSUME NEW rest, NEW nodes, RemovalOK(rest, nodes), Removable(rest.pending[Len(rest.pending)])
    PROVE  RemovalOK(rest, nodes \ {rest.pending[Len(rest.pending)].node})
  BY StackShrinks DEF RemovalOK

\* Nothing is the beginning of everything.
LEMMA EmptyBegins == ASSUME NEW T, NEW all \in Seq(T) PROVE IsStartOf(<<>>, all)
  <1>1. Len(all) \in Nat /\ Len(<<>>) = 0
    OBVIOUS
  <1>2. SubSeq(all, 1, 0) = <<>>
    <2>1. /\ SubSeq(all, 1, 0) \in Seq(T) /\ Len(SubSeq(all, 1, 0)) = IF 1 <= 0 THEN 0 - 1 + 1 ELSE 0
      BY SubSeqProperties
    <2> QED BY <2>1, EmptySeq
  <1> QED BY <1>1, <1>2 DEF IsStartOf

\* A removal that is left, if any is, is in order.
InOrder(rest, nodes) ==
    rest \in RemovalType /\ (rest.pending # <<>> => RemovalOK(rest, nodes))
\* A removal of which no child of the top entry was read yet is in order when its stack is.
LEMMA Unread ==
    ASSUME NEW rest \in RemovalType, rest.children = <<>>, NEW nodes,
           rest.pending # <<>> => StackOf(rest.pending, nodes)
    PROVE  InOrder(rest, nodes)
  <1> SUFFICES ASSUME rest.pending # <<>> PROVE RemovalOK(rest, nodes)
    BY DEF InOrder
  <1> DEFINE top == rest.pending[Len(rest.pending)]
  <1>1. rest.pending \in Seq(EntryType)
    BY DEF RemovalType
  <1>2. top \in EntryType
    <2>1. Len(rest.pending) \in 1..Len(rest.pending)
      BY <1>1, EmptySeq
    <2> QED BY <1>1, <2>1
  <1> HIDE DEF top
  <1>3. ASSUME ~Removable(top) PROVE IsStartOf(rest.children, Kept(Children[top.node], nodes))
    <2>1. Children[top.node] \in Seq(Nodes)
      BY <1>3, TreeAssumption DEF Removable, IsFile
    <2>2. Kept(Children[top.node], nodes) \in Seq(Nodes)
      BY <2>1, KeptFacts DEF KeepsOf
    <2> QED BY <2>2, EmptyBegins
  <1> QED BY <1>3 DEF RemovalOK, top

\* The rest of the stack is in order for what is left.
LEMMA TopGoes ==
    ASSUME removal \in RemovalType, NEW all, RemovalOK(removal, all), NEW rest,
           rest = [pending |-> Front(removal.pending), children |-> <<>>, changed |-> TRUE]
    PROVE  InOrder(rest, all \ {Top.node})
  <1> DEFINE pending == removal.pending
             n == Len(pending)
             below == Front(pending)
  <1>1. pending \in Seq(EntryType) /\ pending # <<>> /\ StackOf(pending, all)
    BY DEF RemovalType, RemovalOK
  <1>2. /\ n \in Nat \ {0} /\ Top = pending[n]
        /\ below \in Seq(EntryType) /\ Len(below) = n - 1
        /\ \A i \in 1..(n - 1) : below[i] = pending[i]
    BY <1>1, FrontFacts DEF Top
  <1>3. rest \in RemovalType /\ rest.pending = below /\ rest.children = <<>>
    BY <1>2 DEF RemovalType
  <1>4. DOMAIN pending = 1..n /\ DOMAIN below = 1..(n - 1)
    BY <1>1, <1>2
  <1> HIDE DEF n, below, pending
  <1>5. StackOf(below, all \ {Top.node})
    <2> SUFFICES ASSUME NEW i \in 1..(n - 1), below[i].ready
                 PROVE  /\ ~IsFile(below[i].node)
                        /\ \A c \in ToSet(Children[below[i].node]) \cap (all \ {Top.node}) :
                              \E j \in 1..(n - 1) : i < j /\ below[j].node = c
      BY <1>4 DEF StackOf
    <2>1. i \in 1..n /\ below[i] = pending[i]
      BY <1>2
    <2>2. ~IsFile(pending[i].node)
      BY <1>1, <1>4, <2>1 DEF StackOf
    <2>3. ASSUME NEW c \in ToSet(Children[pending[i].node]) \cap (all \ {Top.node})
          PROVE  \E j \in 1..(n - 1) : i < j /\ below[j].node = c
      <3>1. PICK j \in 1..n : i < j /\ pending[j].node = c
        BY <1>1, <1>4, <2>1 DEF StackOf
      <3>2. j # n
        BY <1>2, <3>1
      <3>3. j \in 1..(n - 1)
        BY <1>2, <3>2
      <3> QED BY <1>2, <3>1, <3>3
    <2> QED BY <2>1, <2>2, <2>3
  <1> QED BY <1>3, <1>5, Unread

\* The last page of a directory is read: its entries wait above it.
LEMMA ChildrenWait ==
    ASSUME removal \in RemovalType, NEW nodes, RemovalOK(removal, nodes), ~Removes,
           NEW found \in Seq(Nodes), found = Kept(Children[Top.node], nodes), NEW rest,
           rest = [removal EXCEPT
                     !.pending = Append(Front(removal.pending), [node |-> Top.node, ready |-> TRUE])
                                 \o Todo(found),
                     !.children = <<>>]
    PROVE  InOrder(rest, nodes)
  <1> DEFINE pending == removal.pending
             n == Len(pending)
             below == Front(pending)
             read == [node |-> Top.node, ready |-> TRUE]
             todo == Todo(found)
             k == Len(todo)
             grown == Append(below, read)
             more == grown \o todo
  <1>1. pending \in Seq(EntryType) /\ pending # <<>> /\ StackOf(pending, nodes)
    BY DEF RemovalType, RemovalOK
  <1>2. /\ n \in Nat \ {0} /\ Top = pending[n] /\ Top \in EntryType
        /\ below \in Seq(EntryType) /\ Len(below) = n - 1
        /\ \A i \in 1..(n - 1) : below[i] = pending[i]
    BY <1>1, FrontFacts DEF Top
  <1>3. Top.node \in Nodes /\ read \in EntryType /\ read.node = Top.node /\ read.ready
    BY <1>2 DEF EntryType
  <1>4. /\ todo \in Seq(EntryType) /\ k = Len(found)
        /\ \A i \in 1..k : ~todo[i].ready
        /\ \A c : Has(found, c) => \E i \in 1..k : todo[i].node = c
    BY TodoFacts DEF TodoOf
  <1>5. k \in Nat
    BY <1>4
  <1>6. rest.pending = more /\ rest.children = <<>> /\ rest.changed = removal.changed
    BY DEF RemovalType
  <1>7. rest = [pending |-> more, children |-> <<>>, changed |-> removal.changed]
    BY DEF RemovalType
  <1>8. DOMAIN pending = 1..n
    BY <1>1
  <1> HIDE DEF pending, n, below, read, todo, k
  <1>9. /\ grown \in Seq(EntryType) /\ Len(grown) = n
        /\ grown[n] = read
        /\ \A i \in 1..(n - 1) : grown[i] = pending[i]
    <2>1. Append(below, read) \in Seq(EntryType) /\ Len(Append(below, read)) = n - 1 + 1
      BY <1>2, <1>3
    <2>2. n - 1 + 1 = n
      BY <1>2
    <2>3. Append(below, read)[Len(below) + 1] = read
      BY <1>2, <1>3
    <2>4. \A i \in 1..Len(below) : Append(below, read)[i] = below[i]
      BY <1>2, <1>3
    <2> QED BY <1>2, <2>1, <2>2, <2>3, <2>4
  <1> HIDE DEF grown
  <1>10. /\ more \in Seq(EntryType) /\ Len(more) = n + k /\ DOMAIN more = 1..(n + k)
         /\ \A i \in 1..(n + k) : more[i] = IF i <= n THEN grown[i] ELSE todo[i - n]
    <2>1. /\ grown \o todo \in Seq(EntryType)
          /\ Len(grown \o todo) = Len(grown) + Len(todo)
          /\ \A i \in 1..Len(grown) + Len(todo) :
                (grown \o todo)[i] =
                    IF i <= Len(grown) THEN grown[i]
                    ELSE todo[i - Len(grown)]
      <3>1. grown \in Seq(EntryType) /\ todo \in Seq(EntryType)
        BY ONLY <1>4, <1>9
      <3> QED BY ONLY <3>1, ConcatProperties
    <2>2. Len(grown) = n /\ Len(todo) = k /\ n + k \in Nat
      BY <1>2, <1>5, <1>9 DEF k
    <2>3. DOMAIN more = 1..Len(more)
      BY <2>1
    <2> QED BY ONLY <2>1, <2>2, <2>3 DEF more
  <1> HIDE DEF more
  <1>11. /\ \A i \in 1..(n - 1) : i \in 1..(n + k) /\ more[i] = pending[i]
         /\ n \in 1..(n + k) /\ more[n] = read
         /\ \A i \in 1..k : n + i \in 1..(n + k) /\ more[n + i] = todo[i]
    <2>1. ASSUME NEW i \in 1..(n - 1) PROVE i \in 1..(n + k) /\ more[i] = pending[i]
      <3>1. i \in 1..(n + k) /\ i <= n
        BY <1>2, <1>5
      <3> QED BY <1>9, <1>10, <3>1
    <2>2. n \in 1..(n + k) /\ n <= n
      BY <1>2, <1>5
    <2>3. more[n] = read
      BY <1>9, <1>10, <2>2
    <2>4. ASSUME NEW i \in 1..k PROVE n + i \in 1..(n + k) /\ more[n + i] = todo[i]
      <3> DEFINE j == n + i
      <3>1. j \in 1..(n + k) /\ ~(j <= n) /\ j - n = i
        BY <1>2, <1>5
      <3> HIDE DEF j
      <3>2. more[j] = IF j <= n THEN grown[j] ELSE todo[j - n]
        BY <1>10, <3>1
      <3>3. more[j] = todo[j - n]
        BY ONLY <3>1, <3>2
      <3> QED BY ONLY <3>1, <3>3 DEF j
    <2> QED BY <2>1, <2>2, <2>3, <2>4
  <1>12. \A i \in 1..n : more[i].node = pending[i].node
    <2> TAKE i \in 1..n
    <2>1. CASE i = n
      BY <1>2, <1>3, <1>11, <2>1
    <2>2. CASE i # n
      <3>1. i \in 1..(n - 1)
        BY <1>2, <2>2
      <3> QED BY <1>11, <3>1
    <2> QED BY <2>1, <2>2
  <1>13. StackOf(more, nodes)
    <2> SUFFICES ASSUME NEW i \in 1..(n + k), more[i].ready
                 PROVE  /\ ~IsFile(more[i].node)
                        /\ \A c \in ToSet(Children[more[i].node]) \cap nodes :
                              \E j \in 1..(n + k) : i < j /\ more[j].node = c
      BY <1>10 DEF StackOf
    <2>1. CASE i \in 1..(n - 1)
      <3>1. i \in 1..n /\ more[i] = pending[i]
        BY <1>2, <1>11, <2>1
      <3>2. ~IsFile(pending[i].node)
        BY <1>1, <1>8, <3>1 DEF StackOf
      <3>3. ASSUME NEW c \in ToSet(Children[pending[i].node]) \cap nodes
            PROVE  \E j \in 1..(n + k) : i < j /\ more[j].node = c
        <4>1. PICK j \in 1..n : i < j /\ pending[j].node = c
          BY <1>1, <1>8, <3>1 DEF StackOf
        <4>2. j \in 1..(n + k)
          BY <1>2, <1>5
        <4> QED BY <1>12, <4>1, <4>2
      <3> QED BY <3>1, <3>2, <3>3
    <2>2. CASE i = n
      <3>1. more[i].node = Top.node /\ ~IsFile(Top.node)
        BY <1>3, <1>11, <2>2 DEF Removes
      <3>2. ASSUME NEW c \in ToSet(Children[Top.node]) \cap nodes
            PROVE  \E j \in 1..(n + k) : i < j /\ more[j].node = c
        <4>1. Children[Top.node] \in Seq(Nodes)
          BY <3>1, TreeAssumption DEF IsFile
        <4>2. Has(found, c)
          <5>1. \E l \in 1..Len(Children[Top.node]) : Children[Top.node][l] = c
            BY <4>1 DEF ToSet
          <5> QED BY <4>1, <5>1, KeptFacts DEF KeepsOf
        <4>3. PICK l \in 1..k : todo[l].node = c
          BY <1>4, <4>2
        <4>4. n + l \in 1..(n + k) /\ i < n + l /\ more[n + l].node = c
          BY <1>2, <1>5, <1>11, <2>2, <4>3
        <4> QED BY <4>4
      <3> QED BY <3>1, <3>2
    <2>3. CASE i \notin 1..(n - 1) /\ i # n
      <3>1. i - n \in 1..k /\ n + (i - n) = i
        BY <1>2, <1>5, <2>3
      <3>2. more[i] = todo[i - n]
        BY <1>11, <3>1
      <3> QED BY <1>4, <3>1, <3>2
    <2> QED BY <2>1, <2>2, <2>3
  <1>14. rest \in RemovalType
    <2>1. removal.changed \in BOOLEAN
      BY DEF RemovalType
    <2>2. <<>> \in Seq(Nodes)
      OBVIOUS
    <2> QED BY ONLY <1>7, <1>10, <2>1, <2>2 DEF RemovalType
  <1> QED BY <1>6, <1>13, <1>14, Unread

\* The nodes that the request for the top entry leaves.
LeftOf(all) == IF Removes THEN all \ {Top.node} ELSE all
\* So it is whatever the answer to a deletion was: the node is gone or still on top.
LEMMA AnswerKeeps ==
    ASSUME remote \in [Sessions -> RemoteType], NEW s \in Sessions, removal \in RemovalType,
           RemovalOK(removal, remote[s].nodes)
    PROVE  InOrder(AfterAnswer(s), LeftOf(remote[s].nodes))
  <1> DEFINE all   == Entries(s, Top.node)
             found == removal.children \o Page(Top.node, s)
             nodes == remote[s].nodes
  <1>1. removal.pending \in Seq(EntryType) /\ removal.pending # <<>>
    BY DEF RemovalType, RemovalOK
  <1>2. Top \in EntryType /\ Top.node \in Nodes /\ Top = removal.pending[Len(removal.pending)]
    <2>1. Top \in EntryType /\ Top = removal.pending[Len(removal.pending)]
      BY <1>1, FrontFacts DEF Top
    <2> QED BY <2>1 DEF EntryType
  <1>3. CASE Removes
    <2>1. AfterAnswer(s) = [pending |-> Front(removal.pending), children |-> <<>>, changed |-> TRUE]
      BY <1>3 DEF AfterAnswer
    <2> QED BY <1>3, <2>1, TopGoes DEF LeftOf
  <1>4. CASE ~Removes
    <2>1. ~IsFile(Top.node) /\ ~Removable(Top) /\ LeftOf(nodes) = nodes
      BY <1>4 DEF Removes, Removable, LeftOf
    <2>2. all \in Seq(Nodes) /\ all = Kept(Children[Top.node], nodes)
      BY <1>2, <2>1, EntriesAreKept
    <2>3. removal.children \in Seq(Nodes) /\ IsStartOf(removal.children, all)
      BY <1>2, <2>1, <2>2 DEF RemovalType, RemovalOK
    <2>4. Page(Top.node, s) = SubSeq(all, Len(removal.children) + 1,
                                     Min({Len(removal.children) + PageSize, Len(all)}))
      BY DEF Page
    <2> HIDE DEF all
    <2>5. ReadOn(found, Nodes, all)
      BY <2>2, <2>3, <2>4, PageFollows
    <2>6. CASE Len(found) < Len(all)
      <3>1. AfterAnswer(s) = [removal EXCEPT !.children = found]
        BY <1>4, <2>6 DEF AfterAnswer, all
      <3> DEFINE rest == [removal EXCEPT !.children = found]
      <3>2. rest \in RemovalType /\ rest.pending = removal.pending /\ rest.children = found
        BY <2>5 DEF RemovalType, ReadOn
      <3> HIDE DEF rest, found
      <3>3. RemovalOK(rest, nodes)
        <4>1. StackOf(rest.pending, nodes) /\ rest.pending # <<>>
          BY <1>1, <3>2 DEF RemovalOK
        <4>2. rest.pending[Len(rest.pending)] = Top
          BY <1>2, <3>2
        <4>3. IsStartOf(rest.children, Kept(Children[Top.node], nodes))
          BY <2>2, <2>5, <3>2 DEF ReadOn
        <4> QED BY <2>1, <4>1, <4>2, <4>3 DEF RemovalOK
      <3>4. AfterAnswer(s) = rest
        BY <3>1 DEF rest
      <3> QED BY <2>1, <3>2, <3>3, <3>4 DEF InOrder
    <2>7. CASE ~(Len(found) < Len(all))
      <3>1. AfterAnswer(s) =
                [removal EXCEPT
                     !.pending = Append(Front(removal.pending), [node |-> Top.node, ready |-> TRUE])
                                 \o Todo(found),
                     !.children = <<>>]
        BY <1>4, <2>7 DEF AfterAnswer, all, Todo
      <3> HIDE DEF found
      <3>2. found \in Seq(Nodes) /\ found = Kept(Children[Top.node], nodes)
        BY <2>2, <2>5, <2>7 DEF ReadOn
      <3>3. InOrder(AfterAnswer(s), nodes)
        BY <1>4, <3>1, <3>2, ChildrenWait
      <3> QED BY <2>1, <3>3
    <2> QED BY <2>6, <2>7
  <1> QED BY <1>3, <1>4

\* The request that was done without an answer leaves a removal in order.
LEMMA LostKeeps ==
    ASSUME removal \in RemovalType, NEW nodes, RemovalOK(removal, nodes)
    PROVE  RemovalOK(removal, LeftOf(nodes))
  <1>1. Top = removal.pending[Len(removal.pending)]
    BY DEF Top, Last
  <1> QED BY <1>1, RemovalShrinks DEF LeftOf, Removes, Removable

\* A removal in order asks a directory to go only when nothing is left in it.
LEMMA ReadyIsEmpty ==
    ASSUME remote \in [Sessions -> RemoteType], NEW s \in Sessions, removal \in RemovalType,
           RemovalOK(removal, remote[s].nodes), Top.ready
    PROVE  Entries(s, Top.node) = <<>>
  <1> DEFINE all == Entries(s, Top.node)
             n == Len(removal.pending)
  <1>1. removal.pending \in Seq(EntryType) /\ removal.pending # <<>>
        /\ StackOf(removal.pending, remote[s].nodes)
    BY DEF RemovalType, RemovalOK
  <1>2. /\ Top \in EntryType /\ Top.node \in Nodes /\ Top = removal.pending[n]
        /\ n \in Nat \ {0} /\ n \in DOMAIN removal.pending /\ DOMAIN removal.pending = 1..n
    <2>1. Top \in EntryType /\ Top = removal.pending[n] /\ n \in Nat \ {0}
      BY <1>1, FrontFacts DEF Top
    <2>2. DOMAIN removal.pending = 1..n
      BY <1>1
    <2> HIDE DEF n
    <2> QED BY <2>1, <2>2 DEF EntryType
  <1> HIDE DEF n
  <1>3. ~IsFile(Top.node)
    BY <1>1, <1>2 DEF StackOf
  <1>4. \A c \in ToSet(Children[Top.node]) : c \notin remote[s].nodes
    <2> SUFFICES ASSUME NEW c \in ToSet(Children[Top.node]) \cap remote[s].nodes PROVE FALSE
      OBVIOUS
    <2>1. \E j \in 1..n : n < j
      BY <1>1, <1>2 DEF StackOf
    <2> QED BY <1>2, <2>1
  <1>5. /\ Children[Top.node] \in Seq(Nodes) /\ all \in Seq(Nodes)
        /\ \A c : Has(all, c) <=> c \in remote[s].nodes /\ Has(Children[Top.node], c)
    BY <1>2, <1>3, EntriesAreKept DEF KeepsOf, Has
  <1> HIDE DEF all
  <1>6. \A i \in 1..Len(all) : FALSE
    <2> TAKE i \in 1..Len(all)
    <2>1. Has(all, all[i])
      BY DEF Has
    <2>2. Has(Children[Top.node], all[i]) /\ all[i] \in remote[s].nodes
      BY <1>5, <2>1
    <2>3. all[i] \in ToSet(Children[Top.node])
      BY <1>5, <2>2 DEF Has, ToSet
    <2> QED BY <1>4, <2>2, <2>3
  <1>7. Len(all) \in Nat /\ Len(all) = 0
    BY <1>5, <1>6
  <1>8. all = <<>>
    BY <1>5, <1>7, EmptySeq
  <1> QED BY <1>8 DEF all

---------------------------------------------------------------------------
(* What keeps each part of the invariant.                                   *)

\* Nothing begins to change anything but where the user is.
Asked == \A t \in Slots :
    (tasks'[t].step \in Changing /\ tasks[t].step \notin Changing
        /\ tasks'[t].kind \in {"edit", "delete"}) => tasks'[t].home = sessionId
\* A step of one function is as ChangesStayHome wants it if what it begins to change is at home.
LEMMA AskedMoves ==
    ASSUME TasksType, NEW t \in Slots, Moves(t),
           tasks'[t].step \in Changing /\ tasks[t].step \notin Changing
              /\ tasks'[t].kind \in {"edit", "delete"} => tasks'[t].home = sessionId
    PROVE  Asked
  <1> SUFFICES ASSUME NEW u \in Slots \ {t}, tasks'[u].step \in Changing
               PROVE  tasks[u].step \in Changing
    BY DEF Asked
  <1> QED BY SameFields DEF Moves, SameBut

Listing == {"list", "close", "open"}
\* The functions that load go on as they were.
LoadsAsBefore(u) ==
    /\ tasks'[u].step \in Listing <=> tasks[u].step \in Listing
    /\ tasks'[u].step \in Listing => tasks'[u].step = tasks[u].step
    /\ tasks'[u].step = "list" =>
          /\ tasks'[u].fresh = tasks[u].fresh
          /\ tasks'[u].at = tasks[u].at /\ tasks'[u].path = tasks[u].path
\* The listing stays true when nothing of it moves.
LEMMA LoadQuiet ==
    ASSUME LoadInv, UNCHANGED <<sessionId, cwd, listed, loading, loadFailed>>,
           \A u \in Slots : LoadsAsBefore(u)
    PROVE  LoadInv'
  <1>1. \A u \in Slots : (ListsNow(u)' <=> ListsNow(u))
            /\ (ListsNow(u)' => tasks'[u].at = tasks[u].at /\ tasks'[u].path = tasks[u].path)
    BY DEF LoadsAsBefore, ListsNow, Listing
  <1>2. Loads' <=> Loads
    BY DEF LoadsAsBefore, Loads, Listing
  <1> QED BY <1>1, <1>2 DEF LoadInv

\* It is true when a load has just begun.
LEMMA LoadLists ==
    ASSUME NEW t \in Slots, NEW task, ListsOnly(t, task, sessionId', cwd')
    PROVE  LoadInv'
  <1>1. ListsNow(t)' /\ tasks'[t].at = sessionId' /\ tasks'[t].path = cwd'
    BY DEF ListsOnly
  <1>2. \A u \in Slots : ListsNow(u)' => u = t
    BY DEF ListsOnly
  <1> QED BY <1>1, <1>2 DEF LoadInv

\* The preview stays true when another function moves.
LEMMA PreviewMoves ==
    ASSUME TasksType, PreviewInv, NEW t \in Slots, Moves(t), ViewKept,
           tasks'[t].kind = "preview" =>
              tasks[t].kind = "preview" /\ tasks'[t].path = tasks[t].path
                 /\ tasks'[t].fresh = tasks[t].fresh /\ tasks'[t].at \in {tasks[t].at, sessionId}
    PROVE  PreviewInv'
  <1>1. ASSUME NEW u \in Slots, tasks'[u].kind = "preview", tasks'[u].fresh
        PROVE  /\ tasks[u].kind = "preview" /\ tasks[u].fresh /\ tasks'[u].path = tasks[u].path
               /\ tasks'[u].at \in {tasks[u].at, sessionId}
    <2>1. CASE u = t
      BY <1>1, <2>1
    <2>2. CASE u # t
      <3>1. SameBut(u)
        BY <2>2, SameFields DEF Moves
      <3> QED BY <1>1, <3>1 DEF SameBut
    <2> QED BY <2>1, <2>2
  <1> QED BY <1>1 DEF PreviewInv, ViewKept
\* What shows the same session and file keeps the viewer.
LEMMA ViewStays ==
    ASSUME StepInv, UNCHANGED <<sessionId, Viewer>>
    PROVE  ViewKept
  BY DEF ViewKept, Viewer, StepInv, TypeInv, ViewerType

\* What a request changes of the uploaded files, and of the nodes.
FilesKept == \A s \in Sessions : /\ remote'[s].final = remote[s].final
                                 /\ remote'[s].temp \in {remote[s].temp, "none"}
NodesKept == \A s \in Sessions : remote'[s].nodes = remote[s].nodes

\* A step of one function leaves the uploads of the others as they are.
LEMMA OthersUpload ==
    ASSUME TasksType, NEW t \in Slots, Moves(t), NEW u \in Slots \ {t}
    PROVE  /\ Uploads(u)' <=> Uploads(u)
           /\ tasks'[u].home = tasks[u].home /\ tasks'[u].step = tasks[u].step
           /\ tasks'[u].kind = tasks[u].kind
  <1>1. SameBut(u)
    BY SameFields DEF Moves
  <1> QED BY <1>1 DEF SameBut, Uploads
\* The file of an upload gets its name from that upload only.
LEMMA RenameUploads ==
    ASSUME TasksType, NEW t \in Slots, tasks[t].step = "rename"
    PROVE  Uploads(t)
  BY Waiting DEF Proper, StepOf, Uploads
\* What holds of uploads is kept by a step that is not of one.
LEMMA UploadQuiet ==
    ASSUME TasksType, UploadType, UploadInv, NEW t \in Slots, Moves(t), UNCHANGED Upload,
           FilesKept, ~Uploads(t)'
    PROVE  UploadInv'
  <1>1. TasksType'
    BY MovesType
  <1>2. \A u \in Slots : Uploads(u)' =>
            Uploads(u) /\ tasks'[u].home = tasks[u].home /\ tasks'[u].step = tasks[u].step
    BY OthersUpload
  <1>3. \A u \in Slots : tasks'[u].step = "rename" => Uploads(u)'
    BY <1>1, RenameUploads DEF Uploads, TasksType, Waits, Idle, Proper, StepOf
  <1>4. ASSUME NEW u \in Slots, tasks'[u].step = "rename"
        PROVE  remote'[tasks'[u].home].temp # "part"
    <2>1. Uploads(u)' /\ Proper(tasks'[u])
      BY <1>1, <1>3, <1>4 DEF TasksType, Waits, Idle
    <2>2. tasks'[u].home \in Sessions /\ tasks'[u].home = tasks[u].home /\ tasks[u].step = "rename"
      BY <1>2, <1>4, <2>1 DEF Proper, TaskType
    <2> QED BY <2>2 DEF UploadInv, FilesKept
  <1>5. progress # None => progress.home \in Sessions
    BY DEF UploadType, ProgressType
  <1>6. AtomicUpload'
    BY <1>5 DEF UploadInv, AtomicUpload, FilesKept, Upload
  <1> QED BY <1>2, <1>4, <1>6 DEF UploadInv, Upload

\* The upload goes on with its next request.
LEMMA UploadGoesOn ==
    ASSUME TasksType, UploadInv, NEW t \in Slots, Moves(t), Uploads(t),
           tasks'[t].home = tasks[t].home, uploading', progress' \in ProgressType,
           progress'.phase \in {"preparing", "running"}, progress'.home = progress.home,
           UNCHANGED dismiss,
           tasks'[t].step \notin {"rename", "cleanup"} => sent'.chunk < Chunks,
           tasks'[t].step = "rename" => remote'[tasks[t].home].temp # "part",
           \A s \in Sessions : remote'[s].final # "part"
    PROVE  UploadInv'
  <1>1. TasksType'
    BY MovesType
  <1>2. \A u \in Slots : Uploads(u)' => u = t
    BY OthersUpload DEF UploadInv
  <1>3. \A u \in Slots : tasks'[u].step = "rename" => u = t
    <2> TAKE u \in Slots
    <2>1. tasks'[u].step = "rename" /\ u # t => Uploads(u)
      BY OthersUpload, RenameUploads
    <2> QED BY <2>1 DEF UploadInv
  <1>4. ~dismiss'
    BY DEF UploadInv
  <1>5. progress'.home = tasks[t].home
    BY DEF UploadInv
  <1>6. AtomicUpload'
    BY DEF AtomicUpload
  <1> QED BY <1>2, <1>3, <1>4, <1>5, <1>6 DEF UploadInv

\* There is no upload any more, and no half file.
LEMMA UploadStops ==
    ASSUME TasksType', \A u \in Slots : ~Uploads(u)', AtomicUpload',
           dismiss' => progress'.phase = "completed"
    PROVE  UploadInv'
  <1>1. \A u \in Slots : tasks'[u].step # "rename"
    BY DEF Uploads, TasksType, Waits, Idle, Proper, StepOf
  <1> QED BY <1>1 DEF UploadInv

\* What holds of a removal is kept by a step that is not of one.
LEMMA RemoveQuiet ==
    ASSUME TasksType, RemoveInv, NEW t \in Slots, Moves(t), UNCHANGED <<deleting, removal>>,
           NodesKept, tasks'[t].kind = "delete" => tasks[t].kind = "delete" /\ tasks'[t].step = "list"
    PROVE  RemoveInv'
  <1>1. \A u \in Slots : tasks'[u].kind = "delete" => tasks[u].kind = "delete"
    BY OthersUpload
  <1>2. ASSUME NEW u \in Slots, tasks'[u].kind = "delete", tasks'[u].step = "call"
        PROVE  RemovalOK(removal, remote'[tasks'[u].home].nodes)
    <2>1. /\ u # t /\ tasks[u].kind = "delete" /\ tasks[u].step = "call"
          /\ tasks'[u].home = tasks[u].home
      BY <1>2, OthersUpload
    <2>2. tasks[u].home \in Sessions
      BY <2>1, Waiting DEF Proper, TaskType
    <2>3. RemovalOK(removal, remote[tasks[u].home].nodes)
      BY <2>1 DEF RemoveInv
    <2>4. remote'[tasks'[u].home].nodes = remote[tasks[u].home].nodes
      BY <2>1, <2>2 DEF NodesKept
    <2> QED BY <2>3, <2>4
  <1> QED BY <1>1, <1>2 DEF RemoveInv

\* The one removal goes on, or ends.
LEMMA RemoveAlone ==
    ASSUME TasksType, NEW t \in Slots, Moves(t), \A u \in Slots \ {t} : tasks[u].kind # "delete",
           tasks'[t].kind = "delete" =>
              /\ deleting'
              /\ tasks'[t].step = "call" => RemovalOK(removal', remote'[tasks'[t].home].nodes)
    PROVE  RemoveInv'
  <1>1. \A u \in Slots : tasks'[u].kind = "delete" => u = t
    BY OthersUpload
  <1> QED BY <1>1 DEF RemoveInv

---------------------------------------------------------------------------
(* Steps that change little.                                                *)

StepKeeps == StepInv' /\ Asked

\* The fields of a function that waits.
LEMMA ProperType ==
    ASSUME NEW task, Proper(task)
    PROVE  /\ task \in TaskType /\ task.home \in Sessions /\ task.at \in Sessions
           /\ task.kind \in Kinds /\ task.step \in Steps
           /\ task.path \in Dirs \cup Files \cup {None}
           /\ StepOf(task.kind, task.step)
           /\ task.step \in Listing => task.path \in Dirs
  BY DEF Proper, TaskType, Listing

\* A request that neither writes, renames nor deletes leaves the files as they are.
LEMMA OtherDone ==
    ASSUME remote \in [Sessions -> RemoteType], NEW t \in Slots, tasks[t] = Idle \/ Proper(tasks[t]),
           tasks[t].kind # "delete", tasks[t].step \notin {"write", "rename"}, Done(t)
    PROVE  FilesKept /\ NodesKept /\ remote' \in [Sessions -> RemoteType]
  <1>1. CASE remote' = remote
    BY <1>1 DEF FilesKept, NodesKept
  <1>2. CASE remote' = Applied(tasks[t])
    <2>1. CASE tasks[t] = Idle
      BY <1>2, <2>1 DEF Applied, FilesKept, NodesKept, Idle
    <2>2. CASE Proper(tasks[t])
      <3>1. tasks[t].at \in Sessions
        BY <2>2, ProperType
      <3>2. remote[tasks[t].at] \in RemoteType
        BY <3>1
      <3>3. remote' = remote \/ remote' = [remote EXCEPT ![tasks[t].at].temp = "none"]
        BY <1>2, <3>1 DEF Applied
      <3> QED BY <3>1, <3>2, <3>3 DEF FilesKept, NodesKept, RemoteType
    <2> QED BY <2>1, <2>2
  <1> QED BY <1>1, <1>2 DEF Done

\* Nothing but the clean-up that an upload left behind is in the slot of the Sweeper.
LEMMA NotSweeper ==
    ASSUME StepInv, NEW t \in Slots, tasks[t].kind \in Kinds \ {"sweep"}
    PROVE  t # Sweeper
  BY DEF StepInv, TypeInv, TasksType, Waits, Idle, Kinds

\* A function that neither loads, uploads nor deletes begins, goes on or ends.
Quietly(old, new) ==
    /\ old.kind # "delete" /\ old.step \notin Listing \cup {"write", "rename"}
    /\ new # Idle =>
          /\ Proper(new) /\ new.kind \notin {"delete", "upload"} /\ new.step \notin Listing
          /\ new.kind = "preview" => /\ old.kind = "preview" /\ new.path = old.path
                                     /\ new.fresh = old.fresh /\ new.at \in {old.at, sessionId}
          /\ new.step = "call" => new.home = sessionId
\* A step of one function that changes nothing shown keeps the parts of StepInv.
LEMMA QuietStep ==
    ASSUME StepInv, NEW t \in Slots, NEW task, Quietly(tasks[t], task), Becomes(t, task),
           t # Sweeper \/ task = Idle,
           UNCHANGED <<Panel, Viewer, Upload, Delete>>, Done(t), LinkType',
           transfer' \in {"none", "run", "cancel"}
    PROVE  StepKeeps
  <1>1. TypeInv /\ TasksType /\ LoadInv /\ PreviewInv /\ UploadInv /\ RemoveInv
    BY DEF StepInv, TypeInv
  <1>2. Became(t, task)
    BY <1>1, BecomesMoves DEF Quietly
  <1>3. Moves(t) /\ tasks'[t] = task /\ TasksType'
    BY <1>1, <1>2, MovesType DEF Became
  <1>4. tasks[t] = Idle \/ Proper(tasks[t])
    BY <1>1 DEF TasksType, Waits
  <1>5. FilesKept /\ NodesKept /\ remote' \in [Sessions -> RemoteType]
    BY <1>1, <1>4, OtherDone DEF Quietly, TypeInv, OthersType
  <1>6. TypeInv'
    BY <1>1, <1>3, <1>5 DEF TypeInv, PanelType, ViewerType, UploadType, DeleteType, OthersType,
                            Panel, Viewer, Upload, Delete
  <1>7. task.step \notin Listing /\ task.kind \notin {"delete", "upload"}
    BY DEF Quietly, Idle, Listing
  <1>8. LoadInv'
    <2>1. \A u \in Slots : LoadsAsBefore(u)
      <3> TAKE u \in Slots
      <3>1. CASE u = t
        <4>1. tasks'[u].step \notin Listing /\ tasks[u].step \notin Listing
          BY <1>3, <1>7, <3>1 DEF Quietly
        <4> QED BY <4>1 DEF LoadsAsBefore, Listing
      <3>2. CASE u # t
        BY <1>2, <3>2 DEF Became, LoadsAsBefore
      <3> QED BY <3>1, <3>2
    <2> QED BY <1>1, <2>1, LoadQuiet DEF Panel
  <1>9. PreviewInv'
    <2>1. ViewKept
      BY ViewStays DEF Panel
    <2> QED BY <1>1, <1>3, <2>1, PreviewMoves DEF Quietly, Idle
  <1>10. UploadInv'
    BY <1>1, <1>3, <1>5, <1>7, UploadQuiet DEF TypeInv, Uploads
  <1>11. RemoveInv'
    BY <1>1, <1>3, <1>5, <1>7, RemoveQuiet DEF Delete
  <1>12. Asked
    <2>1. task.step \in Changing /\ task.kind \in {"edit", "delete"} => task.home = sessionId
      BY <1>7 DEF Quietly, Proper, StepOf, Changing, Idle
    <2> QED BY <1>1, <1>3, <2>1, AskedMoves
  <1> QED BY <1>6, <1>8, <1>9, <1>10, <1>11, <1>12 DEF StepKeeps, StepInv

\* A function that neither uploads nor deletes lists the directory that is shown.
Listed(t, task) ==
    /\ t # Sweeper
    /\ task \in TaskType /\ StepOf(task.kind, "list") /\ task.kind \notin {"delete", "upload"}
    /\ tasks[t].kind \notin {"delete", "upload"}
    /\ sessionId' \in Sessions /\ cwd' \in Dirs
    /\ Lists(t, task, sessionId', cwd')
    /\ loading' = TRUE /\ loadFailed' = FALSE /\ UNCHANGED <<mounted, listed>>
\* So does a step with which one function begins to list.
LEMMA ListStep ==
    ASSUME StepInv, NEW t \in Slots, NEW task, Listed(t, task), ViewKept,
           UNCHANGED <<Upload, Delete>>, Done(t), LinkType',
           transfer' \in {"none", "run", "cancel"}
    PROVE  StepKeeps
  <1>1. TypeInv /\ TasksType /\ LoadInv /\ PreviewInv /\ UploadInv /\ RemoveInv
    BY DEF StepInv, TypeInv
  <1>2. ListsOnly(t, task, sessionId', cwd')
    BY <1>1, ListsMoves DEF Listed
  <1>3. /\ Moves(t) /\ TasksType' /\ tasks'[t].kind = task.kind /\ tasks'[t].step = "list"
    BY <1>1, <1>2, MovesType DEF ListsOnly, ListsNow
  <1>4. tasks[t] = Idle \/ Proper(tasks[t])
    BY <1>1 DEF TasksType, Waits
  <1>5. FilesKept /\ NodesKept /\ remote' \in [Sessions -> RemoteType]
    <2>1. tasks[t].step \notin {"write", "rename"}
      BY <1>4 DEF Listed, Proper, StepOf, Idle
    <2> QED BY <1>1, <1>4, <2>1, OtherDone DEF Listed, TypeInv, OthersType
  <1>6. TypeInv'
    BY <1>1, <1>3, <1>5 DEF Listed, TypeInv, PanelType, ViewerType, UploadType, DeleteType,
                            OthersType, ViewKept, Upload, Delete
  <1>7. LoadInv'
    BY <1>2, LoadLists
  <1>8. PreviewInv'
    BY <1>1, <1>3, PreviewMoves DEF Listed, StepOf
  <1>9. UploadInv'
    BY <1>1, <1>3, <1>5, UploadQuiet DEF TypeInv, Uploads
  <1>10. RemoveInv'
    BY <1>1, <1>3, <1>5, RemoveQuiet DEF Delete, Listed
  <1>11. Asked
    BY <1>1, <1>3, AskedMoves DEF Changing
  <1> QED BY <1>6, <1>7, <1>8, <1>9, <1>10, <1>11 DEF StepKeeps, StepInv

---------------------------------------------------------------------------
(* The actions: what only reads, and prompts.                               *)

\* What an action finds of the function it lets go on.
LEMMA Found ==
    ASSUME StepInv, NEW t \in Slots, tasks[t].step # "idle"
    PROVE  /\ Proper(tasks[t]) /\ tasks[t] \in TaskType /\ tasks[t].home \in Sessions
           /\ StepOf(tasks[t].kind, tasks[t].step) /\ sessionId \in Sessions
           /\ tasks[t].step \in Listing => tasks[t].path \in Dirs
  BY Waiting, ProperType DEF StepInv, TypeInv, PanelType
\* What comes with an answer.
LEMMA Answered ==
    ASSUME StepInv, NEW t \in Slots, tasks[t].step # "idle", Succeeds(t) \/ Fails(t)
    PROVE  Done(t) /\ remote' \in [Sessions -> RemoteType] /\ LinkType' /\ UNCHANGED Link
  <1>1. Done(t) /\ remote' \in [Sessions -> RemoteType] /\ UNCHANGED Link
    BY AnswerDone DEF StepInv, TypeInv, OthersType
  <1> QED BY <1>1 DEF StepInv, TypeInv, LinkType, Link
\* A step that asks nothing leaves the remote side and the channel as they are.
LEMMA NothingAsked ==
    ASSUME StepInv, UNCHANGED <<Link, remote>>, NEW t \in Slots
    PROVE  Done(t) /\ LinkType'
  BY DEF StepInv, TypeInv, LinkType, Link, Done

\* One lemma for each action: first those that leave what is shown alone.
LEMMA PreviewSizedStep ==
    ASSUME StepInv, NEW t \in Slots, PreviewSized(t)
    PROVE  StepKeeps
  <1>1. tasks[t].step = "stat" /\ tasks[t].kind = "preview" /\ Succeeds(t)
    BY DEF PreviewSized
  <1>2. WentOn(Goes(tasks[t], "read"), tasks[t], "read")
    BY <1>1, Found, GoesProper DEF StepOf, Steps, Requests
  <1>3. Goes(tasks[t], "read").at = sessionId
    BY <1>1, Found DEF Goes, Where, Homely, TaskType
  <1>4. Quietly(tasks[t], Goes(tasks[t], "read"))
    BY <1>1, <1>2, <1>3 DEF Quietly, WentOn, Listing
  <1>5. transfer' \in {"none", "run", "cancel"}
    BY DEF PreviewSized, StepInv, TypeInv, OthersType
  <1> QED BY <1>1, <1>4, <1>5, Answered, NotSweeper, QuietStep DEF PreviewSized, Kinds

LEMMA LinkReadStep ==
    ASSUME StepInv, NEW t \in Slots, LinkRead(t)
    PROVE  StepKeeps
  <1>1. tasks[t].step = "readlink" /\ Succeeds(t)
    BY DEF LinkRead
  <1>2. tasks[t].kind = "follow"
    BY <1>1, Found DEF StepOf
  <1>3. WentOn(Goes(tasks[t], "stat"), tasks[t], "stat")
    BY <1>1, <1>2, Found, GoesProper DEF StepOf, Steps, Requests
  <1>4. Quietly(tasks[t], Goes(tasks[t], "stat"))
    BY <1>1, <1>2, <1>3 DEF Quietly, WentOn, Listing
  <1>5. transfer' \in {"none", "run", "cancel"}
    BY DEF LinkRead, StepInv, TypeInv, OthersType
  <1> QED BY <1>1, <1>2, <1>4, <1>5, Answered, NotSweeper, QuietStep DEF LinkRead, Kinds

\* A function that ends, and changes nothing else, after an answer.
LEMMA EndsStep ==
    ASSUME StepInv, NEW t \in Slots, tasks[t].step \notin {"idle", "write", "rename"} \cup Listing,
           tasks[t].kind # "delete", Succeeds(t) \/ Fails(t), Ends(t),
           UNCHANGED <<Panel, Viewer, Upload, Delete>>, transfer' \in {transfer, "none"}
    PROVE  StepKeeps
  <1>1. Quietly(tasks[t], Idle)
    BY DEF Quietly
  <1>2. transfer' \in {"none", "run", "cancel"}
    BY DEF StepInv, TypeInv, OthersType
  <1> QED BY <1>1, <1>2, Answered, QuietStep DEF Ends
LEMMA FollowEndsStep == ASSUME StepInv, NEW t \in Slots, FollowEnds(t) PROVE StepKeeps
  BY EndsStep DEF FollowEnds, Listing
LEMMA EditFailsStep == ASSUME StepInv, NEW t \in Slots, EditFails(t) PROVE StepKeeps
  BY EndsStep DEF EditFails, Listing
LEMMA DownloadFailsStep == ASSUME StepInv, NEW t \in Slots, DownloadFails(t) PROVE StepKeeps
  BY EndsStep DEF DownloadFails, Listing
LEMMA SweptStep == ASSUME StepInv, Swept PROVE StepKeeps
  <1>1. Sweeper \in Slots
    BY SizeAssumption DEF Sweeper, Slots
  <1>2. tasks[Sweeper].kind # "delete"
    BY <1>1, Found DEF Swept, StepOf
  <1> QED BY <1>1, <1>2, EndsStep DEF Swept, Listing

\* The user begins a function that shows nothing yet.
LEMMA BeginsQuietly ==
    ASSUME StepInv, NEW t \in Slots, NEW kind \in {"edit", "follow", "download"},
           NEW step \in Steps \ Listing, StepOf(kind, step), step # "call", tasks[t] = Idle,
           t # Sweeper,
           Becomes(t, Call(kind, step, sessionId, None)),
           UNCHANGED <<Panel, Viewer, Link, Upload, Delete, transfer, remote>>
    PROVE  StepKeeps
  <1> DEFINE task == Call(kind, step, sessionId, None)
  <1>1. Proper(task)
    BY CallProper DEF Kinds, Listing, StepInv, TypeInv, PanelType
  <1>2. task.kind = kind /\ task.step = step
    BY DEF Call
  <1> HIDE DEF task
  <1>3. Quietly(tasks[t], task)
    BY <1>1, <1>2 DEF Quietly, Idle, Listing
  <1>4. transfer' \in {"none", "run", "cancel"}
    BY DEF StepInv, TypeInv, OthersType
  <1> QED BY <1>3, <1>4, NothingAsked, QuietStep DEF task
LEMMA BeginEditStep == ASSUME StepInv, NEW t \in Slots, BeginEdit(t) PROVE StepKeeps
  BY BeginsQuietly DEF BeginEdit, Free, Steps, Requests, Listing, StepOf
LEMMA FollowSymlinkStep == ASSUME StepInv, NEW t \in Slots, FollowSymlink(t) PROVE StepKeeps
  BY BeginsQuietly DEF FollowSymlink, Free, Steps, Requests, Listing, StepOf
LEMMA BeginDownloadStep == ASSUME StepInv, NEW t \in Slots, BeginDownload(t) PROVE StepKeeps
  BY BeginsQuietly DEF BeginDownload, Free, Steps, Requests, Listing, StepOf

LEMMA PromptAnsweredStep ==
    ASSUME StepInv, NEW t \in Slots, PromptAnswered(t)
    PROVE  StepKeeps
  <1>1. tasks[t].step = "prompt"
    BY DEF PromptAnswered, InFlight
  <1>2. tasks[t].kind = "edit"
    BY <1>1, Found DEF StepOf
  <1>3. Done(t) /\ LinkType' /\ transfer' \in {"none", "run", "cancel"}
    BY NothingAsked DEF PromptAnswered, StepInv, TypeInv, OthersType
  <1>4. CASE Ends(t)
    <2>1. Quietly(tasks[t], Idle)
      BY <1>1, <1>2 DEF Quietly, Listing
    <2> QED BY <1>3, <1>4, <2>1, QuietStep DEF PromptAnswered, Ends
  <1>5. CASE tasks[t].home = sessionId /\ Becomes(t, Goes(tasks[t], "call"))
    <2>1. WentOn(Goes(tasks[t], "call"), tasks[t], "call")
      BY <1>1, <1>2, Found, GoesProper DEF StepOf, Steps, Requests
    <2>2. Quietly(tasks[t], Goes(tasks[t], "call"))
      BY <1>1, <1>2, <1>5, <2>1 DEF Quietly, WentOn, Listing
    <2> QED BY <1>2, <1>3, <1>5, <2>2, NotSweeper, QuietStep DEF PromptAnswered, Kinds
  <1> QED BY <1>4, <1>5 DEF PromptAnswered

LEMMA DownloadSizedStep ==
    ASSUME StepInv, NEW t \in Slots, DownloadSized(t)
    PROVE  StepKeeps
  <1>1. tasks[t].step = "stat" /\ tasks[t].kind = "download" /\ Succeeds(t)
    BY DEF DownloadSized
  <1>2. WentOn(Goes(tasks[t], "pick"), tasks[t], "pick")
    BY <1>1, Found, GoesProper DEF StepOf, Steps, Requests
  <1>3. Quietly(tasks[t], Goes(tasks[t], "pick"))
    BY <1>1, <1>2 DEF Quietly, WentOn, Listing
  <1>4. transfer' \in {"none", "run", "cancel"}
    BY DEF DownloadSized, StepInv, TypeInv, OthersType
  <1> QED BY <1>1, <1>3, <1>4, Answered, NotSweeper, QuietStep DEF DownloadSized, Kinds

\* A download that reads on.
LEMMA ReadsOn ==
    ASSUME StepInv, NEW t \in Slots, tasks[t].kind = "download", tasks[t].step \in {"pick", "read"}
    PROVE  Quietly(tasks[t], Goes(tasks[t], "read"))
  <1>1. WentOn(Goes(tasks[t], "read"), tasks[t], "read")
    BY Found, GoesProper DEF StepOf, Steps, Requests
  <1> QED BY <1>1 DEF Quietly, WentOn, Listing
LEMMA PickedStep ==
    ASSUME StepInv, NEW t \in Slots, Picked(t)
    PROVE  StepKeeps
  <1>1. tasks[t].step = "pick"
    BY DEF Picked, InFlight
  <1>2. tasks[t].kind = "download"
    BY <1>1, Found DEF StepOf
  <1>3. Done(t) /\ LinkType' /\ transfer' \in {"none", "run", "cancel"}
    BY NothingAsked DEF Picked
  <1>4. CASE Ends(t)
    <2>1. Quietly(tasks[t], Idle)
      BY <1>1, <1>2 DEF Quietly, Listing
    <2> QED BY <1>3, <1>4, <2>1, QuietStep DEF Picked, Ends
  <1>5. CASE Becomes(t, Goes(tasks[t], "read"))
    BY <1>1, <1>2, <1>3, <1>5, ReadsOn, NotSweeper, QuietStep DEF Picked, Kinds
  <1> QED BY <1>4, <1>5 DEF Picked

---------------------------------------------------------------------------
(* The actions: what lists.                                                 *)

\* A function that is neither of an upload nor of a deletion refreshes or navigates.
LEMMA NavigatesStep ==
    ASSUME StepInv, NEW t \in Slots, NEW task \in TaskType, StepOf(task.kind, "list"),
           task.kind \notin {"delete", "upload"}, tasks[t].kind \notin {"delete", "upload"},
           NEW dir \in Dirs, GoesTo(t, task, dir), UNCHANGED <<Viewer, Upload, Delete>>,
           t # Sweeper, Done(t), LinkType', transfer' \in {"none", "run", "cancel"}
    PROVE  StepKeeps
  <1>1. Listed(t, task)
    BY DEF Listed, GoesTo, StepInv, TypeInv, PanelType
  <1>2. ViewKept
    BY ViewStays DEF GoesTo
  <1> QED BY <1>1, <1>2, ListStep
\* A refresh lists the directory that is shown.
LEMMA RefreshesTo ==
    ASSUME NEW t, NEW task, Refreshes(t, task)
    PROVE  GoesTo(t, task, cwd)
  BY DEF Refreshes, GoesTo

\* Actions that list a directory.
LEMMA NavigateStep ==
    ASSUME StepInv, NEW t \in Slots, NEW dir \in Dirs, Navigate(t, dir)
    PROVE  StepKeeps
  <1> DEFINE task == Call("list", "list", sessionId, dir)
  <1>1. Proper(task)
    BY CallProper DEF Kinds, Steps, Requests, StepInv, TypeInv, PanelType, StepOf
  <1>2. task \in TaskType /\ task.kind = "list"
    BY <1>1, ProperType DEF Call
  <1> HIDE DEF task
  <1>3. transfer' \in {"none", "run", "cancel"}
    BY DEF Navigate, StepInv, TypeInv, OthersType
  <1>4. tasks[t].kind \notin {"delete", "upload"} /\ t # Sweeper
    BY DEF Navigate, Free, Idle
  <1>5. Done(t) /\ LinkType'
    BY NothingAsked DEF Navigate
  <1>6. GoesTo(t, task, dir) /\ UNCHANGED <<Viewer, Upload, Delete>>
    BY DEF Navigate, task
  <1> QED BY <1>2, <1>3, <1>4, <1>5, <1>6, NavigatesStep DEF StepOf

LEMMA LinkIsDirStep ==
    ASSUME StepInv, NEW t \in Slots, NEW dir \in Dirs, LinkIsDir(t, dir)
    PROVE  StepKeeps
  <1>1. tasks[t].step = "stat" /\ tasks[t].kind = "follow" /\ Succeeds(t) /\ tasks[t] \in TaskType
    BY Found DEF LinkIsDir
  <1>2. Done(t) /\ LinkType'
    BY <1>1, Answered
  <1>3. transfer' \in {"none", "run", "cancel"}
    BY DEF LinkIsDir, StepInv, TypeInv, OthersType
  <1> QED BY <1>1, <1>2, <1>3, NotSweeper, NavigatesStep DEF LinkIsDir, StepOf, Kinds

LEMMA EditedStep ==
    ASSUME StepInv, NEW t \in Slots, Edited(t)
    PROVE  StepKeeps
  <1>1. tasks[t].step = "call" /\ tasks[t].kind = "edit" /\ Succeeds(t) /\ tasks[t] \in TaskType
    BY Found DEF Edited
  <1>2. Done(t) /\ LinkType'
    BY <1>1, Answered
  <1>3. transfer' \in {"none", "run", "cancel"} /\ cwd \in Dirs
    BY DEF Edited, StepInv, TypeInv, OthersType, PanelType
  <1>4. GoesTo(t, tasks[t], cwd)
    BY RefreshesTo DEF Edited
  <1> QED BY <1>1, <1>2, <1>3, <1>4, NotSweeper, NavigatesStep DEF Edited, StepOf, Kinds

LEMMA DownloadReadsStep ==
    ASSUME StepInv, NEW t \in Slots, DownloadReads(t)
    PROVE  StepKeeps
  <1>1. tasks[t].step = "read" /\ tasks[t].kind = "download" /\ Succeeds(t) /\ tasks[t] \in TaskType
    BY Found DEF DownloadReads
  <1>2. Done(t) /\ LinkType'
    BY <1>1, Answered
  <1>3. transfer \in {"none", "run", "cancel"} /\ cwd \in Dirs
    BY DEF StepInv, TypeInv, OthersType, PanelType
  <1>4. CASE transfer' = "none" /\ Ends(t) /\ UNCHANGED Panel
    BY <1>1, <1>4, EndsStep DEF DownloadReads, Listing
  <1>5. CASE Becomes(t, Goes(tasks[t], "read")) /\ UNCHANGED <<Panel, transfer>>
    BY <1>1, <1>2, <1>3, <1>5, ReadsOn, NotSweeper, QuietStep DEF DownloadReads, Kinds
  <1>6. CASE Refreshes(t, tasks[t]) /\ UNCHANGED transfer
    BY <1>1, <1>2, <1>3, <1>6, RefreshesTo, NotSweeper, NavigatesStep
    DEF DownloadReads, StepOf, Kinds
  <1> QED BY <1>4, <1>5, <1>6 DEF DownloadReads

\* A step that leaves the viewer, the upload and the deletion alone, and the files: what
\* remains to show is about the panel.
LEMMA PanelStep ==
    ASSUME StepInv, NEW t \in Slots, Moves(t), ViewKept, UNCHANGED <<Upload, Delete>>,
           FilesKept, NodesKept, remote' \in [Sessions -> RemoteType],
           tasks'[t] # Idle => tasks'[t].kind \notin {"delete", "upload", "preview", "edit"},
           LinkType', PanelType', LoadInv', transfer' \in {"none", "run", "cancel"}
    PROVE  StepKeeps
  <1>1. TypeInv /\ TasksType /\ PreviewInv /\ UploadInv /\ RemoveInv /\ TasksType'
    BY MovesType DEF StepInv, TypeInv
  <1>2. tasks'[t].kind \notin {"delete", "upload", "preview", "edit"}
    BY DEF Idle
  <1>3. TypeInv'
    BY <1>1 DEF TypeInv, ViewerType, UploadType, DeleteType, OthersType, ViewKept, Upload, Delete
  <1>4. PreviewInv'
    BY <1>1, <1>2, PreviewMoves
  <1>5. UploadInv'
    BY <1>1, <1>2, UploadQuiet DEF TypeInv, Uploads
  <1>6. RemoveInv'
    BY <1>1, <1>2, RemoveQuiet DEF Delete
  <1>7. Asked
    BY <1>1, <1>2, AskedMoves
  <1> QED BY <1>3, <1>4, <1>5, <1>6, <1>7 DEF StepKeeps, StepInv
\* Without a change of the remote side no file is halved and no directory filled.
LEMMA RemoteStays ==
    ASSUME StepInv, UNCHANGED remote
    PROVE  FilesKept /\ NodesKept /\ remote' \in [Sessions -> RemoteType]
  BY DEF FilesKept, NodesKept, StepInv, TypeInv, OthersType

\* The steps of a load, and a change of tab.
LEMMA LoadClosesStep ==
    ASSUME StepInv, NEW t \in Slots, LoadCloses(t)
    PROVE  StepKeeps
  <1>1. tasks[t].step = "close"
    BY DEF LoadCloses, InFlight
  <1>2. tasks[t].kind = "load"
    BY <1>1, Found DEF StepOf
  <1>3. WentOn(Goes(tasks[t], "open"), tasks[t], "open")
    BY <1>1, <1>2, Found, GoesProper DEF StepOf, Steps, Listing
  <1>4. Moves(t) /\ tasks'[t].kind = "load" /\ tasks'[t].step = "open"
    BY <1>2, <1>3, BecomesMoves DEF LoadCloses, WentOn, Became, StepInv, TypeInv
  <1>5. LoadInv'
    BY <1>4 DEF LoadInv, Loads
  <1>6. LinkType' /\ PanelType' /\ transfer' \in {"none", "run", "cancel"}
    BY NothingAsked DEF LoadCloses, Panel, PanelType, StepInv, TypeInv, OthersType
  <1>7. ViewKept
    BY ViewStays DEF LoadCloses, Panel
  <1> QED BY <1>4, <1>5, <1>6, <1>7, RemoteStays, PanelStep DEF LoadCloses

LEMMA LoadFailsStep ==
    ASSUME StepInv, NEW t \in Slots, LoadFails(t)
    PROVE  StepKeeps
  <1>1. Moves(t) /\ tasks'[t] = Idle
    BY BecomesMoves DEF LoadFails, Ends, Became, StepInv, TypeInv
  <1>2. ~loading' /\ loadFailed'
    BY DEF LoadFails
  <1>3. LoadInv'
    BY <1>2 DEF LoadInv
  <1>4. LinkType' /\ PanelType' /\ transfer' \in {"none", "run", "cancel"}
    BY NothingAsked DEF LoadFails, PanelType, StepInv, TypeInv, OthersType
  <1>5. ViewKept
    BY ViewStays DEF LoadFails
  <1> QED BY <1>1, <1>3, <1>4, <1>5, RemoteStays, PanelStep DEF LoadFails

LEMMA LoadOpensStep ==
    ASSUME StepInv, NEW t \in Slots, LoadOpens(t)
    PROVE  StepKeeps
  <1>1. tasks[t].step = "open"
    BY DEF LoadOpens, InFlight
  <1>2. tasks[t].kind = "load" /\ tasks[t] \in TaskType /\ tasks[t].path \in Dirs
    BY <1>1, Found DEF StepOf, Listing
  <1>3. sessionId \in Sessions /\ transfer \in {"none", "run", "cancel"} /\ LinkType
    BY DEF StepInv, TypeInv, PanelType, OthersType
  <1>4. Listed(t, tasks[t])
    BY <1>2, <1>3, NotSweeper DEF LoadOpens, Listed, StepOf, Kinds
  <1>5. Done(t) /\ LinkType' /\ transfer' \in {"none", "run", "cancel"}
    BY <1>3 DEF LoadOpens, Done, LinkType
  <1>6. ViewKept
    BY ViewStays DEF LoadOpens
  <1> QED BY <1>4, <1>5, <1>6, ListStep DEF LoadOpens

LEMMA SwitchTabStep ==
    ASSUME StepInv, NEW t \in Slots, NEW s \in Sessions, NEW dir \in Dirs, SwitchTab(t, s, dir)
    PROVE  StepKeeps
  <1>1. TasksType /\ PanelType /\ LinkType /\ transfer \in {"none", "run", "cancel"}
    BY DEF StepInv, TypeInv, OthersType
  <1>2. LinkType' /\ transfer' \in {"none", "run", "cancel"} /\ Done(t)
    BY <1>1 DEF SwitchTab, LinkType, Link, Done
  <1>3. tasks[t] = Idle /\ ViewKept
    BY DEF SwitchTab, Free, ViewKept
  <1>4. CASE opened = s
    <2> DEFINE task == Call("load", "list", s, dir)
    <2>1. Proper(task)
      BY CallProper DEF Kinds, Steps, Requests, StepOf
    <2>2. task \in TaskType /\ task.kind = "load"
      BY <2>1, ProperType DEF Call
    <2>3. Lists(t, task, s, dir) /\ cwd' = dir /\ sessionId' = s
      BY <1>4 DEF SwitchTab
    <2> HIDE DEF task
    <2>4. Listed(t, task)
      BY <1>3, <2>2, <2>3 DEF SwitchTab, Free, Listed, StepOf, Idle
    <2> QED BY <1>2, <1>3, <2>4, ListStep DEF SwitchTab
  <1>5. CASE opened # s
    <2>1. PICK task : /\ Becomes(t, task) /\ UNCHANGED cwd
                      /\ \/ task = Call("load", "open", s, dir)
                         \/ /\ opened # None
                            /\ task = [Call("load", "close", s, dir) EXCEPT !.at = opened]
      BY <1>5 DEF SwitchTab
    <2>2. Proper(task) /\ task.kind = "load" /\ task.step \in {"close", "open"}
      <3>1. CASE task = Call("load", "open", s, dir)
        <4>1. Proper(Call("load", "open", s, dir))
          BY CallProper DEF Kinds, Steps, StepOf
        <4> QED BY <3>1, <4>1 DEF Call
      <3>2. CASE opened # None /\ task = [Call("load", "close", s, dir) EXCEPT !.at = opened]
        <4>1. opened \in Sessions
          BY <1>1, <3>2 DEF LinkType
        <4>2. task = [kind |-> "load", step |-> "close", home |-> s, at |-> opened, path |-> dir,
                      try |-> "first", fresh |-> TRUE]
          BY <3>2 DEF Call
        <4> QED BY <4>1, <4>2 DEF Proper, TaskType, Kinds, Steps, Tries, StepOf, Changing
      <3> QED BY <2>1, <3>1, <3>2
    <2>3. Moves(t) /\ tasks'[t] = task
      BY <1>1, <2>1, <2>2, BecomesMoves DEF Became, SwitchTab, Free
    <2>4. LoadInv'
      BY <2>2, <2>3 DEF LoadInv, Loads
    <2>5. PanelType'
      BY <1>1, <2>1 DEF SwitchTab, PanelType
    <2> QED BY <1>2, <1>3, <2>2, <2>3, <2>4, <2>5, RemoteStays, PanelStep DEF SwitchTab
  <1> QED BY <1>4, <1>5

\* sftp.list is answered.
LEMMA ListAnsweredStep ==
    ASSUME StepInv, NEW t \in Slots, ListAnswered(t)
    PROVE  StepKeeps
  <1>1. /\ tasks[t].step = "list" /\ tasks[t] \in TaskType /\ tasks[t].path \in Dirs
        /\ Succeeds(t) \/ Fails(t)
    BY Found DEF ListAnswered, Listing
  <1>2. Done(t) /\ LinkType' /\ remote' \in [Sessions -> RemoteType]
    BY <1>1, Answered
  <1>3. UNCHANGED remote
    BY <1>1, <1>2 DEF Done, Applied
  <1>4. TypeInv /\ TasksType /\ LoadInv /\ PreviewInv /\ UploadInv /\ RemoveInv
    BY DEF StepInv, TypeInv
  <1>5. Became(t, Idle)
    BY <1>4, BecomesMoves DEF ListAnswered, Ends
  <1>6. Moves(t) /\ tasks'[t] = Idle /\ TasksType'
    BY <1>4, <1>5, MovesType DEF Became
  <1>7. /\ UNCHANGED <<sessionId, mounted, cwd, Viewer, Upload, target, removal>>
        /\ loading'  = (loading /\ ~tasks[t].fresh /\ tasks[t].kind # "load")
        /\ deleting' = (deleting /\ tasks[t].kind # "delete")
        /\ transfer' \in {transfer, "none"}
    BY DEF ListAnswered, Current
  <1>8. \/ tasks[t].fresh /\ listed' = <<tasks[t].at, tasks[t].path>> /\ UNCHANGED loadFailed
        \/ tasks[t].fresh /\ loadFailed' /\ UNCHANGED listed
        \/ ~tasks[t].fresh /\ UNCHANGED <<listed, loadFailed>>
    BY DEF ListAnswered, Current
  <1>9. PanelType'
    <2>1. PanelType /\ tasks[t].at \in Sessions
      BY <1>1, <1>4 DEF TypeInv, TaskType
    <2>2. listed' \in (Sessions \X Dirs) \cup {None}
      BY <1>1, <1>8, <2>1 DEF PanelType
    <2>3. loadFailed' \in BOOLEAN
      BY <1>1, <1>8, <2>1 DEF PanelType, ListAnswered
    <2>4. loading' \in BOOLEAN
      BY <1>7, Zenon
    <2> QED BY <1>7, <2>1, <2>2, <2>3, <2>4 DEF PanelType
  <1>10. TypeInv'
    BY <1>2, <1>4, <1>6, <1>7, <1>9 DEF TypeInv, ViewerType, UploadType, DeleteType, OthersType,
                                        Viewer, Upload
  <1>11. LoadInv'
    <2>1. \A u \in Slots : ListsNow(u)' <=> ListsNow(u) /\ u # t
      BY <1>5, <1>6 DEF Became, ListsNow, Idle
    <2>2. \A u \in Slots : u # t => tasks'[u] = tasks[u]
      BY <1>5 DEF Became
    <2>3. Loads' <=> Loads
      BY <1>1, <1>6, <2>2 DEF Loads, Idle
    <2>4. CASE ~tasks[t].fresh
      <3>1. \A u \in Slots : ListsNow(u)' <=> ListsNow(u)
        BY <2>1, <2>4 DEF ListsNow
      <3>2. loading' => loading
        BY <1>7, Zenon
      <3>3. UNCHANGED <<sessionId, cwd, listed, loadFailed>>
        BY <1>7, <1>8, <2>4
      <3>4. \A u \in Slots : ListsNow(u)' => ListsNow(u) /\ tasks'[u] = tasks[u]
        BY <2>1, <2>2
      <3>5. (\E u \in Slots : ListsNow(u)') <=> \E u \in Slots : ListsNow(u)
        BY <3>1
      <3>6. (loading => Loads \/ \E u \in Slots : ListsNow(u))'
        BY <1>4, <2>3, <3>2, <3>5 DEF LoadInv
      <3>7. (Loads \/ loadFailed \/ listed = <<sessionId, cwd>> \/ \E u \in Slots : ListsNow(u))'
        BY <1>4, <2>3, <3>3, <3>5 DEF LoadInv
      <3>8. ASSUME NEW u \in Slots, ListsNow(u)'
            PROVE  (Loads \/ loadFailed \/ (tasks[u].at = sessionId /\ tasks[u].path = cwd))'
        BY <1>4, <2>3, <3>3, <3>4, <3>8 DEF LoadInv
      <3> QED BY <3>6, <3>7, <3>8 DEF LoadInv
    <2>5. CASE tasks[t].fresh /\ loadFailed'
      BY <1>7, <2>5 DEF LoadInv
    <2>6. CASE tasks[t].fresh /\ listed' = <<tasks[t].at, tasks[t].path>> /\ UNCHANGED loadFailed
      <3>1. Loads \/ loadFailed \/ (tasks[t].at = sessionId /\ tasks[t].path = cwd)
        BY <1>1, <1>4, <2>6 DEF LoadInv, ListsNow
      <3> QED BY <1>4, <1>7, <2>1, <2>2, <2>3, <2>6, <3>1 DEF LoadInv
    <2> QED BY <1>8, <2>4, <2>5, <2>6
  <1>12. PreviewInv'
    BY <1>4, <1>6, <1>7, ViewStays, PreviewMoves DEF Idle
  <1>13. UploadInv'
    <2>1. FilesKept
      BY <1>3 DEF FilesKept
    <2> QED BY <1>4, <1>6, <1>7, <2>1, UploadQuiet DEF TypeInv, Uploads, Idle
  <1>14. RemoveInv'
    <2>1. CASE tasks[t].kind = "delete"
      <3>1. \A u \in Slots \ {t} : tasks[u].kind # "delete"
        BY <1>4, <2>1 DEF RemoveInv
      <3> QED BY <1>4, <1>6, <3>1, RemoveAlone DEF Idle
    <2>2. CASE tasks[t].kind # "delete"
      <3>1. NodesKept /\ UNCHANGED <<deleting, removal>>
        BY <1>3, <1>4, <1>7, <2>2 DEF NodesKept, TypeInv, DeleteType
      <3> QED BY <1>4, <1>6, <3>1, RemoveQuiet DEF Idle
    <2> QED BY <2>1, <2>2
  <1>15. Asked
    BY <1>4, <1>6, AskedMoves DEF Idle, Changing
  <1> QED BY <1>10, <1>11, <1>12, <1>13, <1>14, <1>15 DEF StepKeeps, StepInv

---------------------------------------------------------------------------
(* The actions: previews, and what the user does beside them.                *)

\* The steps of a preview.
LEMMA PreviewStep ==
    ASSUME StepInv, NEW t \in Slots, NEW file \in Files, Preview(t, file)
    PROVE  StepKeeps
  <1> DEFINE task == Call("preview", "stat", sessionId, file)
  <1>1. TypeInv /\ TasksType /\ LoadInv /\ UploadInv /\ RemoveInv
    BY DEF StepInv, TypeInv
  <1>2. /\ Proper(task) /\ task.kind = "preview" /\ task.step = "stat" /\ task.path = file
        /\ task.at = sessionId
    <2>1. Proper(task)
      BY <1>1, CallProper DEF TypeInv, PanelType, Kinds, Steps, Requests, StepOf
    <2> QED BY <2>1 DEF Call
  <1>3. tasks' = [u \in Slots |->
          IF u = t THEN task
          ELSE IF tasks[u] # Idle /\ tasks[u].kind = "preview"
               THEN [tasks[u] EXCEPT !.fresh = FALSE] ELSE tasks[u]]
    BY DEF Preview
  <1> HIDE DEF task
  <1>4. Moves(t) /\ tasks'[t] = task /\ TasksType'
    <2>1. \A u \in Slots \ {t} : Same(u)
      BY <1>3 DEF Same, Waits
    <2>2. Moves(t) /\ tasks'[t] = task
      BY <1>2, <1>3, <2>1 DEF Moves, Preview, Free
    <2> QED BY <1>1, <2>2, MovesType
  <1>5. tasks[t] = Idle
    BY DEF Preview, Free
  <1>6. TypeInv'
    <2>1. PanelType' /\ ViewerType' /\ LinkType' /\ OthersType'
      BY <1>1 DEF Preview, TypeInv, PanelType, ViewerType, LinkType, OthersType, Panel, Link
    <2>2. UploadType' /\ DeleteType'
      BY <1>1 DEF Preview, TypeInv, UploadType, DeleteType, Upload, Delete
    <2> QED BY <1>4, <2>1, <2>2 DEF TypeInv
  <1>7. LoadInv'
    <2>1. ASSUME NEW u \in Slots PROVE LoadsAsBefore(u)
      <3>1. CASE u = t
        BY <1>2, <1>4, <1>5, <3>1 DEF LoadsAsBefore, Idle, Listing
      <3>2. CASE u # t /\ tasks[u] # Idle /\ tasks[u].kind = "preview"
        <4>1. tasks[u] \in TaskType /\ tasks'[u] = [tasks[u] EXCEPT !.fresh = FALSE]
              /\ tasks[u].step \notin Listing
          BY <1>1, <1>3, <3>2, Waiting DEF Proper, StepOf, Listing
        <4> QED BY <4>1 DEF LoadsAsBefore, TaskType, Listing
      <3>3. CASE u # t /\ ~(tasks[u] # Idle /\ tasks[u].kind = "preview")
        BY <1>3, <3>3 DEF LoadsAsBefore
      <3> QED BY <3>1, <3>2, <3>3
    <2> QED BY <1>1, <2>1, LoadQuiet DEF Preview, Panel
  <1>8. PreviewInv'
    <2>1. ASSUME NEW u \in Slots, tasks'[u].kind = "preview", tasks'[u].fresh
          PROVE  u = t
      <3>1. CASE u # t
        <4>1. SameBut(u)
          BY <1>1, <1>4, <3>1, SameFields DEF Moves
        <4>2. tasks[u] # Idle /\ tasks[u].kind = "preview" /\ tasks[u] \in TaskType
          BY <1>1, <2>1, <4>1, Waiting DEF SameBut, Idle, TasksType, Waits, Proper
        <4>3. tasks'[u] = [tasks[u] EXCEPT !.fresh = FALSE]
          BY <1>3, <3>1, <4>2
        <4> QED BY <2>1, <4>2, <4>3 DEF TaskType
      <3> QED BY <3>1
    <2> QED BY <1>2, <1>4, <2>1 DEF PreviewInv, Preview, Panel
  <1>9. FilesKept /\ NodesKept
    BY RemoteStays DEF Preview
  <1>10. UploadInv'
    BY <1>1, <1>2, <1>4, <1>9, UploadQuiet DEF Preview, TypeInv, Uploads
  <1>11. RemoveInv'
    BY <1>1, <1>2, <1>4, <1>9, RemoveQuiet DEF Preview, Delete
  <1>12. Asked
    BY <1>1, <1>2, <1>4, AskedMoves DEF Changing
  <1> QED BY <1>6, <1>7, <1>8, <1>10, <1>11, <1>12 DEF StepKeeps, StepInv

LEMMA PreviewEndsStep ==
    ASSUME StepInv, NEW t \in Slots, PreviewEnds(t)
    PROVE  StepKeeps
  <1>1. /\ tasks[t].step \in {"stat", "read"} /\ tasks[t].kind = "preview"
        /\ Succeeds(t) \/ Fails(t)
    BY DEF PreviewEnds
  <1>2. Done(t) /\ LinkType' /\ Proper(tasks[t])
    BY <1>1, Answered, Found
  <1>3. TypeInv /\ TasksType /\ LoadInv /\ PreviewInv /\ UploadInv /\ RemoveInv
    BY DEF StepInv, TypeInv
  <1>4. Became(t, Idle)
    BY <1>3, BecomesMoves DEF PreviewEnds, Ends
  <1>5. Moves(t) /\ tasks'[t] = Idle /\ TasksType'
    BY <1>3, <1>4, MovesType DEF Became
  <1>6. FilesKept /\ NodesKept /\ remote' \in [Sessions -> RemoteType]
    BY <1>1, <1>2, <1>3, OtherDone DEF TypeInv, OthersType
  <1>7. \/ tasks[t].fresh /\ previewText' = <<tasks[t].at, tasks[t].path>>
        \/ UNCHANGED previewText
    BY DEF PreviewEnds, Current
  <1>8. /\ tasks[t].path \in Files /\ tasks[t].at \in Sessions
        /\ UNCHANGED <<previewPath, strayed, sessionId>>
    BY <1>1, <1>2 DEF Proper, TaskType, PreviewEnds, Panel
  <1>9. TypeInv'
    BY <1>2, <1>3, <1>5, <1>6, <1>7, <1>8
    DEF PreviewEnds, TypeInv, PanelType, ViewerType, UploadType, DeleteType, OthersType,
        Panel, Upload, Delete
  <1>10. LoadInv'
    <2>1. \A u \in Slots : LoadsAsBefore(u)
      BY <1>1, <1>4 DEF Became, LoadsAsBefore, Idle, Listing
    <2> QED BY <1>3, <2>1, LoadQuiet DEF PreviewEnds, Panel
  <1>11. PreviewInv'
    <2>1. \A u \in Slots : tasks'[u].kind = "preview" => tasks'[u] = tasks[u]
      BY <1>4 DEF Became, Idle
    <2>2. tasks[t].fresh => /\ previewPath \in {None, tasks[t].path}
                            /\ strayed \/ tasks[t].at = sessionId
      BY <1>1, <1>3 DEF PreviewInv
    <2> QED BY <1>3, <1>7, <1>8, <2>1, <2>2 DEF PreviewInv
  <1>12. UploadInv'
    BY <1>3, <1>5, <1>6, UploadQuiet DEF PreviewEnds, TypeInv, Uploads, Idle
  <1>13. RemoveInv'
    BY <1>3, <1>5, <1>6, RemoveQuiet DEF PreviewEnds, Delete, Idle
  <1>14. Asked
    BY <1>3, <1>5, AskedMoves DEF Idle, Changing
  <1> QED BY <1>9, <1>10, <1>11, <1>12, <1>13, <1>14 DEF StepKeeps, StepInv

\* A step in which no function goes on keeps what is said of them.
LEMMA NobodyMoves ==
    ASSUME StepInv, UNCHANGED <<sessionId, cwd, listed, loading, loadFailed, tasks>>
    PROVE  TasksType' /\ LoadInv' /\ Asked
  <1>1. LoadInv'
    BY DEF StepInv, LoadInv, Loads, ListsNow
  <1>2. TasksType'
    BY DEF StepInv, TypeInv, TasksType, Waits
  <1> QED BY <1>1, <1>2 DEF Asked
\* Uploads and removals when no function moves.
LEMMA UploadsStay ==
    ASSUME StepInv, UNCHANGED <<tasks, uploading, sent, remote>>, dismiss' \in {dismiss, FALSE},
           \/ progress' = progress
           \/ /\ progress # None /\ progress.phase \in {"preparing", "running"}
              /\ progress' = [progress EXCEPT !.cancel = TRUE]
    PROVE  UploadInv' /\ UploadType'
  <1>1. UploadInv /\ UploadType
    BY DEF StepInv, TypeInv
  <1>2. (dismiss' => dismiss) /\ dismiss' \in BOOLEAN
    <2>1. dismiss \in BOOLEAN
      BY <1>1 DEF UploadType
    <2>2. CASE dismiss' = dismiss
      BY <2>1, <2>2
    <2>3. CASE dismiss' = FALSE
      BY <2>3
    <2> QED BY <2>2, <2>3
  <1>3. \A t \in Slots : (Uploads(t)' <=> Uploads(t)) /\ tasks'[t] = tasks[t]
    BY DEF Uploads
  <1>4. CASE UNCHANGED progress
    <2>1. AtomicUpload'
      BY <1>1, <1>4 DEF UploadInv, AtomicUpload
    <2>2. UploadType'
      BY <1>1, <1>4, <1>2 DEF UploadType
    <2> QED BY <1>1, <1>2, <1>3, <1>4, <2>1, <2>2 DEF UploadInv
  <1>5. CASE progress # None /\ progress.phase \in {"preparing", "running"}
             /\ progress' = [progress EXCEPT !.cancel = TRUE]
    <2>1. progress \in ProgressType /\ ~dismiss
      BY <1>1, <1>5 DEF UploadType, UploadInv
    <2>2. /\ progress' \in ProgressType /\ progress'.phase = progress.phase
          /\ progress'.home = progress.home /\ progress'.phase # "completed"
      BY <1>5, <2>1 DEF ProgressType
    <2>3. AtomicUpload'
      BY <1>1, <2>2 DEF UploadInv, AtomicUpload
    <2>4. UploadType'
      BY <1>1, <1>2, <2>2 DEF UploadType
    <2> QED BY <1>1, <1>2, <1>3, <2>1, <2>2, <2>3, <2>4 DEF UploadInv
  <1> QED BY <1>4, <1>5
LEMMA RemovalStays ==
    ASSUME StepInv, UNCHANGED <<tasks, deleting, removal, remote>>
    PROVE  RemoveInv'
  BY DEF StepInv, RemoveInv

\* What the user does without a request.
LEMMA ClosePreviewStep == ASSUME StepInv, ClosePreview PROVE StepKeeps
  <1>1. TasksType' /\ LoadInv' /\ Asked
    BY NobodyMoves DEF ClosePreview, Panel
  <1>2. UploadInv' /\ UploadType'
    BY UploadsStay DEF ClosePreview, Upload
  <1>3. RemoveInv'
    BY RemovalStays DEF ClosePreview, Delete
  <1>4. PreviewInv'
    BY DEF ClosePreview, StepInv, PreviewInv, Panel
  <1>5. TypeInv'
    BY <1>1, <1>2 DEF ClosePreview, StepInv, TypeInv, PanelType, ViewerType, LinkType, DeleteType,
                      OthersType, Panel, Link, Delete
  <1> QED BY <1>1, <1>2, <1>3, <1>4, <1>5 DEF StepKeeps, StepInv

\* The dialog that asks before an entry is deleted.
LEMMA DialogStep ==
    ASSUME StepInv, target' \in [node: Nodes, home: Sessions] \cup {None},
           UNCHANGED <<Panel, Viewer, Link, tasks, Upload, deleting, removal, transfer, remote>>
    PROVE  StepKeeps
  <1>1. TasksType' /\ LoadInv' /\ Asked
    BY NobodyMoves DEF Panel
  <1>2. UploadInv' /\ UploadType'
    BY UploadsStay DEF Upload
  <1>3. RemoveInv'
    BY RemovalStays
  <1>4. PreviewInv'
    BY DEF StepInv, PreviewInv, Viewer, Panel
  <1>5. TypeInv'
    BY <1>1, <1>2 DEF StepInv, TypeInv, PanelType, ViewerType, LinkType, DeleteType, OthersType,
                      Panel, Viewer, Link
  <1> QED BY <1>1, <1>2, <1>3, <1>4, <1>5 DEF StepKeeps, StepInv
LEMMA RemoveEntryStep == ASSUME StepInv, NEW n \in Nodes, RemoveEntry(n) PROVE StepKeeps
  <1>1. sessionId \in Sessions
    BY DEF StepInv, TypeInv, PanelType
  <1> QED BY <1>1, DialogStep DEF RemoveEntry
LEMMA CloseDialogStep == ASSUME StepInv, CloseDialog PROVE StepKeeps
  BY DialogStep DEF CloseDialog
LEMMA ConfirmTooLateStep == ASSUME StepInv, ConfirmTooLate PROVE StepKeeps
  BY DialogStep DEF ConfirmTooLate

\* What cancels the transfers.
LEMMA CancelsStep ==
    ASSUME StepInv, UNCHANGED <<sessionId, cwd, listed, loading, loadFailed, Viewer, reconnect,
                                tasks, uploading, sent, Delete, remote>>,
           mounted' \in BOOLEAN, opened' \in {opened, None}, dismiss' \in {dismiss, FALSE},
           progress' = IF progress # None /\ progress.phase \in {"preparing", "running"}
                       THEN [progress EXCEPT !.cancel = TRUE] ELSE progress,
           transfer' = IF transfer = "run" THEN "cancel" ELSE transfer
    PROVE  StepKeeps
  <1>1. TasksType' /\ LoadInv' /\ Asked
    BY NobodyMoves
  <1>2. UploadInv' /\ UploadType'
    BY UploadsStay
  <1>3. RemoveInv'
    BY RemovalStays DEF Delete
  <1>4. PreviewInv'
    BY DEF StepInv, PreviewInv, Viewer
  <1>5. TypeInv'
    BY <1>1, <1>2 DEF StepInv, TypeInv, PanelType, ViewerType, LinkType, DeleteType, OthersType,
                      Viewer, Delete
  <1> QED BY <1>1, <1>2, <1>3, <1>4, <1>5 DEF StepKeeps, StepInv
LEMMA CancelTransferStep == ASSUME StepInv, CancelTransfer PROVE StepKeeps
  BY CancelsStep DEF CancelTransfer, StepInv, TypeInv, PanelType, Panel, Link
LEMMA UnmountStep == ASSUME StepInv, Unmount PROVE StepKeeps
  BY CancelsStep DEF Unmount

LEMMA ClearProgressStep == ASSUME StepInv, ClearProgress PROVE StepKeeps
  <1>1. TasksType' /\ LoadInv' /\ Asked
    BY NobodyMoves DEF ClearProgress, Panel
  <1>2. UploadInv /\ progress # None /\ progress' = None /\ dismiss' = FALSE
    BY DEF ClearProgress, StepInv
  <1>3. progress.phase \notin {"preparing", "running"}
    BY <1>2 DEF ClearProgress, UploadInv
  <1>4. \A u \in Slots : ~Uploads(u)'
    BY <1>2, <1>3 DEF ClearProgress, UploadInv, Uploads
  <1>5. AtomicUpload'
    BY <1>2 DEF ClearProgress, UploadInv, AtomicUpload
  <1>6. UploadInv'
    BY <1>1, <1>2, <1>4, <1>5, UploadStops
  <1>7. RemoveInv'
    BY RemovalStays DEF ClearProgress, Delete
  <1>8. PreviewInv'
    BY DEF ClearProgress, StepInv, PreviewInv, Viewer, Panel
  <1>9. TypeInv'
    <2>1. PanelType' /\ ViewerType' /\ LinkType' /\ DeleteType'
      BY DEF ClearProgress, StepInv, TypeInv, PanelType, ViewerType, LinkType, DeleteType,
             Panel, Viewer, Link, Delete
    <2>2. UploadType' /\ OthersType'
      BY DEF ClearProgress, StepInv, TypeInv, UploadType, OthersType
    <2> QED BY <1>1, <2>1, <2>2 DEF TypeInv
  <1> QED BY <1>1, <1>6, <1>7, <1>8, <1>9 DEF StepKeeps, StepInv

---------------------------------------------------------------------------
(* The actions: withReconnect.                                              *)

\* The function in slot u is where it was, but for the try of its request.
TriesAgain(u) ==
    /\ tasks'[u] = Idle \/ Proper(tasks'[u])
    /\ tasks'[u].kind = tasks[u].kind /\ tasks'[u].step = tasks[u].step
    /\ tasks'[u].home = tasks[u].home /\ tasks'[u].fresh = tasks[u].fresh
    /\ tasks'[u].step # "list" => tasks'[u].path = tasks[u].path
    /\ tasks'[u].kind = "preview" => tasks'[u].at \in {tasks[u].at, sessionId}
\* A channel was opened again, or not: every function that waited for it tries again or fails.
LEMMA TriesStep ==
    ASSUME StepInv, tasks' = [u \in Slots |-> tasks'[u]], \A u \in Slots : TriesAgain(u),
           UNCHANGED <<Panel, Viewer, Upload, Delete, transfer>>, LinkType',
           LoadInv', UploadInv', RemoveInv', remote' \in [Sessions -> RemoteType]
    PROVE  StepKeeps
  <1>1. TasksType'
    <2>1. \A u \in Slots : tasks'[u] = Idle \/ Proper(tasks'[u])
      BY DEF TriesAgain
    <2>2. tasks'[Sweeper] # Idle => tasks'[Sweeper].kind = "sweep"
      <3>1. tasks'[Sweeper].kind = tasks[Sweeper].kind
        BY SweeperIsThere DEF TriesAgain
      <3>2. tasks'[Sweeper] # Idle => tasks'[Sweeper].kind \in Kinds
        BY <2>1, SweeperIsThere, ProperType
      <3> QED BY <3>1, <3>2, SweeperIsThere, NotSweeper
    <2> QED BY <2>1, <2>2 DEF TasksType, Waits, Proper
  <1>2. \A u \in Slots : tasks'[u].kind = "preview" => tasks'[u].step # "list"
    BY <1>1 DEF TasksType, Waits, Proper, StepOf, Idle
  <1>3. PreviewInv'
    <2>1. \A u \in Slots : tasks'[u].kind = "preview" =>
            tasks[u].kind = "preview" /\ tasks'[u].path = tasks[u].path
               /\ tasks'[u].fresh = tasks[u].fresh /\ tasks'[u].at \in {tasks[u].at, sessionId}
      BY <1>2 DEF TriesAgain
    <2> QED BY <2>1 DEF StepInv, PreviewInv, Viewer, Panel
  <1>4. TypeInv'
    BY <1>1 DEF StepInv, TypeInv, PanelType, ViewerType, UploadType, DeleteType, OthersType,
                Panel, Viewer, Upload, Delete
  <1>5. Asked
    BY DEF Asked, TriesAgain
  <1> QED BY <1>3, <1>4, <1>5 DEF StepKeeps, StepInv

\* Where the files are as they were, so is everything that is said of uploads and deletions.
LEMMA TriesSafely ==
    ASSUME StepInv, \A u \in Slots : TriesAgain(u), UNCHANGED <<Upload, Delete, remote>>
    PROVE  UploadInv' /\ RemoveInv'
  <1>1. \A u \in Slots : /\ tasks'[u].kind = tasks[u].kind /\ tasks'[u].step = tasks[u].step
                         /\ tasks'[u].home = tasks[u].home
    BY DEF TriesAgain
  <1>2. UploadInv'
    BY <1>1 DEF StepInv, UploadInv, Uploads, AtomicUpload, Upload
  <1>3. RemoveInv'
    BY <1>1 DEF StepInv, RemoveInv, Delete
  <1> QED BY <1>2, <1>3

\* Everybody who waits for the channel goes on.
LEMMA ResumeStep ==
    ASSUME StepInv, NEW try \in Tries, Resume(try), opened' \in Sessions \cup {None}
    PROVE  StepKeeps
  <1>1. TasksType
    BY DEF StepInv, TypeInv
  <1>2. ASSUME NEW u \in Slots
        PROVE  TriesAgain(u) /\ LoadsAsBefore(u)
    <2>1. CASE tasks[u] # Idle /\ tasks[u].try = "waiting"
      <3>1. tasks'[u] = [tasks[u] EXCEPT !.try = try] /\ Proper(tasks[u])
        BY <1>1, <2>1, Waiting DEF Resume
      <3> QED BY <3>1 DEF TriesAgain, LoadsAsBefore, Proper, TaskType
    <2>2. CASE ~(tasks[u] # Idle /\ tasks[u].try = "waiting")
      <3>1. tasks'[u] = tasks[u]
        BY <2>2 DEF Resume
      <3> QED BY <1>1, <3>1 DEF TriesAgain, LoadsAsBefore, TasksType, Waits
    <2> QED BY <2>1, <2>2
  <1>3. LoadInv'
    BY <1>2, LoadQuiet DEF StepInv, Resume, Panel
  <1>4. UploadInv' /\ RemoveInv'
    BY <1>2, TriesSafely DEF Resume
  <1>5. LinkType' /\ remote' \in [Sessions -> RemoteType]
    BY DEF Resume, LinkType, StepInv, TypeInv, OthersType
  <1>6. tasks' = [u \in Slots |-> tasks'[u]]
    BY DEF Resume
  <1> QED BY <1>2, <1>3, <1>4, <1>5, <1>6, TriesStep DEF Resume
LEMMA ReopenedStep == ASSUME StepInv, Reopened PROVE StepKeeps
  BY ResumeStep DEF Reopened, Tries, StepInv, TypeInv, PanelType
LEMMA ReopenFailsStep == ASSUME StepInv, ReopenFails PROVE StepKeeps
  BY ResumeStep DEF ReopenFails, Tries, StepInv, TypeInv, LinkType

LEMMA RetryStep ==
    ASSUME StepInv, NEW t \in Slots, Retry(t)
    PROVE  StepKeeps
  <1> DEFINE step == tasks[t].step
             new  == [tasks[t] EXCEPT !.try = "second", !.at = Where(tasks[t], step),
                                      !.path = IF step = "list" THEN cwd ELSE @]
  <1>1. TypeInv /\ TasksType /\ sessionId \in Sessions /\ cwd \in Dirs
    BY DEF StepInv, TypeInv, PanelType
  <1>2. Proper(tasks[t])
    BY <1>1, Waiting DEF Retry
  <1>3. Where(tasks[t], step) \in Sessions /\ (step \in Changing => Where(tasks[t], step) = tasks[t].home)
    BY <1>1, <1>2 DEF Where, Proper, TaskType, StepOf, Changing, Homely
  <1>4. /\ new.kind = tasks[t].kind /\ new.step = step /\ new.home = tasks[t].home
        /\ new.fresh = tasks[t].fresh /\ new.at = Where(tasks[t], step)
        /\ new.path = IF step = "list" THEN cwd ELSE tasks[t].path
        /\ new \in TaskType
    BY <1>1, <1>2, <1>3 DEF Proper, TaskType, Tries
  <1>5. Becomes(t, new)
    BY DEF Retry
  <1> HIDE DEF new, step
  <1>6. Proper(new)
    BY <1>1, <1>2, <1>3, <1>4 DEF Proper, StepOf, step
  <1>7. tasks'[t] = new /\ \A u \in Slots \ {t} : tasks'[u] = tasks[u]
    BY <1>1, <1>4, <1>5, <1>6, BecomesMoves DEF Became
  <1>8. \A u \in Slots : TriesAgain(u)
    <2>1. new.kind = "preview" => new.at = sessionId
      BY <1>4 DEF Where, Homely
    <2> QED BY <1>1, <1>4, <1>6, <1>7, <2>1 DEF TriesAgain, TasksType, Waits, step
  <1>9. LoadInv'
    <2>1. CASE step = "list"
      <3>1. new.at = sessionId /\ new.path = cwd
        BY <1>4, <2>1 DEF Where
      <3>2. \A u \in Slots : /\ ListsNow(u)' <=> ListsNow(u)
                             /\ tasks'[u].step = tasks[u].step
                             /\ u # t => tasks'[u] = tasks[u]
        BY <1>4, <1>7 DEF ListsNow, step
      <3>3. UNCHANGED <<sessionId, cwd, listed, loading, loadFailed>> /\ LoadInv
        BY DEF Retry, Panel, StepInv
      <3>4. Loads' <=> Loads
        BY <3>2 DEF Loads
      <3> QED BY <1>7, <3>1, <3>2, <3>3, <3>4 DEF LoadInv
    <2>2. CASE step # "list"
      <3>1. \A u \in Slots : LoadsAsBefore(u)
        BY <1>4, <1>7, <2>2 DEF LoadsAsBefore, step
      <3> QED BY <3>1, LoadQuiet DEF Retry, Panel, StepInv
    <2> QED BY <2>1, <2>2
  <1>10. UploadInv' /\ RemoveInv'
    BY <1>8, TriesSafely DEF Retry
  <1>11. LinkType' /\ remote' \in [Sessions -> RemoteType]
    BY <1>1 DEF Retry, LinkType, Link, TypeInv, OthersType
  <1>12. tasks' = [u \in Slots |-> tasks'[u]]
    BY <1>1, <1>5 DEF Becomes, TasksType
  <1> QED BY <1>8, <1>9, <1>10, <1>11, <1>12, TriesStep DEF Retry

---------------------------------------------------------------------------
(* What uploads and deletions do to the files.                              *)

\* Half a file never gets its name.
Whole(t) == /\ NodesKept /\ remote' \in [Sessions -> RemoteType]
            /\ \A s \in Sessions : remote'[s].final \in {remote[s].final, "new"}
            /\ tasks[t].step # "write" => \A s \in Sessions : remote'[s].temp \in {remote[s].temp, "none"}
\* What an answer to an upload or a removal may have done to the remote side.
LEMMA UploadDone ==
    ASSUME StepInv, NEW t \in Slots, Proper(tasks[t]), tasks[t].kind = "upload", Done(t)
    PROVE  Whole(t)
  <1> DEFINE at == tasks[t].at
  <1>1. remote \in [Sessions -> RemoteType] /\ at \in Sessions
    BY ProperType DEF StepInv, TypeInv, OthersType
  <1>2. remote[at] \in RemoteType
    BY <1>1
  <1>3. tasks[t].step = "rename" => remote[at].temp # "part"
    BY DEF StepInv, UploadInv, Proper, Changing
  <1>4. CASE remote' = remote
    BY <1>1, <1>4 DEF Whole, NodesKept
  <1>5. CASE Possible(tasks[t]) /\ remote' = Applied(tasks[t])
    <2>1. CASE tasks[t].step = "write"
      <3>1. \E x \in {"full", "part"} : remote' = [remote EXCEPT ![at].temp = x]
        BY <1>5, <2>1 DEF Applied
      <3> QED BY <1>1, <1>2, <2>1, <3>1 DEF Whole, NodesKept, RemoteType
    <2>2. CASE tasks[t].step = "rename"
      <3>1. remote[at].temp = "full"
        BY <1>2, <1>3, <1>5, <2>2 DEF Possible, RemoteType
      <3>2. remote' = [remote EXCEPT ![at].temp = "none", ![at].final = "new"]
        BY <1>5, <2>2, <3>1 DEF Applied
      <3> QED BY <1>1, <1>2, <2>2, <3>2 DEF Whole, NodesKept, RemoteType
    <2>3. CASE tasks[t].step = "cleanup"
      <3>1. remote' = [remote EXCEPT ![at].temp = "none"]
        BY <1>5, <2>3 DEF Applied
      <3> QED BY <1>1, <1>2, <2>3, <3>1 DEF Whole, NodesKept, RemoteType
    <2>4. CASE tasks[t].step \notin {"write", "rename", "cleanup"}
      <3>1. remote' = remote
        BY <1>5, <2>4 DEF Applied
      <3> QED BY <1>4, <3>1
    <2> QED BY <2>1, <2>2, <2>3, <2>4
  <1> QED BY <1>4, <1>5 DEF Done
\* A rename that succeeds has replaced the file.
LEMMA RenameDone ==
    ASSUME StepInv, NEW t \in Slots, tasks[t].step = "rename", Succeeds(t)
    PROVE  remote'[tasks[t].home].final = "new" /\ remote'[tasks[t].home].temp = "none"
  <1> DEFINE at == tasks[t].at
  <1>1. Proper(tasks[t])
    BY Found
  <1>2. remote \in [Sessions -> RemoteType] /\ at \in Sessions /\ at = tasks[t].home
    BY <1>1, ProperType DEF StepInv, TypeInv, OthersType, Proper, Changing
  <1>3. remote[at] \in RemoteType
    BY <1>2
  <1>4. remote[at].temp = "full"
    BY <1>2, <1>3 DEF Succeeds, Possible, StepInv, UploadInv, RemoteType
  <1>5. remote' = [remote EXCEPT ![at].temp = "none", ![at].final = "new"]
    BY <1>4 DEF Succeeds, Applied
  <1> QED BY <1>2, <1>3, <1>5 DEF RemoteType

\* A deletion takes its top entry, where it was begun.
Taken(t) ==
    /\ FilesKept /\ remote' \in [Sessions -> RemoteType]
    /\ IF tasks[t].step = "call"
       THEN /\ \A s \in Sessions \ {tasks[t].home} : remote'[s].nodes = remote[s].nodes
            /\ remote'[tasks[t].home].nodes \in
                  {remote[tasks[t].home].nodes, LeftOf(remote[tasks[t].home].nodes)}
       ELSE UNCHANGED remote
LEMMA DeleteDone ==
    ASSUME StepInv, NEW t \in Slots, Proper(tasks[t]), tasks[t].kind = "delete", Done(t)
    PROVE  Taken(t)
  <1> DEFINE at == tasks[t].at
  <1>1. remote \in [Sessions -> RemoteType] /\ at \in Sessions /\ tasks[t].home \in Sessions
    BY ProperType DEF StepInv, TypeInv, OthersType
  <1>2. remote[at] \in RemoteType
    BY <1>1
  <1>3. tasks[t].step = "call" => at = tasks[t].home
    BY DEF Proper, Changing
  <1>4. tasks[t].step \in {"call", "list"}
    BY DEF Proper, StepOf
  <1>5. CASE remote' = remote
    BY <1>1, <1>5 DEF Taken, FilesKept
  <1>6. CASE remote' = Applied(tasks[t]) /\ tasks[t].step = "call" /\ Removes
    <2>1. remote' = [remote EXCEPT ![at].nodes = @ \ {Top.node}]
      BY <1>6 DEF Applied
    <2> QED BY <1>1, <1>2, <1>3, <1>6, <2>1 DEF Taken, FilesKept, LeftOf, RemoteType
  <1>7. CASE remote' = Applied(tasks[t]) /\ ~(tasks[t].step = "call" /\ Removes)
    <2>1. remote' = remote
      BY <1>4, <1>7 DEF Applied
    <2> QED BY <1>5, <2>1
  <1> QED BY <1>5, <1>6, <1>7 DEF Done
\* A deletion that succeeds takes away what is on top, and nothing else.
LEMMA DeleteSucceeds ==
    ASSUME StepInv, NEW t \in Slots, tasks[t].kind = "delete", tasks[t].step = "call", Succeeds(t)
    PROVE  remote'[tasks[t].home].nodes = LeftOf(remote[tasks[t].home].nodes)
  <1> DEFINE at == tasks[t].at
  <1>1. Proper(tasks[t])
    BY Found
  <1>2. remote \in [Sessions -> RemoteType] /\ at \in Sessions /\ at = tasks[t].home
    BY <1>1, ProperType DEF StepInv, TypeInv, OthersType, Proper, Changing
  <1>3. remote[at] \in RemoteType
    BY <1>2
  <1>4. remote' = IF Removes THEN [remote EXCEPT ![at].nodes = @ \ {Top.node}] ELSE remote
    BY DEF Succeeds, Applied
  <1> QED BY <1>2, <1>3, <1>4 DEF LeftOf, RemoteType

\* A request that meets a dead channel waits for it.
LEMMA ReconnectsStep ==
    ASSUME StepInv, NEW t \in Slots, Reconnects(t)
    PROVE  StepKeeps
  <1> DEFINE new == [tasks[t] EXCEPT !.try = "waiting"]
  <1>1. TypeInv /\ TasksType /\ LoadInv /\ UploadInv /\ RemoveInv
    BY DEF StepInv, TypeInv
  <1>2. tasks[t].step \in Requests /\ Proper(tasks[t])
    BY Found DEF Reconnects, Requests
  <1>3. /\ new.kind = tasks[t].kind /\ new.step = tasks[t].step /\ new.home = tasks[t].home
        /\ new.fresh = tasks[t].fresh /\ new.at = tasks[t].at /\ new.path = tasks[t].path
        /\ Proper(new)
    BY <1>2 DEF Proper, TaskType, Tries
  <1>4. Becomes(t, new)
    BY DEF Reconnects
  <1> HIDE DEF new
  <1>5. Became(t, new)
    BY <1>1, <1>3, <1>4, BecomesMoves
  <1>6. Moves(t) /\ tasks'[t] = new /\ tasks' = [u \in Slots |-> tasks'[u]]
    BY <1>5 DEF Became, Moves
  <1>7. \A u \in Slots : TriesAgain(u) /\ LoadsAsBefore(u)
    BY <1>1, <1>3, <1>5 DEF Became, TriesAgain, LoadsAsBefore, TasksType, Waits
  <1>8. Done(t) /\ LinkType'
    BY <1>1 DEF Reconnects, Breaks, Done, TypeInv, LinkType, PanelType
  <1>9. LoadInv'
    BY <1>1, <1>7, LoadQuiet DEF Reconnects, Panel
  <1>10. UNCHANGED <<Upload, Delete, deleting, removal>>
    BY DEF Reconnects, Delete
  <1>11. UploadInv' /\ RemoveInv' /\ remote' \in [Sessions -> RemoteType]
    <2>1. CASE tasks[t].kind \notin {"delete", "upload"}
      <3>1. tasks[t].step \notin {"write", "rename"}
        BY <1>2, <2>1 DEF Proper, StepOf
      <3>2. FilesKept /\ NodesKept /\ remote' \in [Sessions -> RemoteType]
        BY <1>1, <1>2, <1>8, <2>1, <3>1, OtherDone DEF TypeInv, OthersType
      <3>3. UploadInv'
        BY <1>1, <1>3, <1>6, <1>10, <2>1, <3>2, UploadQuiet DEF TypeInv, Uploads
      <3>4. RemoveInv'
        BY <1>1, <1>3, <1>6, <1>10, <2>1, <3>2, RemoveQuiet
      <3> QED BY <3>2, <3>3, <3>4
    <2>2. CASE tasks[t].kind = "upload"
      <3>1. Whole(t)
        BY <1>2, <1>8, <2>2, UploadDone
      <3>2. RemoveInv'
        BY <1>1, <1>3, <1>6, <1>10, <2>2, <3>1, RemoveQuiet DEF Whole
      <3>3. CASE tasks[t].step = "list"
        <4>1. remote' = remote
          BY <1>8, <3>3 DEF Done, Applied
        <4> QED BY <1>7, <1>10, <3>1, <4>1, TriesSafely DEF Whole
      <3>4. CASE tasks[t].step # "list"
        <4>1. Uploads(t)
          BY <2>2, <3>4 DEF Uploads
        <4>2. \A s \in Sessions : remote'[s].final # "part"
          BY <1>1, <3>1 DEF Whole, UploadInv, AtomicUpload
        <4>3. tasks'[t].step = "rename" => remote'[tasks[t].home].temp # "part"
          <5>1. tasks[t].home \in Sessions
            BY <1>2, ProperType
          <5> QED BY <1>1, <1>3, <1>6, <3>1, <5>1 DEF Whole, UploadInv
        <4>4. /\ uploading' /\ progress' \in ProgressType
              /\ progress'.phase \in {"preparing", "running"} /\ progress'.home = progress.home
              /\ UNCHANGED dismiss
              /\ tasks'[t].step \notin {"rename", "cleanup"} => sent'.chunk < Chunks
          BY <1>1, <1>3, <1>6, <1>10, <4>1 DEF UploadInv, Upload
        <4>5. UploadInv'
          BY <1>1, <1>3, <1>6, <4>1, <4>2, <4>3, <4>4, UploadGoesOn
        <4> QED BY <3>1, <3>2, <4>5 DEF Whole
      <3> QED BY <3>3, <3>4
    <2>3. CASE tasks[t].kind = "delete"
      <3>1. Taken(t)
        BY <1>2, <1>8, <2>3, DeleteDone
      <3>2. UploadInv'
        BY <1>1, <1>3, <1>6, <1>10, <2>3, <3>1, UploadQuiet DEF TypeInv, Uploads, Taken
      <3>3. CASE tasks[t].step = "list"
        <4>1. remote' = remote
          BY <3>1, <3>3 DEF Taken
        <4> QED BY <1>7, <1>10, <3>1, <4>1, TriesSafely DEF Taken
      <3>4. CASE tasks[t].step = "call"
        <4>1. RemovalOK(removal, remote[tasks[t].home].nodes) /\ deleting
          BY <1>1, <2>3, <3>4 DEF RemoveInv
        <4>2. RemovalOK(removal, remote'[tasks[t].home].nodes)
          BY <1>1, <3>1, <3>4, <4>1, LostKeeps DEF Taken, TypeInv, DeleteType
        <4>3. \A u \in Slots \ {t} : tasks[u].kind # "delete"
          BY <1>1, <2>3 DEF RemoveInv
        <4>4. RemoveInv'
          BY <1>1, <1>3, <1>6, <1>10, <4>1, <4>2, <4>3, RemoveAlone
        <4> QED BY <3>1, <3>2, <4>4 DEF Taken
      <3>5. tasks[t].step \in {"call", "list"}
        BY <1>2, <2>3 DEF Proper, StepOf
      <3> QED BY <3>3, <3>4, <3>5
    <2> QED BY <2>1, <2>2, <2>3
  <1> QED BY <1>6, <1>7, <1>8, <1>9, <1>11, TriesStep DEF Reconnects

---------------------------------------------------------------------------
(* The actions: deletions.                                                  *)

LEMMA ConfirmRemoveStep ==
    ASSUME StepInv, NEW t \in Slots, ConfirmRemove(t)
    PROVE  StepKeeps
  <1> DEFINE task  == Call("delete", "call", target.home, None)
             entry == [node |-> target.node, ready |-> FALSE]
             rest  == [pending |-> <<entry>>, children |-> <<>>, changed |-> FALSE]
  <1>1. TypeInv /\ TasksType /\ LoadInv /\ PreviewInv /\ UploadInv /\ RemoveInv
    BY DEF StepInv, TypeInv
  <1>2. target.node \in Nodes /\ target.home \in Sessions /\ target.home = sessionId
    BY <1>1 DEF ConfirmRemove, TypeInv, DeleteType
  <1>3. Proper(task) /\ task.kind = "delete" /\ task.step = "call" /\ task.home = sessionId
    <2>1. Proper(task)
      BY <1>2, CallProper DEF Kinds, Steps, Requests, StepOf
    <2> QED BY <1>2, <2>1 DEF Call
  <1>4. Becomes(t, task)
    BY DEF ConfirmRemove
  <1> HIDE DEF task
  <1>5. Became(t, task)
    BY <1>1, <1>3, <1>4, BecomesMoves DEF ConfirmRemove, Free
  <1>6. Moves(t) /\ tasks'[t] = task /\ TasksType' /\ tasks[t] = Idle
    BY <1>1, <1>5, MovesType DEF Became, ConfirmRemove, Free
  <1>7. entry \in EntryType /\ ~entry.ready
    BY <1>2 DEF EntryType
  <1>8. removal' = rest /\ deleting'
    BY DEF ConfirmRemove
  <1> HIDE DEF entry
  <1>9. rest \in RemovalType /\ rest.children = <<>> /\ rest.pending = <<entry>>
    BY <1>7 DEF RemovalType
  <1> HIDE DEF rest
  <1>10. StackOf(rest.pending, remote[sessionId].nodes)
    BY <1>7, <1>9 DEF StackOf
  <1>11. RemovalOK(removal', remote'[task.home].nodes)
    <2>1. InOrder(rest, remote[sessionId].nodes)
      BY <1>9, <1>10, Unread
    <2>2. rest.pending # <<>>
      BY <1>9
    <2>3. remote' = remote
      BY DEF ConfirmRemove
    <2> QED BY <1>3, <1>8, <2>1, <2>2, <2>3 DEF InOrder
  <1>12. TypeInv'
    <2>1. PanelType' /\ ViewerType' /\ LinkType' /\ OthersType'
      BY <1>1 DEF ConfirmRemove, TypeInv, PanelType, ViewerType, LinkType, OthersType,
                  Panel, Viewer, Link
    <2>2. UploadType'
      BY <1>1 DEF ConfirmRemove, TypeInv, UploadType, Upload
    <2>3. UNCHANGED target /\ target \in [node: Nodes, home: Sessions] \cup {None}
      BY <1>1 DEF ConfirmRemove, TypeInv, DeleteType
    <2>4. DeleteType'
      BY <1>8, <1>9, <2>3 DEF DeleteType, ConfirmRemove
    <2> QED BY <1>6, <2>1, <2>2, <2>4 DEF TypeInv
  <1>13. LoadInv'
    <2>1. \A u \in Slots : LoadsAsBefore(u)
      BY <1>3, <1>5, <1>6 DEF Became, LoadsAsBefore, Listing, Idle
    <2> QED BY <1>1, <2>1, LoadQuiet DEF ConfirmRemove, Panel
  <1>14. PreviewInv'
    BY <1>1, <1>3, <1>6, ViewStays, PreviewMoves DEF ConfirmRemove, Panel
  <1>15. UploadInv'
    BY <1>1, <1>3, <1>6, RemoteStays, UploadQuiet DEF ConfirmRemove, TypeInv, Uploads
  <1>16. RemoveInv'
    <2>1. \A u \in Slots : tasks[u].kind # "delete"
      BY <1>1 DEF ConfirmRemove, RemoveInv
    <2> QED BY <1>1, <1>6, <1>8, <1>11, <2>1, RemoveAlone
  <1>17. Asked
    BY <1>1, <1>3, <1>6, AskedMoves
  <1> QED BY <1>12, <1>13, <1>14, <1>15, <1>16, <1>17 DEF StepKeeps, StepInv

\* A deletion goes on or ends.
LEMMA RemovesStep ==
    ASSUME StepInv, NEW t \in Slots, tasks[t].kind = "delete", tasks[t].step = "call",
           Succeeds(t) \/ Fails(t), Moves(t), UNCHANGED <<sessionId, Viewer, Upload, transfer>>,
           PanelType', LoadInv', DeleteType',
           tasks'[t] # Idle => tasks'[t].kind \in {"delete", "list"},
           tasks'[t].kind = "delete" =>
              /\ deleting'
              /\ tasks'[t].step = "call" => RemovalOK(removal', remote'[tasks'[t].home].nodes)
    PROVE  StepKeeps
  <1>1. TypeInv /\ TasksType /\ PreviewInv /\ UploadInv /\ RemoveInv /\ TasksType'
    BY MovesType DEF StepInv, TypeInv
  <1>2. Done(t) /\ LinkType' /\ Proper(tasks[t])
    BY Answered, Found
  <1>3. FilesKept /\ remote' \in [Sessions -> RemoteType]
    BY <1>2, DeleteDone DEF Taken
  <1>4. tasks'[t].kind \notin {"upload", "preview"}
    BY DEF Idle
  <1>5. TypeInv'
    BY <1>1, <1>2, <1>3 DEF TypeInv, ViewerType, UploadType, OthersType, Viewer, Upload
  <1>6. PreviewInv'
    BY <1>1, <1>4, ViewStays, PreviewMoves
  <1>7. UploadInv'
    BY <1>1, <1>3, <1>4, UploadQuiet DEF TypeInv, Uploads
  <1>8. RemoveInv'
    <2>1. \A u \in Slots \ {t} : tasks[u].kind # "delete"
      BY <1>1 DEF RemoveInv
    <2> QED BY <1>1, <2>1, RemoveAlone
  <1>9. Asked
    BY <1>1, AskedMoves DEF Changing
  <1> QED BY <1>5, <1>6, <1>7, <1>8, <1>9 DEF StepKeeps, StepInv

\* The list is read again, or not, when something ends.
Reads(t, task) ==
    /\ Moves(t) /\ UNCHANGED sessionId /\ PanelType' /\ LoadInv'
    /\ tasks'[t] # Idle => /\ tasks'[t].kind = task.kind /\ tasks'[t].step = "list"
\* A function that ends lists what it has changed, if it is still shown.
LEMMA ReadAgain ==
    ASSUME StepInv, NEW t \in Slots, NEW task \in TaskType, StepOf(task.kind, "list"),
           tasks[t].step \notin Listing, t # Sweeper,
           Refreshes(t, task) \/ (Ends(t) /\ UNCHANGED Panel)
    PROVE  Reads(t, task)
  <1>1. TasksType /\ PanelType /\ LoadInv
    BY DEF StepInv, TypeInv
  <1>2. CASE Refreshes(t, task)
    <2>1. Lists(t, task, sessionId, cwd) /\ sessionId' = sessionId /\ cwd' = cwd
      BY <1>2 DEF Refreshes
    <2>2. ListsOnly(t, task, sessionId', cwd')
      BY <1>1, <2>1, ListsMoves DEF PanelType
    <2>3. PanelType'
      BY <1>1, <1>2 DEF Refreshes, PanelType
    <2> QED BY <2>1, <2>2, <2>3, LoadLists DEF Reads, ListsOnly, ListsNow
  <1>3. CASE Ends(t) /\ UNCHANGED Panel
    <2>1. Became(t, Idle)
      BY <1>1, <1>3, BecomesMoves DEF Ends
    <2>2. \A u \in Slots : LoadsAsBefore(u)
      BY <2>1 DEF Became, LoadsAsBefore, Listing, Idle
    <2>3. LoadInv'
      BY <1>1, <1>3, <2>2, LoadQuiet DEF Panel
    <2> QED BY <1>1, <1>3, <2>1, <2>3 DEF Reads, Became, PanelType, Panel
  <1> QED BY <1>2, <1>3

\* No removal has the type of one.
LEMMA NothingToRemove == NoRemoval \in RemovalType
  BY DEF NoRemoval, RemovalType

\* The steps of a removal.
LEMMA RemoveGoesOnStep ==
    ASSUME StepInv, NEW t \in Slots, RemoveGoesOn(t)
    PROVE  StepKeeps
  <1>1. /\ tasks[t].kind = "delete" /\ tasks[t].step = "call" /\ Succeeds(t)
        /\ UNCHANGED <<Viewer, Upload, transfer>>
    BY DEF RemoveGoesOn
  <1>2. Proper(tasks[t]) /\ tasks[t] \in TaskType /\ tasks[t].home \in Sessions
        /\ tasks[t].at = tasks[t].home
    BY <1>1, Found DEF Proper, Changing
  <1>3. TypeInv /\ TasksType /\ LoadInv /\ RemoveInv
    BY DEF StepInv, TypeInv
  <1>4. deleting /\ DeleteType /\ RemovalOK(removal, remote[tasks[t].home].nodes)
        /\ removal \in RemovalType /\ remote \in [Sessions -> RemoteType]
    BY <1>1, <1>3 DEF RemoveInv, TypeInv, DeleteType, OthersType
  <1> DEFINE rest == AfterAnswer(tasks[t].at)
  <1>5. InOrder(rest, remote'[tasks[t].home].nodes)
    <2>1. InOrder(rest, LeftOf(remote[tasks[t].home].nodes))
      BY <1>2, <1>4, AnswerKeeps
    <2> QED BY <1>1, <2>1, DeleteSucceeds
  <1>6. CASE rest.pending # <<>>
    <2>1. /\ removal' = rest /\ Becomes(t, Goes(tasks[t], "call"))
          /\ UNCHANGED <<Panel, target, deleting>>
      BY <1>6 DEF RemoveGoesOn
    <2>2. WentOn(Goes(tasks[t], "call"), tasks[t], "call")
      BY <1>1, <1>2, <1>3, GoesProper DEF StepOf, Steps, Requests, TypeInv, PanelType
    <2>3. Became(t, Goes(tasks[t], "call"))
      BY <1>3, <2>1, <2>2, BecomesMoves DEF WentOn
    <2>4. Moves(t) /\ tasks'[t].kind = "delete" /\ tasks'[t].step = "call"
          /\ tasks'[t].home = tasks[t].home
      BY <1>1, <2>2, <2>3 DEF Became, WentOn
    <2>5. LoadInv'
      <3>1. \A u \in Slots : LoadsAsBefore(u)
        BY <1>1, <2>3, <2>4 DEF Became, LoadsAsBefore, Listing
      <3> QED BY <1>3, <2>1, <3>1, LoadQuiet DEF Panel
    <2>6. PanelType' /\ DeleteType' /\ deleting'
      BY <1>3, <1>4, <1>5, <2>1 DEF TypeInv, PanelType, Panel, DeleteType, InOrder
    <2>7. RemovalOK(removal', remote'[tasks'[t].home].nodes)
      BY <1>5, <1>6, <2>1, <2>4 DEF InOrder
    <2> QED BY <1>1, <2>1, <2>4, <2>5, <2>6, <2>7, RemovesStep DEF Panel
  <1>7. CASE rest.pending = <<>>
    <2>1. /\ target' = None /\ removal' = NoRemoval
          /\ \/ Refreshes(t, tasks[t]) /\ UNCHANGED deleting
             \/ Ends(t) /\ deleting' = FALSE /\ UNCHANGED Panel
      BY <1>7 DEF RemoveGoesOn
    <2>2. Reads(t, tasks[t])
      BY <1>1, <1>2, <2>1, NotSweeper, ReadAgain DEF StepOf, Listing, Kinds
    <2>3. tasks'[t].kind = "delete" => deleting' /\ tasks'[t].step # "call"
      <3>1. CASE Refreshes(t, tasks[t]) /\ UNCHANGED deleting
        BY <1>4, <2>2, <3>1 DEF Reads, Idle
      <3>2. CASE Ends(t)
        BY <1>3, <3>2 DEF Ends, Becomes, TasksType, Idle
      <3> QED BY <2>1, <3>1, <3>2
    <2>4. DeleteType'
      BY <1>4, <2>1, NothingToRemove DEF DeleteType
    <2> QED BY <1>1, <2>2, <2>3, <2>4, RemovesStep DEF Reads
  <1> QED BY <1>6, <1>7

LEMMA RemoveFailsStep ==
    ASSUME StepInv, NEW t \in Slots, RemoveFails(t)
    PROVE  StepKeeps
  <1> DEFINE task == [tasks[t] EXCEPT !.kind = "list"]
  <1>1. /\ tasks[t].kind = "delete" /\ tasks[t].step = "call" /\ Fails(t)
        /\ UNCHANGED <<Viewer, Upload, transfer>>
        /\ target' = None /\ deleting' = FALSE /\ removal' = NoRemoval
        /\ Refreshes(t, task) \/ (Ends(t) /\ UNCHANGED Panel)
    BY DEF RemoveFails
  <1>2. tasks[t] \in TaskType
    BY <1>1, Found
  <1>3. task \in TaskType /\ task.kind = "list"
    BY <1>2 DEF TaskType, Kinds
  <1> HIDE DEF task
  <1>4. Reads(t, task)
    BY <1>1, <1>3, NotSweeper, ReadAgain DEF StepOf, Listing, Kinds
  <1>5. tasks'[t].kind # "delete"
    BY <1>3, <1>4 DEF Reads, Idle
  <1>6. DeleteType'
    BY <1>1, NothingToRemove DEF DeleteType
  <1> QED BY <1>1, <1>3, <1>4, <1>5, <1>6, RemovesStep DEF Reads

---------------------------------------------------------------------------
(* The actions: uploads.                                                    *)

\* What an upload under way has.
LEMMA UploadFound ==
    ASSUME StepInv, NEW t \in Slots, Uploads(t)
    PROVE  /\ Proper(tasks[t]) /\ tasks[t] \in TaskType /\ tasks[t].home \in Sessions
           /\ tasks[t].kind = "upload" /\ StepOf("upload", tasks[t].step)
           /\ tasks[t].step \notin Listing \cup {"idle"}
           /\ uploading /\ progress \in ProgressType /\ progress.phase \in {"preparing", "running"}
           /\ progress.home = tasks[t].home /\ ~dismiss
           /\ tasks[t].step \notin {"rename", "cleanup"} => sent.chunk < Chunks
           /\ sent \in SentType /\ TasksType /\ sessionId \in Sessions
           /\ \A s \in Sessions : remote[s].final # "part"
  <1>1. TasksType /\ UploadType /\ UploadInv /\ PanelType
    BY DEF StepInv, TypeInv
  <1>2. tasks[t].kind = "upload" /\ tasks[t] # Idle
    BY DEF Uploads, Idle
  <1>3. Proper(tasks[t])
    BY <1>1, <1>2, Waiting
  <1>4. tasks[t].step \notin Listing \cup {"idle"}
    BY <1>2, <1>3 DEF Uploads, Proper, StepOf, Listing
  <1> QED BY <1>1, <1>2, <1>3, <1>4, ProperType DEF UploadInv, AtomicUpload, UploadType, PanelType

\* An upload goes on or ends.
UploadsOn(t) ==
    /\ Moves(t) /\ UNCHANGED sessionId /\ PanelType' /\ LoadInv' /\ UploadType' /\ UploadInv'
    /\ tasks'[t] # Idle => tasks'[t].kind = "upload"
\* A step of an upload to which nothing else happens.
LEMMA UploadsStep ==
    ASSUME StepInv, NEW t \in Slots, Uploads(t), Done(t), UNCHANGED <<Viewer, Delete, transfer>>,
           LinkType', UploadsOn(t)
    PROVE  StepKeeps
  <1>1. TypeInv /\ TasksType /\ PreviewInv /\ RemoveInv /\ TasksType'
    BY MovesType DEF StepInv, TypeInv, UploadsOn
  <1>2. Whole(t)
    BY UploadFound, UploadDone
  <1>3. tasks'[t].kind \notin {"preview", "delete", "edit"}
    BY DEF UploadsOn, Idle
  <1>4. TypeInv'
    BY <1>1, <1>2 DEF UploadsOn, Whole, TypeInv, ViewerType, DeleteType, OthersType, Viewer, Delete
  <1>5. PreviewInv'
    BY <1>1, <1>3, ViewStays, PreviewMoves DEF UploadsOn
  <1>6. RemoveInv'
    BY <1>1, <1>2, <1>3, RemoveQuiet DEF UploadsOn, Whole, Delete
  <1>7. Asked
    BY <1>1, <1>3, AskedMoves DEF UploadsOn
  <1> QED BY <1>4, <1>5, <1>6, <1>7 DEF UploadsOn, StepKeeps, StepInv

\* No answer to an upload leaves a half file under the final name.
LEMMA FilesWhole ==
    ASSUME StepInv, NEW t \in Slots, Uploads(t), Done(t)
    PROVE  \A s \in Sessions : remote'[s].final # "part"
  BY UploadFound, UploadDone DEF Whole

\* beginUpload ends.
LEMMA StopsStep ==
    ASSUME StepInv, NEW t \in Slots, Uploads(t), Done(t), UNCHANGED <<Viewer, Delete, transfer>>,
           LinkType', NEW phase \in {"completed", "cancelled", "failed"}, NEW changed,
           StopsWith(t, phase, changed),
           phase = "completed" =>
              remote'[tasks[t].home].final = "new" /\ remote'[tasks[t].home].temp = "none"
    PROVE  StepKeeps
  <1>1. /\ tasks[t] \in TaskType /\ tasks[t].kind = "upload" /\ tasks[t].step \notin Listing
        /\ progress \in ProgressType /\ progress.home = tasks[t].home
        /\ TasksType
    BY UploadFound
  <1>2. Refreshes(t, tasks[t]) \/ (Ends(t) /\ UNCHANGED Panel)
    BY DEF StopsWith
  <1>3. Reads(t, tasks[t])
    BY <1>1, <1>2, NotSweeper, ReadAgain DEF StepOf, Kinds
  <1>4. /\ progress' = [progress EXCEPT !.phase = phase] /\ uploading' = FALSE
        /\ sent' = NothingSent /\ dismiss' \in {phase = "completed", FALSE}
    BY DEF StopsWith
  <1>5. progress' \in ProgressType /\ progress'.phase = phase /\ progress'.home = tasks[t].home
    BY <1>1, <1>4 DEF ProgressType, Phases
  <1>6. dismiss' \in BOOLEAN /\ (dismiss' => phase = "completed")
    <2>1. CASE dismiss' = (phase = "completed")
      BY <2>1
    <2>2. CASE dismiss' = FALSE
      BY <2>2
    <2> QED BY <1>4, <2>1, <2>2
  <1>7. UploadType'
    <2>1. sent' \in SentType
      BY <1>4, SizeAssumption DEF NothingSent, SentType
    <2> QED BY <1>4, <1>5, <1>6, <2>1 DEF UploadType
  <1>8. UploadInv'
    <2>1. TasksType'
      BY <1>1, <1>3, MovesType DEF Reads
    <2>2. ASSUME NEW u \in Slots PROVE ~Uploads(u)'
      <3>1. CASE u = t
        BY <1>3, <3>1 DEF Reads, Uploads, Idle
      <3>2. CASE u # t
        BY <1>1, <1>3, <3>2, OthersUpload DEF Reads, StepInv, UploadInv
      <3> QED BY <3>1, <3>2
    <2>3. AtomicUpload'
      BY <1>5, FilesWhole DEF AtomicUpload
    <2> QED BY <1>5, <1>6, <2>1, <2>2, <2>3, UploadStops
  <1>9. UploadsOn(t)
    BY <1>1, <1>3, <1>7, <1>8 DEF UploadsOn, Reads
  <1> QED BY <1>9, UploadsStep

\* An upload takes its next step.
LEMMA NextStep ==
    ASSUME StepInv, NEW t \in Slots, Uploads(t), Done(t), UNCHANGED <<Panel, Viewer, Delete, transfer>>,
           LinkType', NEW step \in {"mkdir", "statDir", "write", "rename", "cleanup"},
           Becomes(t, Goes(tasks[t], step)), UNCHANGED <<uploading, dismiss>>,
           progress' \in ProgressType, progress'.phase \in {"preparing", "running"},
           progress'.home = progress.home, sent' \in SentType,
           step \notin {"rename", "cleanup"} => sent'.chunk < Chunks,
           step = "rename" => remote'[tasks[t].home].temp # "part"
    PROVE  StepKeeps
  <1>1. /\ Proper(tasks[t]) /\ tasks[t].kind = "upload" /\ tasks[t].step \notin Listing
        /\ TasksType /\ sessionId \in Sessions /\ uploading
    BY UploadFound
  <1>2. WentOn(Goes(tasks[t], step), tasks[t], step)
    BY <1>1, GoesProper DEF StepOf, Steps, Requests
  <1>3. Became(t, Goes(tasks[t], step))
    BY <1>1, <1>2, BecomesMoves DEF WentOn
  <1>4. /\ Moves(t) /\ tasks'[t].kind = "upload" /\ tasks'[t].step = step
        /\ tasks'[t].home = tasks[t].home
    BY <1>1, <1>2, <1>3 DEF Became, WentOn
  <1>5. LoadInv'
    <2>1. \A u \in Slots : LoadsAsBefore(u)
      <3> TAKE u \in Slots
      <3>1. CASE u = t
        BY <1>1, <1>4, <3>1 DEF LoadsAsBefore, Listing
      <3>2. CASE u # t
        BY <1>3, <3>2 DEF Became, LoadsAsBefore
      <3> QED BY <3>1, <3>2
    <2> QED BY <2>1, LoadQuiet DEF StepInv, Panel
  <1>6. PanelType' /\ UploadType'
    BY DEF StepInv, TypeInv, PanelType, Panel, UploadType
  <1>7. UploadInv'
    BY <1>1, <1>4, FilesWhole, UploadGoesOn DEF StepInv
  <1>8. UploadsOn(t)
    BY <1>4, <1>5, <1>6, <1>7 DEF UploadsOn, Panel
  <1> QED BY <1>8, UploadsStep

\* The steps of an upload.
LEMMA BeginUploadStep ==
    ASSUME StepInv, NEW t \in Slots, BeginUpload(t)
    PROVE  StepKeeps
  <1> DEFINE task == Call("upload", "prepare", sessionId, None)
             here == remote[sessionId]
  <1>1. TypeInv /\ TasksType /\ LoadInv /\ PreviewInv /\ UploadInv /\ RemoveInv
        /\ sessionId \in Sessions /\ remote \in [Sessions -> RemoteType]
    BY DEF StepInv, TypeInv, PanelType, OthersType
  <1>2. Proper(task) /\ task.kind = "upload" /\ task.step = "prepare" /\ task.home = sessionId
    <2>1. Proper(task)
      BY <1>1, CallProper DEF Kinds, Steps, StepOf
    <2> QED BY <2>1 DEF Call
  <1>3. Becomes(t, task)
    BY DEF BeginUpload
  <1> HIDE DEF task
  <1>4. Became(t, task)
    BY <1>1, <1>2, <1>3, BecomesMoves DEF BeginUpload, Free
  <1>5. Moves(t) /\ tasks'[t] = task /\ TasksType' /\ tasks[t] = Idle
    BY <1>1, <1>4, MovesType DEF Became, BeginUpload, Free
  <1>6. here \in RemoteType /\ here.final # "part"
    BY <1>1 DEF UploadInv, AtomicUpload
  <1>7. remote' = [remote EXCEPT ![sessionId].temp = "none", ![sessionId].final = "old"]
    <2>1. remote' = [remote EXCEPT ![sessionId].temp = "none",
                                   ![sessionId].final = IF @ = "part" THEN "part" ELSE "old"]
      BY DEF BeginUpload
    <2>2. (IF here.final = "part" THEN "part" ELSE "old") = "old"
      BY <1>6
    <2> QED BY <1>1, <1>6, <2>1, <2>2 DEF RemoteType
  <1>8. /\ remote' \in [Sessions -> RemoteType] /\ NodesKept
        /\ \A s \in Sessions : remote'[s].final # "part"
    BY <1>1, <1>6, <1>7 DEF RemoteType, NodesKept, UploadInv, AtomicUpload
  <1>9. /\ uploading' = TRUE /\ dismiss' = FALSE /\ sent' = NothingSent
        /\ progress' = [phase |-> "preparing", cancel |-> FALSE, home |-> sessionId]
    BY DEF BeginUpload
  <1>10. progress' \in ProgressType /\ progress'.phase = "preparing" /\ progress'.home = sessionId
    BY <1>1, <1>9 DEF ProgressType, Phases
  <1>11. sent' \in SentType /\ sent'.chunk < Chunks
    BY <1>9, SizeAssumption DEF NothingSent, SentType
  <1>12. TypeInv'
    <2>1. PanelType' /\ ViewerType' /\ LinkType' /\ DeleteType'
      BY <1>1 DEF BeginUpload, TypeInv, PanelType, ViewerType, LinkType, DeleteType,
                  Panel, Viewer, Link, Delete
    <2>2. UploadType'
      BY <1>9, <1>10, <1>11 DEF UploadType
    <2>3. OthersType'
      BY <1>1, <1>8 DEF BeginUpload, TypeInv, OthersType
    <2> QED BY <1>5, <2>1, <2>2, <2>3 DEF TypeInv
  <1>13. LoadInv'
    <2>1. \A u \in Slots : LoadsAsBefore(u)
      BY <1>2, <1>4, <1>5 DEF Became, LoadsAsBefore, Listing, Idle
    <2> QED BY <1>1, <2>1, LoadQuiet DEF BeginUpload, Panel
  <1>14. PreviewInv'
    BY <1>1, <1>2, <1>5, ViewStays, PreviewMoves DEF BeginUpload, Panel
  <1>15. UploadInv'
    <2>1. \A u \in Slots : ~Uploads(u)
      BY <1>1 DEF BeginUpload, UploadInv
    <2>2. \A u \in Slots : Uploads(u)' => u = t
      BY <1>1, <1>5, <2>1, OthersUpload
    <2>3. \A u \in Slots : tasks'[u].step # "rename"
      BY <1>1, <1>2, <1>5, <2>1, OthersUpload, RenameUploads
    <2>4. AtomicUpload'
      BY <1>8, <1>10 DEF AtomicUpload
    <2> QED BY <1>2, <1>5, <1>9, <1>10, <1>11, <2>2, <2>3, <2>4 DEF UploadInv
  <1>16. RemoveInv'
    BY <1>1, <1>2, <1>5, <1>8, RemoveQuiet DEF BeginUpload, Delete
  <1>17. Asked
    BY <1>1, <1>2, <1>5, AskedMoves
  <1> QED BY <1>12, <1>13, <1>14, <1>15, <1>16, <1>17 DEF StepKeeps, StepInv
\* Only an upload takes these steps.
LEMMA IsUpload ==
    ASSUME StepInv, NEW t \in Slots,
           \/ tasks[t].step \in {"prepare", "mkdir", "statDir", "write", "rename"}
           \/ tasks[t].step = "cleanup" /\ tasks[t].kind = "upload"
    PROVE  Uploads(t)
  BY Found DEF StepOf, Uploads

\* Where nothing is asked, nothing is done.
LEMMA StoppedStep ==
    ASSUME StepInv, NEW t \in Slots, Uploads(t), Done(t), LinkType',
           UNCHANGED <<Viewer, Delete, transfer>>,
           NEW phase \in {"cancelled", "failed"}, Stops(t, phase)
    PROVE  StepKeeps
  <1>1. StopsWith(t, IF Cancelled THEN "cancelled" ELSE phase, sent.changed)
    BY DEF Stops
  <1> QED BY <1>1, StopsStep

LEMMA PreparedStep ==
    ASSUME StepInv, NEW t \in Slots, Prepared(t)
    PROVE  StepKeeps
  <1>1. /\ Uploads(t) /\ Done(t) /\ LinkType' /\ UNCHANGED <<Viewer, Delete, transfer>>
        /\ tasks[t].step = "prepare"
    BY IsUpload, NothingAsked DEF Prepared, InFlight
  <1>2. /\ TypeInv /\ TasksType /\ LoadInv /\ UploadInv /\ t # Sweeper /\ UNCHANGED remote
        /\ tasks[t].step \notin Listing
    BY <1>1, UploadFound, NotSweeper DEF StepInv, TypeInv, Kinds, Prepared
  <1>3. CASE /\ uploading' = FALSE /\ progress' = None /\ dismiss' = FALSE
             /\ Ends(t) /\ UNCHANGED <<Panel, sent>>
    <2>1. Became(t, Idle)
      BY <1>2, <1>3, BecomesMoves DEF Ends
    <2>2. Moves(t) /\ tasks'[t] = Idle /\ TasksType'
      BY <1>2, <2>1, MovesType DEF Became
    <2>3. LoadInv'
      <3>1. \A u \in Slots : LoadsAsBefore(u)
        BY <1>2, <2>1 DEF Became, LoadsAsBefore, Listing, Idle
      <3> QED BY <1>2, <1>3, <3>1, LoadQuiet DEF Panel
    <2>4. UploadInv'
      <3>1. \A u \in Slots : ~Uploads(u)'
        BY <1>1, <1>2, <2>2, OthersUpload DEF UploadInv, Uploads, Idle
      <3>2. AtomicUpload'
        BY <1>2, <1>3 DEF UploadInv, AtomicUpload
      <3> QED BY <1>3, <2>2, <3>1, <3>2, UploadStops
    <2>5. PanelType' /\ UploadType'
      BY <1>2, <1>3 DEF TypeInv, PanelType, Panel, UploadType
    <2> QED BY <1>1, <1>3, <2>2, <2>3, <2>4, <2>5, UploadsStep DEF UploadsOn, Panel
  <1>4. CASE Stops(t, "failed")
    BY <1>1, <1>4, StoppedStep
  <1>5. CASE Cancelled /\ Stops(t, "completed")
    BY <1>1, <1>5, StopsStep DEF Stops
  <1>6. CASE /\ progress' = [progress EXCEPT !.phase = "running"]
             /\ \E step \in {"mkdir", "write"} : Becomes(t, Goes(tasks[t], step))
             /\ UNCHANGED <<Panel, uploading, dismiss, sent>>
    <2>1. progress \in ProgressType /\ sent \in SentType /\ sent.chunk < Chunks
      BY <1>1, UploadFound
    <2>2. progress' \in ProgressType /\ progress'.phase = "running" /\ progress'.home = progress.home
      BY <1>6, <2>1 DEF ProgressType, Phases
    <2>3. PICK step \in {"mkdir", "write"} : Becomes(t, Goes(tasks[t], step))
      BY <1>6
    <2> QED BY <1>1, <1>6, <2>1, <2>2, <2>3, NextStep
  <1> QED BY <1>3, <1>4, <1>5, <1>6 DEF Prepared

\* An upload whose request was answered.
LEMMA UploadAnswered ==
    ASSUME StepInv, NEW t \in Slots, Uploads(t), Succeeds(t) \/ Fails(t)
    PROVE  Done(t) /\ LinkType'
  BY Answered, UploadFound

LEMMA DirMadeStep ==
    ASSUME StepInv, NEW t \in Slots, DirMade(t)
    PROVE  StepKeeps
  <1>1. Uploads(t) /\ UNCHANGED <<Viewer, Delete, transfer>> /\ tasks[t].step \in {"mkdir", "statDir"}
    BY IsUpload DEF DirMade
  <1>2. Done(t) /\ LinkType'
    BY <1>1, UploadAnswered DEF DirMade
  <1>3. CASE Cancelled
    BY <1>1, <1>2, <1>3, StopsStep DEF DirMade
  <1>4. CASE ~Cancelled
    <2>1. /\ progress \in ProgressType /\ progress.phase \in {"preparing", "running"}
          /\ sent \in SentType /\ sent.chunk < Chunks
      BY <1>1, UploadFound
    <2>2. /\ Becomes(t, Goes(tasks[t], "write")) /\ sent' = [sent EXCEPT !.changed = TRUE]
          /\ UNCHANGED <<Panel, uploading, progress, dismiss>>
      BY <1>4 DEF DirMade
    <2>3. sent' \in SentType /\ sent'.chunk < Chunks
      BY <2>1, <2>2 DEF SentType
    <2> QED BY <1>1, <1>2, <2>1, <2>2, <2>3, NextStep
  <1> QED BY <1>3, <1>4

LEMMA DirFailsStep ==
    ASSUME StepInv, NEW t \in Slots, DirFails(t)
    PROVE  StepKeeps
  <1>1. Uploads(t) /\ tasks[t].step = "mkdir" /\ UNCHANGED <<Panel, Viewer, Upload, Delete, transfer>>
    BY IsUpload DEF DirFails
  <1>2. Done(t) /\ LinkType' /\ Becomes(t, Goes(tasks[t], "statDir"))
    BY <1>1, UploadAnswered DEF DirFails
  <1>3. /\ progress \in ProgressType /\ progress.phase \in {"preparing", "running"}
        /\ sent \in SentType /\ sent.chunk < Chunks
    BY <1>1, UploadFound
  <1>4. UNCHANGED uploading /\ UNCHANGED progress /\ UNCHANGED dismiss /\ UNCHANGED sent
    BY <1>1 DEF Upload
  <1> QED BY <1>1, <1>2, <1>3, <1>4, NextStep

LEMMA NoDirStep == ASSUME StepInv, NEW t \in Slots, NoDir(t) PROVE StepKeeps
  <1>1. Uploads(t) /\ UNCHANGED <<Viewer, Delete, transfer>> /\ Stops(t, "failed")
    BY IsUpload DEF NoDir
  <1>2. Done(t) /\ LinkType'
    BY <1>1, UploadAnswered DEF NoDir
  <1> QED BY <1>1, <1>2, StoppedStep

LEMMA CleanedUpStep == ASSUME StepInv, NEW t \in Slots, CleanedUp(t) PROVE StepKeeps
  <1>1. Uploads(t) /\ UNCHANGED <<Viewer, Delete, transfer>> /\ Stops(t, "failed")
    BY IsUpload DEF CleanedUp
  <1>2. Done(t) /\ LinkType'
    BY <1>1, UploadAnswered DEF CleanedUp
  <1> QED BY <1>1, <1>2, StoppedStep

\* The last chunk makes the file whole.
LEMMA WrittenStep ==
    ASSUME StepInv, NEW t \in Slots, Written(t)
    PROVE  StepKeeps
  <1> DEFINE step == IF Cancelled THEN "cleanup" ELSE IF sent'.chunk < Chunks THEN "write" ELSE "rename"
             at   == tasks[t].at
             home == tasks[t].home
  <1>1. Uploads(t) /\ tasks[t].step = "write" /\ UNCHANGED <<Panel, Viewer, Delete, transfer>>
    BY IsUpload DEF Written
  <1>2. /\ Done(t) /\ LinkType' /\ Becomes(t, Goes(tasks[t], step))
        /\ UNCHANGED uploading /\ UNCHANGED progress /\ UNCHANGED dismiss
        /\ sent' = [sent EXCEPT !.chunk = @ + 1, !.wrote = TRUE]
    BY <1>1, UploadAnswered DEF Written
  <1>3. /\ progress \in ProgressType /\ progress.phase \in {"preparing", "running"}
        /\ sent \in SentType /\ sent.chunk < Chunks
    BY <1>1, UploadFound
  <1>4. sent' \in SentType /\ sent'.chunk = sent.chunk + 1
    <2> DEFINE chunk == sent.chunk + 1
    <2>1. chunk \in 0..Chunks
      BY <1>3, SizeAssumption DEF SentType
    <2> HIDE DEF chunk
    <2>2. sent' = [sent EXCEPT !.chunk = chunk, !.wrote = TRUE]
      BY <1>2 DEF chunk
    <2>3. sent' \in SentType /\ sent'.chunk = chunk
      BY <1>3, <2>1, <2>2 DEF SentType
    <2> QED BY <2>3 DEF chunk
  <1>5. step \in {"write", "rename", "cleanup"} /\ (step = "write" => sent'.chunk < Chunks)
        /\ (step = "rename" => sent.chunk + 1 = Chunks)
    BY <1>3, <1>4, SizeAssumption DEF SentType
  <1> HIDE DEF step
  <1>6. step = "rename" => remote'[home].temp # "part"
    <2> SUFFICES ASSUME step = "rename" PROVE remote'[home].temp # "part"
      OBVIOUS
    <2>1. remote \in [Sessions -> RemoteType] /\ at \in Sessions /\ at = home
      BY <1>1, UploadFound, ProperType DEF StepInv, TypeInv, OthersType, Proper, Changing
    <2>2. remote' = [remote EXCEPT ![at].temp = "full"]
      BY <1>1, <1>5 DEF Written, Succeeds, Applied
    <2>3. remote[at] \in RemoteType
      BY <2>1
    <2> QED BY <2>1, <2>2, <2>3 DEF RemoteType
  <1> QED BY <1>1, <1>2, <1>3, <1>4, <1>5, <1>6, NextStep

LEMMA RenamedStep ==
    ASSUME StepInv, NEW t \in Slots, Renamed(t)
    PROVE  StepKeeps
  <1>1. Uploads(t) /\ tasks[t].step = "rename" /\ UNCHANGED <<Viewer, Delete, transfer>>
    BY IsUpload DEF Renamed
  <1>2. Done(t) /\ LinkType'
    BY <1>1, UploadAnswered DEF Renamed
  <1>3. remote'[tasks[t].home].final = "new" /\ remote'[tasks[t].home].temp = "none"
    BY <1>1, RenameDone DEF Renamed
  <1>4. StopsWith(t, IF Cancelled THEN "cancelled" ELSE "completed", TRUE)
    BY DEF Renamed
  <1> QED BY <1>1, <1>2, <1>3, <1>4, StopsStep

LEMMA UploadFailsStep ==
    ASSUME StepInv, NEW t \in Slots, UploadFails(t)
    PROVE  StepKeeps
  <1>1. /\ Uploads(t) /\ tasks[t].step \in {"write", "rename"}
        /\ UNCHANGED <<Viewer, Delete, transfer>>
    BY IsUpload DEF UploadFails
  <1>2. Fails(t)
    BY DEF UploadFails, Fails
  <1>3. Done(t) /\ LinkType'
    BY <1>1, <1>2, UploadAnswered
  <1>4. CASE Becomes(t, Goes(tasks[t], "cleanup")) /\ UNCHANGED <<Panel, Upload>>
    <2>1. /\ progress \in ProgressType /\ progress.phase \in {"preparing", "running"}
          /\ sent \in SentType
      BY <1>1, UploadFound
    <2>2. UNCHANGED uploading /\ UNCHANGED progress /\ UNCHANGED dismiss /\ UNCHANGED sent
      BY <1>4 DEF Upload
    <2> QED BY <1>1, <1>3, <1>4, <2>1, <2>2, NextStep
  <1>5. CASE Stops(t, "failed")
    BY <1>1, <1>3, <1>5, StoppedStep
  <1> QED BY <1>4, <1>5 DEF UploadFails
\* An upload fails or is cancelled, and its temporary file is left to the clean-up.
LEMMA DeniedKeeps ==
    ASSUME StepInv, NEW t \in Slots, t # Sweeper, Uploads(t), LoadInv', PanelType',
           tasks' = [u \in Slots |-> tasks'[u]], \A u \in Slots \ {t, Sweeper} : Same(u),
           Proper(tasks'[Sweeper]), tasks'[Sweeper].kind = "sweep", tasks'[Sweeper].step = "cleanup",
           tasks'[t] = Idle \/ (Proper(tasks'[t]) /\ tasks'[t].kind = "upload" /\ tasks'[t].step = "list"),
           UNCHANGED <<Link, remote>>, UNCHANGED <<sessionId, Viewer, dismiss, Delete, transfer>>,
           uploading' = FALSE, sent' = NothingSent,
           progress' = [progress EXCEPT !.phase = IF Cancelled THEN "cancelled" ELSE "failed"]
    PROVE  StepKeeps
  <1>1. /\ TypeInv /\ TasksType /\ PreviewInv /\ UploadInv /\ RemoveInv
        /\ progress \in ProgressType /\ ~dismiss
    BY UploadFound DEF StepInv, TypeInv
  <1>2. ASSUME NEW u \in Slots \ {t, Sweeper} PROVE SameBut(u)
    BY <1>1, SameFields
  <1>3. TasksType'
    <2>1. ASSUME NEW u \in Slots PROVE tasks'[u] = Idle \/ Proper(tasks'[u])
      <3>1. CASE u \in {t, Sweeper}
        BY <3>1
      <3>2. CASE u \notin {t, Sweeper}
        <4>1. tasks[u] = Idle \/ Proper(tasks[u])
          BY <1>1 DEF TasksType, Waits
        <4>2. Same(u)
          BY <3>2
        <4> QED BY <4>1, <4>2 DEF Same, Proper, TaskType, Waits
      <3> QED BY <3>1, <3>2
    <2> QED BY <2>1 DEF TasksType, Proper, Waits
  <1>4. /\ progress' \in ProgressType /\ progress'.phase \in {"cancelled", "failed"}
        /\ UNCHANGED dismiss /\ sent' \in SentType
    BY <1>1, SizeAssumption DEF ProgressType, Phases, NothingSent, SentType
  <1>5. TypeInv'
    BY <1>1, <1>3, <1>4 DEF TypeInv, UploadType, ViewerType, LinkType, DeleteType, OthersType,
                            Viewer, Link, Delete
  <1>6. PreviewInv'
    <2>1. \A u \in Slots : tasks'[u].kind = "preview" => SameBut(u)
      BY <1>2 DEF Idle
    <2> QED BY <1>1, <2>1 DEF PreviewInv, Viewer, SameBut
  <1>7. UploadInv'
    <2>1. ASSUME NEW u \in Slots PROVE ~Uploads(u)'
      <3>1. CASE u \in {t, Sweeper}
        BY <3>1 DEF Uploads, Idle
      <3>2. CASE u \notin {t, Sweeper}
        BY <1>1, <1>2, <3>2 DEF Uploads, SameBut, UploadInv
      <3> QED BY <3>1, <3>2
    <2>2. AtomicUpload'
      BY <1>1, <1>4 DEF UploadInv, AtomicUpload
    <2> QED BY <1>1, <1>3, <1>4, <2>1, <2>2, UploadStops
  <1>8. RemoveInv'
    <2>1. \A u \in Slots : tasks'[u].kind = "delete" => SameBut(u)
      BY <1>2 DEF Idle
    <2> QED BY <1>1, <2>1 DEF RemoveInv, Delete, SameBut
  <1>9. Asked
    <2>1. \A u \in Slots : tasks'[u].kind \in {"edit", "delete"} => SameBut(u)
      BY <1>2 DEF Idle
    <2> QED BY <2>1 DEF Asked, SameBut
  <1> QED BY <1>5, <1>6, <1>7, <1>8, <1>9 DEF StepKeeps, StepInv

\* Two functions change: the upload goes on to list, or ends, and the clean-up begins.
LEMMA UploadDeniedStep ==
    ASSUME StepInv, NEW t \in Slots, UploadDenied(t)
    PROVE  StepKeeps
  <1> DEFINE sweep == Call("sweep", "cleanup", tasks[t].home, None)
             again == [tasks[t] EXCEPT !.step = "list", !.at = sessionId,
                                       !.path = cwd, !.try = "first", !.fresh = TRUE]
             lists == sent.changed /\ tasks[t].home = sessionId
  <1>1. /\ Uploads(t) /\ tasks[t].step \in {"write", "rename"} /\ UNCHANGED <<Link, remote>>
        /\ UNCHANGED <<Viewer, dismiss, Delete, transfer>>
        /\ uploading' = FALSE /\ sent' = NothingSent
        /\ progress' = [progress EXCEPT !.phase = IF Cancelled THEN "cancelled" ELSE "failed"]
    BY IsUpload DEF UploadDenied, Refused
  <1>2. /\ TypeInv /\ TasksType /\ LoadInv /\ PreviewInv /\ UploadInv /\ RemoveInv
        /\ PanelType /\ t # Sweeper /\ Sweeper \in Slots
    BY <1>1, UploadFound, NotSweeper, SweeperIsThere DEF StepInv, TypeInv, Kinds
  <1>3. /\ tasks[t] \in TaskType /\ tasks[t].home \in Sessions /\ tasks[t].kind = "upload"
        /\ progress \in ProgressType /\ ~dismiss
    BY <1>1, UploadFound
  <1>4. /\ Proper(sweep) /\ sweep.kind = "sweep" /\ sweep.step = "cleanup"
    <2>1. Proper(sweep)
      BY <1>3, CallProper DEF Kinds, Steps, Requests, StepOf
    <2> QED BY <2>1 DEF Call
  <1>5. /\ Proper(again) /\ again.kind = "upload" /\ again.step = "list" /\ again.fresh
        /\ again.at = sessionId /\ again.path = cwd
    <2>1. /\ again \in TaskType /\ again.kind = "upload" /\ again.step = "list" /\ again.fresh
          /\ again.at = sessionId /\ again.path = cwd
      BY <1>2, <1>3 DEF TaskType, PanelType, Steps, Requests, Tries
    <2> HIDE DEF again
    <2> QED BY <1>2, <2>1 DEF Proper, StepOf, Changing, PanelType
  <1>6. CASE lists
    <2>1. /\ tasks' = [u \in Slots |->
                CASE u = Sweeper -> sweep
                  [] u = t -> again
                  [] OTHER -> IF tasks[u].step = "list"
                              THEN [tasks[u] EXCEPT !.fresh = FALSE] ELSE tasks[u]]
          /\ loading' = TRUE /\ loadFailed' = FALSE
          /\ UNCHANGED <<sessionId, mounted, cwd, listed>>
      BY <1>6 DEF UploadDenied
    <2> HIDE DEF sweep, again, lists
    <2>2. tasks'[Sweeper] = sweep /\ tasks'[t] = again /\ tasks' = [u \in Slots |-> tasks'[u]]
      BY <1>2, <2>1
    <2>3. ASSUME NEW u \in Slots \ {t, Sweeper} PROVE Same(u) /\ ~ListsNow(u)'
      <3>0. tasks'[u] = IF tasks[u].step = "list" THEN [tasks[u] EXCEPT !.fresh = FALSE] ELSE tasks[u]
        BY <2>1
      <3>1. CASE tasks[u].step = "list"
        <4>1. Waits(u) /\ tasks[u] \in TaskType
          BY <1>2, <3>1, Waiting DEF Proper
        <4> QED BY <3>0, <3>1, <4>1 DEF Same, ListsNow, TaskType
      <3>2. CASE tasks[u].step # "list"
        BY <3>0, <3>2 DEF Same, ListsNow
      <3> QED BY <3>1, <3>2
    <2>4. LoadInv'
      <3>1. ListsNow(t)' /\ tasks'[t].at = sessionId' /\ tasks'[t].path = cwd'
        BY <1>5, <2>1, <2>2 DEF ListsNow
      <3>2. \A u \in Slots : ListsNow(u)' => u = t
        BY <1>4, <2>2, <2>3 DEF ListsNow
      <3> QED BY <3>1, <3>2 DEF LoadInv
    <2>5. PanelType'
      BY <1>2, <2>1 DEF PanelType
    <2> QED BY <1>1, <1>2, <1>3, <1>4, <1>5, <2>1, <2>2, <2>3, <2>4, <2>5, DeniedKeeps
  <1>7. CASE ~lists
    <2>1. tasks' = [tasks EXCEPT ![t] = Idle, ![Sweeper] = sweep] /\ UNCHANGED Panel
      BY <1>7 DEF UploadDenied
    <2> HIDE DEF sweep, again, lists
    <2>2. /\ tasks'[Sweeper] = sweep /\ tasks'[t] = Idle /\ tasks' = [u \in Slots |-> tasks'[u]]
          /\ \A u \in Slots \ {t, Sweeper} : tasks'[u] = tasks[u]
      BY <1>2, <2>1 DEF TasksType
    <2>3. \A u \in Slots \ {t, Sweeper} : Same(u)
      BY <2>2 DEF Same
    <2>4. LoadInv'
      <3>1. tasks[Sweeper].step \notin Listing
        BY <1>2 DEF TasksType, Waits, Idle, Listing, Proper, StepOf
      <3>2. \A u \in Slots : LoadsAsBefore(u)
        BY <1>1, <1>4, <2>2, <3>1 DEF LoadsAsBefore, Listing, Idle
      <3> QED BY <1>2, <2>1, <3>2, LoadQuiet DEF Panel
    <2>5. PanelType'
      BY <1>2, <2>1 DEF PanelType, Panel
    <2> QED BY <1>1, <1>2, <1>3, <1>4, <2>1, <2>2, <2>3, <2>4, <2>5, DeniedKeeps DEF Panel
  <1> QED BY <1>6, <1>7
---------------------------------------------------------------------------
(* The invariant.                                                           *)

\* Every action, by who does it.
LEMMA BeginsKeeps ==
    ASSUME StepInv, NEW t \in Slots, NEW thing \in Things, Begins(t, thing)
    PROVE  StepKeeps
  BY SwitchTabStep, NavigateStep, PreviewStep, FollowSymlinkStep, BeginEditStep, RemoveEntryStep,
     BeginUploadStep, BeginDownloadStep DEF Begins

LEMMA UserKeeps == ASSUME StepInv, User PROVE StepKeeps
  BY ClosePreviewStep, CloseDialogStep, ConfirmTooLateStep, CancelTransferStep, ClearProgressStep,
     UnmountStep, ConfirmRemoveStep, PromptAnsweredStep, PickedStep DEF User

LEMMA GoesOnKeeps == ASSUME StepInv, NEW t \in Slots, GoesOn(t) PROVE StepKeeps
  <1>1. CASE LoadCloses(t) \/ LoadOpens(t) \/ LoadFails(t) \/ ListAnswered(t)
    BY <1>1, LoadClosesStep, LoadOpensStep, LoadFailsStep, ListAnsweredStep
  <1>2. CASE PreviewSized(t) \/ PreviewEnds(t) \/ LinkRead(t) \/ FollowEnds(t)
    BY <1>2, PreviewSizedStep, PreviewEndsStep, LinkReadStep, FollowEndsStep
  <1>3. CASE \E dir \in Dirs : LinkIsDir(t, dir)
    BY <1>3, LinkIsDirStep
  <1>4. CASE Edited(t) \/ EditFails(t) \/ RemoveGoesOn(t) \/ RemoveFails(t)
    BY <1>4, EditedStep, EditFailsStep, RemoveGoesOnStep, RemoveFailsStep
  <1>5. CASE Prepared(t) \/ DirMade(t) \/ DirFails(t) \/ NoDir(t)
    BY <1>5, PreparedStep, DirMadeStep, DirFailsStep, NoDirStep
  <1>6. CASE Written(t) \/ Renamed(t) \/ UploadFails(t) \/ UploadDenied(t) \/ CleanedUp(t)
    BY <1>6, WrittenStep, RenamedStep, UploadFailsStep, UploadDeniedStep, CleanedUpStep
  <1>7. CASE DownloadSized(t) \/ DownloadReads(t) \/ DownloadFails(t)
    BY <1>7, DownloadSizedStep, DownloadReadsStep, DownloadFailsStep
  <1>8. CASE Reconnects(t) \/ Retry(t)
    BY <1>8, ReconnectsStep, RetryStep
  <1> QED BY <1>1, <1>2, <1>3, <1>4, <1>5, <1>6, <1>7, <1>8 DEF GoesOn

\* The invariant holds at the beginning, is kept by every step, and so always holds.
LEMMA InitInv == Init => IInv
  <1> SUFFICES ASSUME Init PROVE IInv
    OBVIOUS
  <1> DEFINE task == Call("load", "open", sessionId, Root)
  <1>1. /\ sessionId \in Sessions /\ cwd \in Dirs /\ budget \in [Things -> Nat]
    BY RootAssumption, BudgetAssumption DEF Init
  <1>2. /\ Proper(task) /\ task.kind = "load" /\ task.step = "open"
    <2>1. Proper(task)
      BY <1>1, RootAssumption, CallProper DEF Kinds, Steps, StepOf
    <2> QED BY <2>1 DEF Call
  <1>3. tasks = [t \in Slots |-> IF t = 1 THEN task ELSE Idle]
    BY DEF Init
  <1> HIDE DEF task
  <1>4. 1 \in Slots /\ tasks[1] = task /\ \A t \in Slots \ {1} : tasks[t] = Idle
    BY <1>3, SizeAssumption DEF Slots
  <1>5. TasksType
    <2>1. tasks[Sweeper] = Idle
      BY <1>4, SweeperIsThere DEF Sweeper
    <2>2. tasks \in [Slots -> {Idle} \cup TaskType]
      BY <1>2, <1>3 DEF Proper
    <2> QED BY <1>2, <1>4, <2>1, <2>2 DEF TasksType, Waits
  <1>6. \A t \in Slots : tasks[t].kind \in {"idle", "load"} /\ tasks[t].step \in {"idle", "open"}
    BY <1>2, <1>4 DEF Idle
  <1>7. TypeInv
    <2>1. PanelType /\ ViewerType /\ LinkType
      BY <1>1 DEF Init, PanelType, ViewerType, LinkType
    <2>2. UploadType
      <3>1. NothingSent \in SentType
        BY SizeAssumption DEF NothingSent, SentType
      <3> QED BY <3>1 DEF Init, UploadType
    <2>3. DeleteType
      BY NothingToRemove DEF Init, DeleteType
    <2>4. OthersType
      BY DEF Init, OthersType, RemoteType
    <2> QED BY <1>5, <2>1, <2>2, <2>3, <2>4 DEF TypeInv
  <1>8. LoadInv
    <2>1. Loads
      BY <1>2, <1>4 DEF Loads
    <2> QED BY <2>1 DEF LoadInv
  <1>9. PreviewInv
    BY <1>6 DEF Init, PreviewInv
  <1>10. UploadInv
    <2>1. \A t \in Slots : ~Uploads(t)
      BY <1>6 DEF Uploads
    <2>2. AtomicUpload
      BY DEF Init, AtomicUpload
    <2> QED BY <1>6, <2>1, <2>2 DEF Init, UploadInv
  <1>11. RemoveInv
    BY <1>6 DEF RemoveInv
  <1> QED BY <1>1, <1>7, <1>8, <1>9, <1>10, <1>11 DEF IInv, StepInv, BudgetType

LEMMA NextInv == ASSUME IInv, [Next]_vars PROVE IInv' /\ Asked
  <1>1. StepInv /\ BudgetType
    BY DEF IInv
  <1>2. CASE (User \/ Answers) /\ UNCHANGED budget
    <2>1. User => StepKeeps
      BY ONLY <1>1, UserKeeps
    <2>2. Answers => StepKeeps
      BY <1>1, GoesOnKeeps, SweptStep, ReopenedStep, ReopenFailsStep DEF Answers, Reopening
    <2>3. StepKeeps
      BY ONLY <1>2, <2>1, <2>2
    <2> QED BY <1>1, <1>2, <2>3 DEF StepKeeps, IInv, BudgetType
  <1>3. ASSUME NEW thing \in Things, NEW t \in Slots, budget[thing] > 0,
               budget' = [budget EXCEPT ![thing] = @ - 1], Begins(t, thing)
        PROVE  IInv' /\ Asked
    <2>1. BudgetType'
      BY <1>1, <1>3 DEF BudgetType
    <2>2. StepKeeps
      BY <1>1, <1>3, BeginsKeeps
    <2> QED BY <2>1, <2>2 DEF StepKeeps, IInv
  <1>4. CASE UNCHANGED vars
    <2>1. /\ UNCHANGED <<Panel, Viewer, Link, Upload, Delete, budget>>
          /\ UNCHANGED tasks /\ UNCHANGED transfer /\ UNCHANGED remote
      BY <1>4 DEF vars
    <2>2. Asked
      BY <2>1 DEF Asked
    <2>3. TypeInv'
      BY <1>1, <2>1 DEF StepInv, TypeInv, PanelType, ViewerType, LinkType, UploadType, DeleteType,
                        TasksType, OthersType, Panel, Viewer, Link, Upload, Delete, Waits
    <2>4. LoadInv' /\ PreviewInv'
      BY <1>1, <2>1 DEF StepInv, LoadInv, PreviewInv, Loads, ListsNow, Panel, Viewer
    <2>5. UploadInv'
      BY <1>1, <2>1 DEF StepInv, UploadInv, Uploads, AtomicUpload, Upload
    <2>6. RemoveInv'
      BY <1>1, <2>1 DEF StepInv, RemoveInv, Delete
    <2> QED BY <1>1, <2>1, <2>2, <2>3, <2>4, <2>5, <2>6 DEF IInv, StepInv, BudgetType
  <1> QED BY <1>2, <1>3, <1>4 DEF Next

LEMMA Invariance == Spec => []IInv
  <1>1. IInv /\ [Next]_vars => IInv'
    BY NextInv
  <1> QED BY <1>1, InitInv, PTL DEF Spec

---------------------------------------------------------------------------
(* Theorems.                                                                *)

\* Every variable has its type, however many functions wait, whatever fails.
THEOREM TypeCorrect == Spec => []TypeOK
  <1>1. IInv => TypeOK
    <2> SUFFICES ASSUME IInv PROVE TypeOK
      OBVIOUS
    <2>1. TypeInv /\ BudgetType
      BY DEF IInv, StepInv
    <2>2. tasks \in [Slots -> Task]
      BY <2>1 DEF TypeInv, TasksType, TaskType, Task
    <2> QED BY <2>1, <2>2 DEF TypeInv, PanelType, ViewerType, LinkType, UploadType, DeleteType,
                              OthersType, BudgetType, TypeOK, ProgressType, SentType, RemovalType,
                              EntryType, RemoteType
  <1> QED BY <1>1, Invariance, PTL

\* Once nothing is under way the list is the one of the session and directory that are
\* named, or the last load has failed; a text is the one of the file named above it, and
\* of the session that is shown, unless the user went to another tab since naming it.
THEOREM PanelIsTrue == Spec => []PanelShowsWhatItNames
  <1>1. IInv => PanelShowsWhatItNames
    <2> SUFFICES ASSUME IInv PROVE PanelShowsWhatItNames
      OBVIOUS
    <2>1. LoadInv /\ PreviewInv
      BY DEF IInv, StepInv
    <2>2. Quiet => ~Loads /\ \A t \in Slots : ~ListsNow(t)
      BY DEF Quiet, Loads, ListsNow
    <2> QED BY <2>1, <2>2 DEF LoadInv, PreviewInv, PanelShowsWhatItNames
  <1> QED BY <1>1, Invariance, PTL

\* An upload replaces its file as a whole or not at all, and says so only when it has.
THEOREM UploadsAreAtomic == Spec => []AtomicUpload
  <1>1. IInv => AtomicUpload
    BY DEF IInv, StepInv, UploadInv
  <1> QED BY <1>1, Invariance, PTL

\* A directory is asked to go only when nothing is left in it.
THEOREM DirectoriesGoEmpty == Spec => []RemovedWhenEmpty
  <1>1. IInv => RemovedWhenEmpty
    <2> SUFFICES ASSUME IInv, NEW t \in Slots, tasks[t].step = "call", tasks[t].kind = "delete",
                        Top.ready
                 PROVE  Entries(tasks[t].home, Top.node) = <<>>
      BY DEF RemovedWhenEmpty
    <2>1. StepInv /\ remote \in [Sessions -> RemoteType] /\ removal \in RemovalType
      BY DEF IInv, StepInv, TypeInv, OthersType, DeleteType
    <2>2. tasks[t].home \in Sessions
      BY <2>1, Found
    <2>3. RemovalOK(removal, remote[tasks[t].home].nodes)
      BY <2>1 DEF StepInv, RemoveInv
    <2> QED BY <2>1, <2>2, <2>3, ReadyIsEmpty
  <1> QED BY <1>1, Invariance, PTL

\* A request that changes something goes to the session in which the user began it.
THEOREM ChangesStayHome == Spec => MutationsStayHome
  <1> DEFINE Step == \A t \in Slots : tasks'[t].step \in Changing =>
          /\ tasks'[t].at = tasks'[t].home
          /\ (tasks[t].step \notin Changing /\ tasks'[t].kind \in {"edit", "delete"})
                => tasks'[t].home = sessionId
  <1>1. IInv /\ [Next]_vars => Step
    <2> SUFFICES ASSUME IInv, [Next]_vars, NEW t \in Slots, tasks'[t].step \in Changing
                 PROVE  /\ tasks'[t].at = tasks'[t].home
                        /\ (tasks[t].step \notin Changing /\ tasks'[t].kind \in {"edit", "delete"})
                              => tasks'[t].home = sessionId
      OBVIOUS
    <2>1. TasksType' /\ Asked
      BY NextInv DEF IInv, StepInv, TypeInv
    <2>2. Proper(tasks'[t])
      BY <2>1 DEF TasksType, Waits, Idle, Changing
    <2> QED BY <2>1, <2>2 DEF Asked, Proper
  <1> QED BY <1>1, Invariance, PTL DEF Spec, MutationsStayHome

=============================================================================
