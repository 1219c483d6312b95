----------------------------- MODULE SftpBrowser -----------------------------
(* The SFTP panel of the window (SftpBrowser.svelte, sftpDelete.ts). It stays    *)
(* mounted while the user goes from one SSH tab to another: the property         *)
(* sessionId changes under functions that wait for isshd, and each of them       *)
(* either kept the session it began with or reads the new one after its await.   *)
(* A request that finds its channel dead opens it again, once for all who wait,  *)
(* and is sent a second time.                                                    *)
(* Bounds: a behaviour has one of Budgets for what the user begins; MaxRunning   *)
(* functions run at a time, and beside them one clean-up that an upload left     *)
(* behind (the Sweeper); an upload has at most one directory and one file of     *)
(* Chunks chunks.                                                                *)
EXTENDS Integers, Sequences, SequencesExt

CONSTANTS
    Sessions,   \* SSH sessions with an SFTP panel
    Sudo,       \* those whose panel is in sudo mode, which never opens again by itself
    Dirs, Root, \* directories the panel can show, and the one it begins with
    Files,      \* files that can be previewed
    Nodes,      \* files and directories that can be deleted
    Children,   \* for those that are directories, what is in them
    PageSize,   \* entries in an answer to sftp.list
    Chunks,     \* chunks of an uploaded or downloaded file
    MaxRunning, \* functions that run at a time
    Budgets,    \* how often the user may begin each of Things
    None

Things == {"switch", "list", "edit", "delete", "upload", "download", "preview", "follow"}

ASSUME SudoAssumption  == Sudo \subseteq Sessions
ASSUME RootAssumption  == Root \in Dirs
ASSUME TreeAssumption  ==
    DOMAIN Children \subseteq Nodes /\ \A n \in DOMAIN Children : Children[n] \in Seq(Nodes)
ASSUME SizeAssumption  == PageSize \in Nat \ {0} /\ Chunks \in Nat \ {0} /\ MaxRunning \in Nat \ {0}
ASSUME BudgetAssumption == Budgets \subseteq [Things -> Nat]

VARIABLES
    sessionId, mounted,          \* property of the component, and whether it is there
    cwd,                         \* the directory
    listed,                      \* where entries comes from
    loading, loadFailed,         \* loading, and that the last load set error
    previewPath, previewText,    \* the file named; the session and file of the text shown
    strayed,                     \* whether another tab was shown since that file was named
    opened, reconnect,           \* openedSessionId; the session of reconnectPromise
    tasks,                       \* the functions that wait
    uploading, progress, dismiss,\* uploadProgress and its timer
    sent,                        \* what uploadSingle keeps
    target, deleting, removal,   \* deleteTarget, and what removeSftpTree keeps
    transfer,                    \* a download
    remote,                      \* the files of every session
    budget                       \* what the user may still begin (bound)

Panel  == <<sessionId, mounted, cwd, listed, loading, loadFailed>>
Viewer == <<previewPath, previewText, strayed>>
Link   == <<opened, reconnect>>
Upload == <<uploading, progress, dismiss, sent>>
Delete == <<target, deleting, removal>>
vars   == <<Panel, Viewer, Link, tasks, Upload, Delete, transfer, remote, budget>>

Kinds    == {"load", "list", "edit", "delete", "upload", "sweep", "download", "preview",
             "follow"}
Homely   == {"edit", "delete", "upload", "sweep"}     \* they keep targetSessionId
Requests == {"list", "call", "mkdir", "statDir", "write", "rename", "cleanup", "stat",
             "read", "readlink"}                      \* sent through withReconnect
Steps    == Requests \cup {"close", "open", "prompt", "prepare", "pick"}
Tries    == {"first", "waiting", "retry", "giveup", "second"}
Sweeper  == 0
Slots    == 0..MaxRunning
Idle     == [kind |-> "idle", step |-> "idle"]
Task     == {Idle} \cup
    [kind: Kinds, step: Steps, home: Sessions, at: Sessions, path: Dirs \cup Files \cup {None},
     try: Tries, fresh: BOOLEAN]
Phases   == {"preparing", "running", "completed", "cancelled", "failed"}

\* A promise that has settled: its continuation runs before any other event.
Settled(t) == tasks[t] # Idle /\ tasks[t].try \in {"retry", "giveup"}
Turn       == \A t \in Slots : ~Settled(t)
\* The slot of the function that begins.
Free(t)    == /\ mounted /\ Turn /\ t # Sweeper
              /\ tasks[t] = Idle /\ \A u \in 1..(t - 1) : tasks[u] # Idle
InFlight(t, step) == tasks[t].step = step /\ tasks[t].try \in {"first", "second"}

Call(kind, step, home, path) ==
    [kind |-> kind, step |-> step, home |-> home, at |-> home, path |-> path,
     try |-> "first", fresh |-> TRUE]
\* Mutated form of Where: whatever is shown at the time.
WhereNow(task, step) == sessionId
\* Where the next request of a function goes: Homely ones stay where they began.
Where(task, step) == IF task.kind \in Homely /\ step # "list" THEN task.home ELSE sessionId
Goes(task, step)  == [task EXCEPT !.step = step, !.at = Where(task, step), !.try = "first"]
Becomes(t, task)  == tasks' = [tasks EXCEPT ![t] = task]
Ends(t)           == Becomes(t, Idle)
\* refresh: a new navGeneration makes the answers of the others late.
Lists(t, task, s, dir) ==
    tasks' = [u \in Slots |->
        IF u = t THEN [task EXCEPT !.step = "list", !.at = s, !.path = dir,
                                   !.try = "first", !.fresh = TRUE]
        ELSE IF tasks[u].step = "list" THEN [tasks[u] EXCEPT !.fresh = FALSE] ELSE tasks[u]]
Refreshes(t, task) ==
    /\ Lists(t, task, sessionId, cwd)
    /\ loading' = TRUE /\ loadFailed' = FALSE
    /\ UNCHANGED <<sessionId, mounted, cwd, listed>>
GoesTo(t, task, dir) ==                              \* navigate
    /\ cwd' = dir
    /\ Lists(t, task, sessionId, dir)
    /\ loading' = TRUE /\ loadFailed' = FALSE
    /\ UNCHANGED <<sessionId, mounted, listed>>

---------------------------------------------------------------------------
(* What the remote side does with a request.                                *)

\* The elements of seq that are in S, in their order.
Kept(seq, S) ==
    LET kept[i \in 0..Len(seq)] ==
            IF i = 0 THEN <<>>
            ELSE IF seq[i] \in S THEN Append(kept[i - 1], seq[i]) ELSE kept[i - 1]
    IN  kept[Len(seq)]
Exists(s, n)  == n \in remote[s].nodes
IsFile(n)     == n \notin DOMAIN Children    \* a file, or a link, which is not followed
Entries(s, n) == IF IsFile(n) THEN <<>> ELSE Kept(Children[n], remote[s].nodes)
Top           == Last(removal.pending)
\* The request removeSftpTree makes for the entry on top of its list.
Removes       == IsFile(Top.node) \/ Top.ready

\* Whether it can succeed, and what it leaves when it does.
Possible(task) ==
    CASE task.step = "rename" -> remote[task.at].temp # "none"
      [] task.step = "call" /\ task.kind = "delete" ->
            /\ Exists(task.at, Top.node)
            /\ Removes => Entries(task.at, Top.node) = <<>>
      [] OTHER -> TRUE
Applied(task) ==
    CASE task.step = "write" ->
            [remote EXCEPT ![task.at].temp =
                IF sent.chunk + 1 = Chunks THEN "full" ELSE "part"]
      [] task.step = "rename" ->
            [remote EXCEPT ![task.at].temp = "none",
                           ![task.at].final = IF remote[task.at].temp = "full"
                                              THEN "new" ELSE "part"]
      [] task.step = "cleanup" -> [remote EXCEPT ![task.at].temp = "none"]
      [] task.step = "call" /\ task.kind = "delete" /\ Removes ->
            [remote EXCEPT ![task.at].nodes = @ \ {Top.node}]
      [] OTHER -> remote

\* The request of t is answered.
Succeeds(t) ==
    /\ Turn /\ tasks[t].try \in {"first", "second"} /\ Possible(tasks[t])
    /\ remote' = Applied(tasks[t])
    /\ UNCHANGED Link
\* ... with a status: no permission, no such file, directory not empty.
Refused(t) ==
    /\ Turn /\ tasks[t].try \in {"first", "second"}
    /\ UNCHANGED <<Link, remote>>
\* ... or an error of the channel, which any request may meet: it was gone, or goes,
\* or the answer comes too late, and what was asked may have been done.
Breaks(t) ==
    /\ Turn /\ tasks[t].try \in {"first", "second"}
    /\ remote' \in {remote} \cup (IF Possible(tasks[t]) THEN {Applied(tasks[t])} ELSE {})
\* withReconnect: whether the failed request is tried again.
Retries(t) == tasks[t].try = "first" /\ tasks[t].at = sessionId /\ sessionId \notin Sudo
Lost(t) ==
    \/ Breaks(t) /\ ~Retries(t) /\ UNCHANGED <<opened, reconnect>>
    \/ tasks[t].try = "giveup" /\ UNCHANGED <<Link, remote>>
Fails(t) == Refused(t) \/ Lost(t)

(* withReconnect and reopenSftpChannel.                                     *)

Reconnects(t) ==
    /\ tasks[t].step \in Requests
    /\ Breaks(t) /\ Retries(t)
    /\ Becomes(t, [tasks[t] EXCEPT !.try = "waiting"])
    /\ reconnect' = IF reconnect = None THEN sessionId ELSE reconnect
    /\ UNCHANGED <<Panel, Viewer, opened, Upload, Delete, transfer>>

Resume(try) ==
    /\ tasks' = [t \in Slots |-> IF tasks[t] # Idle /\ tasks[t].try = "waiting"
                                 THEN [tasks[t] EXCEPT !.try = try] ELSE tasks[t]]
    /\ reconnect' = None
    /\ UNCHANGED <<Panel, Viewer, Upload, Delete, transfer, remote>>
Reopened    == Turn /\ reconnect # None /\ Resume("retry") /\ opened' = sessionId
ReopenFails == Turn /\ reconnect # None /\ Resume("giveup") /\ UNCHANGED opened

\* operation() once more: the closure reads sessionId and cwd again.
Retry(t) ==
    /\ tasks[t] # Idle /\ tasks[t].try = "retry"
    /\ Becomes(t, [tasks[t] EXCEPT !.try = "second", !.at = Where(tasks[t], tasks[t].step),
                                   !.path = IF tasks[t].step = "list" THEN cwd ELSE @])
    /\ UNCHANGED <<Panel, Viewer, Link, Upload, Delete, transfer, remote>>

---------------------------------------------------------------------------
(* Loading: the effect that follows sessionId, ensureOpen, refresh, navigate. *)

\* Another SSH tab: activateTab gives the component its session and the path it
\* remembers for it.
SwitchTab(t, s, dir) ==
    /\ Free(t) /\ s # sessionId
    /\ sessionId' = s /\ strayed' = TRUE
    /\ loading' = TRUE /\ loadFailed' = FALSE
    /\ IF opened = s
       THEN /\ cwd' = dir
            /\ Lists(t, Call("load", "list", s, dir), s, dir)
       ELSE /\ Becomes(t, IF opened = None THEN Call("load", "open", s, dir)
                          ELSE [Call("load", "close", s, dir) EXCEPT !.at = opened])
            /\ UNCHANGED cwd
    /\ UNCHANGED <<mounted, listed, previewPath, previewText, Link, Upload, Delete, transfer,
                   remote>>

\* sftp.close is answered, or fails, which nobody looks at.
LoadCloses(t) ==
    /\ Turn /\ InFlight(t, "close")
    /\ Becomes(t, Goes(tasks[t], "open"))
    /\ UNCHANGED <<Panel, Viewer, Link, Upload, Delete, transfer, remote>>

LoadOpens(t) ==
    /\ Turn /\ InFlight(t, "open")
    /\ opened' = sessionId
    /\ cwd' = tasks[t].path
    /\ Lists(t, tasks[t], sessionId, tasks[t].path)
    /\ loading' = TRUE /\ loadFailed' = FALSE
    /\ UNCHANGED <<sessionId, mounted, listed, Viewer, reconnect, Upload, Delete,
                   transfer, remote>>
LoadFails(t) ==
    /\ Turn /\ InFlight(t, "open")
    /\ loading' = FALSE /\ loadFailed' = TRUE
    /\ Ends(t)
    /\ UNCHANGED <<sessionId, mounted, cwd, listed, Viewer, Link, Upload, Delete, transfer,
                   remote>>

\* navigate; with dir = cwd also what the refresh button does.
Navigate(t, dir) ==
    /\ Free(t)
    /\ GoesTo(t, Call("list", "list", sessionId, dir), dir)
    /\ UNCHANGED <<Viewer, Link, Upload, Delete, transfer, remote>>

\* The answer to sftp.list. A late one is dropped; the function that waited for
\* refresh ends either way.
\* Mutated form of Current: no generation is compared.
CurrentAlways(t) == TRUE
Current(t) == tasks[t].fresh
ListAnswered(t) ==
    /\ tasks[t].step = "list"
    /\ \/ /\ Succeeds(t) /\ Current(t)
          /\ listed' = <<tasks[t].at, tasks[t].path>>
          /\ UNCHANGED loadFailed
       \/ /\ Fails(t) /\ Current(t)
          /\ loadFailed' = TRUE
          /\ UNCHANGED listed
       \/ /\ Succeeds(t) \/ Fails(t)
          /\ ~Current(t)
          /\ UNCHANGED <<listed, loadFailed>>
    /\ loading'  = (loading /\ ~Current(t) /\ tasks[t].kind # "load")
    /\ deleting' = (deleting /\ tasks[t].kind # "delete")
    /\ transfer' = IF tasks[t].kind = "download" THEN "none" ELSE transfer
    /\ Ends(t)
    /\ UNCHANGED <<sessionId, mounted, cwd, Viewer, Upload, target, removal>>

(* preview, followSymlink.                                                  *)

Preview(t, file) ==
    /\ Free(t)
    /\ tasks' = [u \in Slots |->
          IF u = t THEN Call("preview", "stat", sessionId, file)
          ELSE IF tasks[u] # Idle /\ tasks[u].kind = "preview"
               THEN [tasks[u] EXCEPT !.fresh = FALSE] ELSE tasks[u]]
    /\ previewPath' = file /\ previewText' = None /\ strayed' = FALSE
    /\ UNCHANGED <<Panel, Link, Upload, Delete, transfer, remote>>
PreviewSized(t) ==
    /\ tasks[t].step = "stat" /\ tasks[t].kind = "preview" /\ Succeeds(t)
    /\ Becomes(t, Goes(tasks[t], "read"))
    /\ UNCHANGED <<Panel, Viewer, Upload, Delete, transfer>>
PreviewEnds(t) ==
    /\ tasks[t].step \in {"stat", "read"} /\ tasks[t].kind = "preview"
    /\ \/ /\ Succeeds(t) /\ tasks[t].step = "read" /\ Current(t)
          /\ previewText' = <<tasks[t].at, tasks[t].path>>
       \/ /\ Succeeds(t) /\ tasks[t].step = "read" /\ ~Current(t)
          /\ UNCHANGED previewText
       \/ Fails(t) /\ UNCHANGED previewText
    /\ Ends(t)
    /\ UNCHANGED <<Panel, previewPath, strayed, Upload, Delete, transfer>>
ClosePreview ==
    /\ mounted /\ Turn /\ previewPath # None
    /\ previewPath' = None /\ previewText' = None
    /\ UNCHANGED <<Panel, strayed, Link, tasks, Upload, Delete, transfer, remote>>

FollowSymlink(t) ==
    /\ Free(t)
    /\ Becomes(t, Call("follow", "readlink", sessionId, None))
    /\ UNCHANGED <<Panel, Viewer, Link, Upload, Delete, transfer, remote>>
LinkRead(t) ==
    /\ tasks[t].step = "readlink" /\ Succeeds(t)
    /\ Becomes(t, Goes(tasks[t], "stat"))
    /\ UNCHANGED <<Panel, Viewer, Upload, Delete, transfer>>
LinkIsDir(t, dir) ==
    /\ tasks[t].step = "stat" /\ tasks[t].kind = "follow" /\ Succeeds(t)
    /\ GoesTo(t, tasks[t], dir)
    /\ UNCHANGED <<Viewer, Upload, Delete, transfer>>
FollowEnds(t) ==
    /\ tasks[t].step \in {"readlink", "stat"} /\ tasks[t].kind = "follow"
    /\ Fails(t) \/ (tasks[t].step = "stat" /\ Succeeds(t))
    /\ Ends(t)
    /\ UNCHANGED <<Panel, Viewer, Upload, Delete, transfer>>

(* createDirectory, beginRename, changeMode: a prompt, then one request.    *)

BeginEdit(t) ==
    /\ Free(t)
    /\ Becomes(t, Call("edit", "prompt", sessionId, None))
    /\ UNCHANGED <<Panel, Viewer, Link, Upload, Delete, transfer, remote>>
\* Cancelled, empty, or answered when another session is shown: nothing happens.
PromptAnswered(t) ==
    /\ Turn /\ InFlight(t, "prompt")
    /\ \/ Ends(t)
       \/ /\ tasks[t].home = sessionId
          /\ Becomes(t, Goes(tasks[t], "call"))
    /\ UNCHANGED <<Panel, Viewer, Link, Upload, Delete, transfer, remote>>
Edited(t) ==
    /\ tasks[t].step = "call" /\ tasks[t].kind = "edit" /\ Succeeds(t)
    /\ Refreshes(t, tasks[t])
    /\ UNCHANGED <<Viewer, Upload, Delete, transfer>>
EditFails(t) ==
    /\ tasks[t].step = "call" /\ tasks[t].kind = "edit" /\ Fails(t)
    /\ Ends(t)
    /\ UNCHANGED <<Panel, Viewer, Upload, Delete, transfer>>

---------------------------------------------------------------------------
(* Deleting: removeEntry, confirmRemoveEntry, removeSftpTree.               *)

NoRemoval == [pending |-> <<>>, children |-> <<>>, changed |-> FALSE]

\* An entry of the list: nothing that lies deeper.
Tops == {n \in Nodes : \A d \in DOMAIN Children : ~Contains(Children[d], n)}
RemoveEntry(n) ==
    /\ n \in Tops
    /\ mounted /\ Turn /\ ~deleting /\ listed # None
    /\ target' = [node |-> n, home |-> sessionId]
    /\ UNCHANGED <<Panel, Viewer, Link, tasks, Upload, deleting, removal, transfer, remote>>
CloseDialog ==
    /\ mounted /\ Turn /\ ~deleting /\ target # None
    /\ target' = None
    /\ UNCHANGED <<Panel, Viewer, Link, tasks, Upload, deleting, removal, transfer, remote>>

ConfirmRemove(t) ==
    /\ Free(t) /\ target # None /\ ~deleting
    /\ target.home = sessionId
    /\ deleting' = TRUE
    /\ removal' = [pending |-> <<[node |-> target.node, ready |-> FALSE]>>,
                   children |-> <<>>, changed |-> FALSE]
    /\ Becomes(t, Call("delete", "call", target.home, None))
    /\ UNCHANGED <<Panel, Viewer, Link, Upload, target, transfer, remote>>
ConfirmTooLate ==
    /\ mounted /\ Turn /\ target # None /\ ~deleting /\ target.home # sessionId
    /\ target' = None
    /\ UNCHANGED <<Panel, Viewer, Link, tasks, Upload, deleting, removal, transfer, remote>>

\* Every page of a directory is read before anything in it goes; then its children
\* go before itself.
Page(n, s) == SubSeq(Entries(s, n), Len(removal.children) + 1,
                     Min({Len(removal.children) + PageSize, Len(Entries(s, n))}))
\* Mutated form of AfterAnswer: hasMore is not looked at.
AfterFirstPage(s) ==
    LET found == removal.children \o Page(Top.node, s)
        rest  == Front(removal.pending)
    IN  IF Removes THEN [pending |-> rest, children |-> <<>>, changed |-> TRUE]
        ELSE [removal EXCEPT
                 !.pending = Append(rest, [node |-> Top.node, ready |-> TRUE])
                     \o Reverse([i \in DOMAIN found |-> [node |-> found[i], ready |-> FALSE]]),
                 !.children = <<>>]
AfterAnswer(s) ==
    LET found == removal.children \o Page(Top.node, s)
        rest  == Front(removal.pending)
        todo(c) == [node |-> c, ready |-> FALSE]
    IN  IF Removes THEN [pending |-> rest, children |-> <<>>, changed |-> TRUE]
        ELSE IF Len(found) < Len(Entries(s, Top.node))
             THEN [removal EXCEPT !.children = found]
        ELSE [removal EXCEPT
                 !.pending = Append(rest, [node |-> Top.node, ready |-> TRUE])
                             \o Reverse([i \in DOMAIN found |-> todo(found[i])]),
                 !.children = <<>>]

RemoveGoesOn(t) ==
    /\ tasks[t].step = "call" /\ tasks[t].kind = "delete" /\ Succeeds(t)
    /\ IF AfterAnswer(tasks[t].at).pending # <<>>
       THEN /\ removal' = AfterAnswer(tasks[t].at)
            /\ Becomes(t, Goes(tasks[t], "call"))
            /\ UNCHANGED <<Panel, target, deleting>>
       ELSE /\ target' = None /\ removal' = NoRemoval
            /\ IF tasks[t].home = sessionId
               THEN Refreshes(t, tasks[t]) /\ UNCHANGED deleting
               ELSE Ends(t) /\ deleting' = FALSE /\ UNCHANGED Panel
    /\ UNCHANGED <<Viewer, Upload, transfer>>
\* Mutated form of RemoveFails: deleting is only given back where the list is read again.
RemoveFailsForgetting(t) ==
    /\ tasks[t].step = "call" /\ tasks[t].kind = "delete" /\ Fails(t)
    /\ target' = None /\ removal' = NoRemoval
    /\ IF tasks[t].home = sessionId /\ removal.changed
       THEN Refreshes(t, tasks[t])
       ELSE Ends(t) /\ UNCHANGED Panel
    /\ UNCHANGED <<Viewer, Upload, transfer, deleting>>
\* The refresh after a failure is one that nobody waits for.
RemoveFails(t) ==
    /\ tasks[t].step = "call" /\ tasks[t].kind = "delete" /\ Fails(t)
    /\ target' = None /\ deleting' = FALSE /\ removal' = NoRemoval
    /\ IF tasks[t].home = sessionId /\ removal.changed
       THEN Refreshes(t, [tasks[t] EXCEPT !.kind = "list"])
       ELSE Ends(t) /\ UNCHANGED Panel
    /\ UNCHANGED <<Viewer, Upload, transfer>>

---------------------------------------------------------------------------
(* Uploading: beginUpload, ensureRemoteDir, uploadSingle.                   *)

Cancelled   == progress.cancel
NothingSent == [chunk |-> 0, wrote |-> FALSE, changed |-> FALSE]

BeginUpload(t) ==
    /\ Free(t) /\ ~uploading /\ transfer = "none" /\ ~deleting /\ ~loading
    /\ tasks[Sweeper] = Idle
    /\ uploading' = TRUE /\ dismiss' = FALSE
    /\ progress' = [phase |-> "preparing", cancel |-> FALSE, home |-> sessionId]
    /\ sent' = NothingSent
    /\ remote' = [remote EXCEPT ![sessionId].temp = "none",
                                ![sessionId].final = IF @ = "part" THEN "part" ELSE "old"]
    /\ Becomes(t, Call("upload", "prepare", sessionId, None))
    /\ UNCHANGED <<Panel, Viewer, Link, Delete, transfer>>

\* beginUpload comes to its end, and lists what it changed.
StopsWith(t, phase, changed) ==
    /\ uploading' = FALSE /\ sent' = NothingSent
    /\ progress' = [progress EXCEPT !.phase = phase]
    /\ \E timer \in {phase = "completed", FALSE} : dismiss' = timer    \* not when hovered
    /\ IF changed /\ tasks[t].home = sessionId
       THEN Refreshes(t, tasks[t])
       ELSE Ends(t) /\ UNCHANGED Panel
Stops(t, phase) == StopsWith(t, IF Cancelled THEN "cancelled" ELSE phase, sent.changed)

\* prepare() has collected the files: none, names that are refused, or a plan with
\* or without a directory.
Prepared(t) ==
    /\ Turn /\ InFlight(t, "prepare")
    /\ \/ /\ uploading' = FALSE /\ progress' = None /\ dismiss' = FALSE
          /\ Ends(t) /\ UNCHANGED <<Panel, sent>>
       \/ Stops(t, "failed")
       \/ Cancelled /\ Stops(t, "completed")
       \/ /\ ~Cancelled
          /\ progress' = [progress EXCEPT !.phase = "running"]
          /\ \E step \in {"mkdir", "write"} : Becomes(t, Goes(tasks[t], step))
          /\ UNCHANGED <<Panel, uploading, dismiss, sent>>
    /\ UNCHANGED <<Viewer, Link, Delete, transfer, remote>>

\* A directory that cannot be made may be there already.
DirMade(t) ==
    /\ tasks[t].step \in {"mkdir", "statDir"} /\ Succeeds(t)
    /\ IF Cancelled
       THEN StopsWith(t, "cancelled", TRUE)
       ELSE /\ Becomes(t, Goes(tasks[t], "write"))
            /\ sent' = [sent EXCEPT !.changed = TRUE]
            /\ UNCHANGED <<Panel, uploading, progress, dismiss>>
    /\ UNCHANGED <<Viewer, Delete, transfer>>
DirFails(t) ==
    /\ tasks[t].step = "mkdir" /\ Fails(t)
    /\ Becomes(t, Goes(tasks[t], "statDir"))
    /\ UNCHANGED <<Panel, Viewer, Upload, Delete, transfer>>
NoDir(t) ==
    /\ tasks[t].step = "statDir" /\ (Succeeds(t) \/ Fails(t))
    /\ Stops(t, "failed")
    /\ UNCHANGED <<Viewer, Delete, transfer>>

\* Mutated form of Written: a cancelled file gets its name all the same.
WrittenRegardless(t) ==
    /\ tasks[t].step = "write" /\ Succeeds(t)
    /\ sent' = [sent EXCEPT !.chunk = @ + 1, !.wrote = TRUE]
    /\ Becomes(t, Goes(tasks[t], IF sent'.chunk < Chunks /\ ~Cancelled
                                 THEN "write" ELSE "rename"))
    /\ UNCHANGED <<Panel, Viewer, uploading, progress, dismiss, Delete, transfer>>
\* Mutated form of Written: one chunk past the end of the file.
WrittenPast(t) ==
    /\ tasks[t].step = "write" /\ Succeeds(t)
    /\ sent' = [sent EXCEPT !.chunk = @ + 1, !.wrote = TRUE]
    /\ Becomes(t, Goes(tasks[t], IF Cancelled THEN "cleanup"
                                 ELSE IF sent'.chunk <= Chunks THEN "write" ELSE "rename"))
    /\ UNCHANGED <<Panel, Viewer, uploading, progress, dismiss, Delete, transfer>>
\* A chunk is written; after the last one the file gets its name.
Written(t) ==
    /\ tasks[t].step = "write" /\ Succeeds(t)
    /\ sent' = [sent EXCEPT !.chunk = @ + 1, !.wrote = TRUE]
    /\ Becomes(t, Goes(tasks[t], IF Cancelled THEN "cleanup"
                                 ELSE IF sent'.chunk < Chunks THEN "write" ELSE "rename"))
    /\ UNCHANGED <<Panel, Viewer, uploading, progress, dismiss, Delete, transfer>>
Renamed(t) ==
    /\ tasks[t].step = "rename" /\ Succeeds(t)
    /\ StopsWith(t, IF Cancelled THEN "cancelled" ELSE "completed", TRUE)
    /\ UNCHANGED <<Viewer, Delete, transfer>>
UploadFails(t) ==
    /\ tasks[t].step \in {"write", "rename"}
    /\ \/ /\ Fails(t)
          /\ Becomes(t, Goes(tasks[t], "cleanup"))
          /\ UNCHANGED <<Panel, Upload>>
       \/ /\ Refused(t) /\ ~sent.wrote              \* no permission, nothing to clean up
          /\ Stops(t, "failed")
    /\ UNCHANGED <<Viewer, Delete, transfer>>
\* No permission after something was written: told at once, cleaned up behind.
UploadDenied(t) ==
    /\ tasks[t].step \in {"write", "rename"} /\ Refused(t) /\ sent.wrote
    /\ uploading' = FALSE /\ sent' = NothingSent
    /\ progress' = [progress EXCEPT !.phase = IF Cancelled THEN "cancelled" ELSE "failed"]
    /\ LET task == Call("sweep", "cleanup", tasks[t].home, None) IN
       IF sent.changed /\ tasks[t].home = sessionId
       THEN /\ tasks' = [u \in Slots |->
                  CASE u = Sweeper -> task
                    [] u = t -> [tasks[t] EXCEPT !.step = "list", !.at = sessionId,
                                    !.path = cwd, !.try = "first", !.fresh = TRUE]
                    [] OTHER -> IF tasks[u].step = "list"
                                THEN [tasks[u] EXCEPT !.fresh = FALSE] ELSE tasks[u]]
            /\ loading' = TRUE /\ loadFailed' = FALSE
            /\ UNCHANGED <<sessionId, mounted, cwd, listed>>
       ELSE tasks' = [tasks EXCEPT ![t] = Idle, ![Sweeper] = task] /\ UNCHANGED Panel
    /\ UNCHANGED <<Viewer, dismiss, Delete, transfer>>
CleanedUp(t) ==
    /\ tasks[t].step = "cleanup" /\ tasks[t].kind = "upload" /\ (Succeeds(t) \/ Fails(t))
    /\ Stops(t, "failed")
    /\ UNCHANGED <<Viewer, Delete, transfer>>
Swept ==
    /\ tasks[Sweeper].step = "cleanup" /\ (Succeeds(Sweeper) \/ Fails(Sweeper))
    /\ Ends(Sweeper)
    /\ UNCHANGED <<Panel, Viewer, Upload, Delete, transfer>>

CancelTransfer ==
    /\ mounted /\ Turn
    /\ progress' = IF progress # None /\ progress.phase \in {"preparing", "running"}
                   THEN [progress EXCEPT !.cancel = TRUE] ELSE progress
    /\ transfer' = IF transfer = "run" THEN "cancel" ELSE transfer
    /\ <<progress', transfer'>> # <<progress, transfer>>
    /\ UNCHANGED <<Panel, Viewer, Link, tasks, uploading, dismiss, sent, Delete, remote>>
\* The cross of an upload that has ended, and the timer that waits 5 s.
ClearProgress ==
    /\ Turn /\ progress # None
    /\ dismiss \/ (mounted /\ progress.phase \notin {"preparing", "running"})
    /\ progress' = None /\ dismiss' = FALSE
    /\ UNCHANGED <<Panel, Viewer, Link, tasks, uploading, sent, Delete, transfer, remote>>

---------------------------------------------------------------------------
(* Downloading: downloadEntry, downloadFile, downloadDirectory.             *)

\* A file is measured first; for a directory the dialog comes at once.
BeginDownload(t) ==
    /\ Free(t) /\ transfer = "none" /\ ~uploading
    /\ \E step \in {"stat", "pick"} : Becomes(t, Call("download", step, sessionId, None))
    /\ UNCHANGED <<Panel, Viewer, Link, Upload, Delete, transfer, remote>>
DownloadSized(t) ==
    /\ tasks[t].step = "stat" /\ tasks[t].kind = "download" /\ Succeeds(t)
    /\ Becomes(t, Goes(tasks[t], "pick"))
    /\ UNCHANGED <<Panel, Viewer, Upload, Delete, transfer>>
Picked(t) ==
    /\ Turn /\ InFlight(t, "pick")
    /\ \/ Ends(t) /\ transfer' = "none"
       \/ Becomes(t, Goes(tasks[t], "read")) /\ transfer' = "run"
    /\ UNCHANGED <<Panel, Viewer, Link, Upload, Delete, remote>>
\* A chunk, and whether the loop looks at transfer.cancel and goes on or is done.
DownloadReads(t) ==
    /\ tasks[t].step = "read" /\ tasks[t].kind = "download" /\ Succeeds(t)
    /\ \/ /\ transfer = "cancel" /\ transfer' = "none" /\ Ends(t)
          /\ UNCHANGED Panel
       \/ /\ transfer # "cancel" /\ Becomes(t, Goes(tasks[t], "read"))
          /\ UNCHANGED <<Panel, transfer>>
       \/ /\ Refreshes(t, tasks[t])
          /\ UNCHANGED transfer
    /\ UNCHANGED <<Viewer, Upload, Delete>>
DownloadFails(t) ==
    /\ tasks[t].step \in {"stat", "read"} /\ tasks[t].kind = "download" /\ Fails(t)
    /\ transfer' = "none" /\ Ends(t)
    /\ UNCHANGED <<Panel, Viewer, Upload, Delete>>

\* The panel is closed, or the tab shown is no SSH tab: what onMount returned.
Unmount ==
    /\ mounted /\ Turn
    /\ mounted' = FALSE /\ dismiss' = FALSE
    /\ progress' = IF progress # None /\ progress.phase \in {"preparing", "running"}
                   THEN [progress EXCEPT !.cancel = TRUE] ELSE progress
    /\ transfer' = IF transfer = "run" THEN "cancel" ELSE transfer
    /\ opened' = None
    /\ UNCHANGED <<sessionId, cwd, listed, loading, loadFailed, Viewer, reconnect,
                   tasks, uploading, sent, Delete, remote>>

---------------------------------------------------------------------------

Init ==
    /\ sessionId \in Sessions /\ mounted = TRUE
    /\ cwd = Root
    /\ listed = None /\ loading = TRUE /\ loadFailed = FALSE
    /\ previewPath = None /\ previewText = None /\ strayed = FALSE
    /\ opened = None /\ reconnect = None
    /\ tasks = [t \in Slots |-> IF t = 1 THEN Call("load", "open", sessionId, Root) ELSE Idle]
    /\ uploading = FALSE /\ progress = None /\ dismiss = FALSE
    /\ sent = NothingSent
    /\ target = None /\ deleting = FALSE
    /\ removal = NoRemoval
    /\ transfer = "none"
    /\ remote = [s \in Sessions |-> [nodes |-> Nodes, temp |-> "none", final |-> "old"]]
    /\ budget \in Budgets

\* What the user begins, what else the user does, and what goes on without the user.
Begins(t, thing) ==
    \/ thing = "switch"   /\ \E s \in Sessions, dir \in Dirs : SwitchTab(t, s, dir)
    \/ thing = "list"     /\ \E dir \in Dirs : Navigate(t, dir)
    \/ thing = "preview"  /\ \E file \in Files : Preview(t, file)
    \/ thing = "follow"   /\ FollowSymlink(t)
    \/ thing = "edit"     /\ BeginEdit(t)
    \/ thing = "delete"   /\ \E n \in Nodes : RemoveEntry(n)
    \/ thing = "upload"   /\ BeginUpload(t)
    \/ thing = "download" /\ BeginDownload(t)
User ==
    \/ ClosePreview \/ CloseDialog \/ ConfirmTooLate \/ CancelTransfer \/ ClearProgress
    \/ Unmount
    \/ \E t \in Slots : ConfirmRemove(t) \/ PromptAnswered(t) \/ Picked(t)
GoesOn(t) ==
    \/ LoadCloses(t) \/ LoadOpens(t) \/ LoadFails(t) \/ ListAnswered(t)
    \/ PreviewSized(t) \/ PreviewEnds(t)
    \/ LinkRead(t) \/ FollowEnds(t)
    \/ \E dir \in Dirs : LinkIsDir(t, dir)
    \/ Edited(t) \/ EditFails(t) \/ RemoveGoesOn(t) \/ RemoveFails(t)
    \/ Prepared(t) \/ DirMade(t) \/ DirFails(t) \/ NoDir(t)
    \/ Written(t) \/ Renamed(t) \/ UploadFails(t) \/ UploadDenied(t) \/ CleanedUp(t)
    \/ DownloadSized(t) \/ DownloadReads(t) \/ DownloadFails(t)
    \/ Reconnects(t) \/ Retry(t)
Reopening == Reopened \/ ReopenFails
Answers   == (\E t \in Slots : GoesOn(t)) \/ Swept \/ Reopening

Next ==
    \/ \E thing \in Things, t \in Slots :
          /\ budget[thing] > 0 /\ budget' = [budget EXCEPT ![thing] = @ - 1]
          /\ Begins(t, thing)
    \/ /\ User \/ Answers
       /\ UNCHANGED budget

Spec == Init /\ [][Next]_vars
\* While something waits for isshd, something is answered or times out (30 s in isshd
\* and in the shell); a prompt may stay open for ever.
FairSpec == Spec /\ WF_vars(Answers /\ UNCHANGED budget)

---------------------------------------------------------------------------
(* Properties.                                                              *)

TypeOK ==
    /\ sessionId \in Sessions /\ mounted \in BOOLEAN
    /\ cwd \in Dirs
    /\ listed \in (Sessions \X Dirs) \cup {None}
    /\ loading \in BOOLEAN /\ loadFailed \in BOOLEAN
    /\ previewPath \in Files \cup {None}
    /\ previewText \in (Sessions \X Files) \cup {None} /\ strayed \in BOOLEAN
    /\ opened \in Sessions \cup {None} /\ reconnect \in Sessions \cup {None}
    /\ tasks \in [Slots -> Task]
    /\ uploading \in BOOLEAN /\ dismiss \in BOOLEAN
    /\ progress \in [phase: Phases, cancel: BOOLEAN, home: Sessions] \cup {None}
    /\ sent \in [chunk: 0..Chunks, wrote: BOOLEAN, changed: BOOLEAN]
    /\ target \in [node: Nodes, home: Sessions] \cup {None} /\ deleting \in BOOLEAN
    /\ removal \in [pending: Seq([node: Nodes, ready: BOOLEAN]), children: Seq(Nodes),
                    changed: BOOLEAN]
    /\ transfer \in {"none", "run", "cancel"}
    /\ remote \in [Sessions -> [nodes: SUBSET Nodes, temp: {"none", "part", "full"},
                                final: {"old", "part", "new"}]]
    /\ budget \in [Things -> Nat]

\* What the panel shows is what it says it shows, however tabs, directories, previews and
\* reconnects followed each other. Once nothing is under way the panel has stopped loading,
\* and the list is the one of this session and directory unless the last load has failed
\* (then the old one stays; another error, or none, may stand above it). A text is the one
\* of the file named above it, and unless the user went to another tab since that file was
\* named it was read in the session that is shown: an answer that an earlier preview is
\* still waiting for never takes its place. After a change of tab the text stays, or is
\* read where the user has gone, and nothing says whose it is.
Quiet == \A t \in Slots : tasks[t].step \in {"idle", "prompt", "pick"}
PanelShowsWhatItNames ==
    /\ (mounted /\ Quiet) => ~loading /\ (loadFailed \/ listed = <<sessionId, cwd>>)
    /\ (previewText # None /\ previewPath # None) =>
          /\ previewText[2] = previewPath
          /\ strayed \/ previewText[1] = sessionId

\* A request that changes something goes to the session the user began it in, at the
\* first try and after a reconnect; and what asks first, a prompt or a dialog, sends
\* nothing when its session is no longer the one that is shown.
Changing == {"call", "mkdir", "write", "rename", "cleanup"}
MutationsStayHome ==
    [][\A t \in Slots : tasks'[t].step \in Changing =>
          /\ tasks'[t].at = tasks'[t].home
          /\ (tasks[t].step \notin Changing /\ tasks'[t].kind \in {"edit", "delete"})
                => tasks'[t].home = sessionId]_vars

\* An upload never leaves half a file under its name, whatever is lost, repeated or
\* cancelled, and one that says it is completed has replaced it.
AtomicUpload ==
    /\ \A s \in Sessions : remote[s].final # "part"
    /\ (progress # None /\ progress.phase = "completed")
          => remote[progress.home].final = "new" /\ remote[progress.home].temp = "none"

\* A directory is asked to go only when it is empty: every page was read before the
\* first child went, and every child went before.
RemovedWhenEmpty ==
    \A t \in Slots :
        (tasks[t].step = "call" /\ tasks[t].kind = "delete" /\ Top.ready)
            => Entries(tasks[t].home, Top.node) = <<>>

\* What keeps the user from starting something else is always given back: neither an
\* upload nor a deletion nor a reconnect stays on for ever, whatever fails.
FlagsReleased == []<>(~uploading /\ ~deleting /\ reconnect = None)

=============================================================================
