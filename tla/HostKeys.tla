------------------------------ MODULE HostKeys ------------------------------
(* The confirmation of SSH host keys for agents: ssh_host_keys.rs holds the      *)
(* questions under way, sshHostKeyConfirmation.ts asks the user in the window    *)
(* and keeps the trust records, dialogs.ts shows one dialog at a time. Events,   *)
(* commands and their answers travel on their own; a question has a deadline,    *)
(* and the window may be loaded anew. What the window's own connections and the  *)
(* settings do with the records is one action each.                              *)
(* Bounds: the questions Ids; MaxChanges of records, other dialogs and reloads.  *)
EXTENDS Naturals, Sequences, SequencesExt

CONSTANTS
    Hosts, Keys, NoKey,
    Questions,          \* questions are numbered 1..Questions
    Other,              \* any other dialog of the window
    MaxChanges

ASSUME KeyAssumption ==
    /\ NoKey \notin Keys /\ Questions \in Nat /\ Other \notin 1..Questions
    /\ MaxChanges \in Nat

VARIABLES
    asked,      \* connect_profile's questions: host, key, and how the asker fares
    broker,     \* HostKeyConfirmation.pending
    events,     \* emitted, not delivered
    replaying,  \* replay_pending's copy, not emitted yet
    page,       \* which listeners the window has registered
    process,    \* handle's process for each question
    settled,    \* ids that are not handled (again)
    chain,      \* queue: the questions whose processes run one after the other
    dialogs,    \* the queue of dialogs.ts
    commands,   \* calls of ssh_host_key_confirmation_respond
    trust,      \* the records issh.trustedHostKey.*
    agreed,     \* history: the questions that the user said yes to
    taken,      \* history: the questions whose asker was told yes
    resolved,   \* history: the questions that a page loaded earlier has answered
    formed,     \* history: <<host, key>> trusted before or by the window's own connections
    changes     \* (bound)

broker_ == <<asked, broker, taken, resolved>>
window_ == <<page, settled, chain, dialogs>>
vars    == <<broker_, window_, events, replaying, process, commands, trust, agreed, formed, changes>>

Ids     == 1..Questions
Unasked == [host |-> NoKey, key |-> NoKey, state |-> "unused"]
States  == {"waiting", "granted", "refused", "expired"}
NoProcess == [step |-> "new", seen |-> NoKey, cached |-> FALSE, aborted |-> FALSE]
Ended   == [NoProcess EXCEPT !.step = "done"]
Steps   == {"new", "queued", "revealing", "asking", "responding", "rejecting", "done"}

Pending == {i \in Ids : process[i].step \notin {"new", "done"} /\ ~process[i].aborted}
\* A process whose turn has come runs before anything else happens in the window.
Turn    == chain # <<>> => process[Head(chain)].step # "queued"
Command(i, yes) == [id |-> i, yes |-> yes, mine |-> TRUE, step |-> "called"]

---------------------------------------------------------------------------
(* The bridge and the broker                                                *)

\* confirm, once the runtime has found the key of the host.
Ask(i, host, key) ==
    /\ asked[i] = Unasked /\ (i > 1 => asked[i - 1] # Unasked)
    /\ asked' = [asked EXCEPT ![i] = [host |-> host, key |-> key, state |-> "waiting"]]
    /\ broker' = broker \cup {i}
    /\ events' = Append(events, <<"request", i>>)
    /\ UNCHANGED <<taken, resolved, window_, replaying, process, commands, trust, agreed, formed,
                   changes>>

\* The deadline of connect_profile drops the question, and with it PendingConfirmation.
Expire(i) ==
    /\ asked[i].state = "waiting"
    /\ asked' = [asked EXCEPT ![i].state = "expired"]
    /\ broker' = broker \ {i}
    /\ events' = IF i \in broker THEN Append(events, <<"cancel", i>>) ELSE events
    /\ UNCHANGED <<taken, resolved, window_, replaying, process, commands, trust, agreed, formed,
                   changes>>

\* resolve removes the question under the lock, then sends to its channel. The deadline may
\* come in between (the send fails), or before the receiver wakes up. Nobody waits for the
\* answer to a command of an earlier page.
Resolve(c) ==
    /\ c.step = "called"
    /\ broker' = broker \ {c.id}
    /\ resolved' = IF c.id \in broker /\ ~c.mine THEN resolved \cup {c.id} ELSE resolved
    /\ \E sent \in BOOLEAN, state \in {"granted", "refused", "expired"} :
        /\ IF c.id \in broker THEN state \in {IF sent /\ c.yes THEN "granted" ELSE "expired",
                                              IF sent /\ ~c.yes THEN "refused" ELSE "expired"}
           ELSE ~sent /\ state = asked[c.id].state
        /\ asked' = [asked EXCEPT ![c.id].state = state]
        /\ taken' = IF sent /\ c.yes THEN taken \cup {c.id} ELSE taken
        /\ commands' = (commands \ {c}) \cup
              (IF c.mine THEN {[c EXCEPT !.step = IF sent THEN "ok" ELSE "error"]} ELSE {})
    /\ UNCHANGED <<window_, events, replaying, process, trust, agreed, formed, changes>>

\* replay_pending, one request after the other.
Replay(i) ==
    /\ i \in replaying /\ replaying' = replaying \ {i}
    /\ events' = Append(events, <<"request", i>>)
    /\ UNCHANGED <<broker_, window_, process, commands, trust, agreed, formed, changes>>

---------------------------------------------------------------------------
(* The window: its listeners, and the process of a question                 *)

Loads(from, to) == Turn /\ page = from /\ page' = to /\ UNCHANGED <<settled, chain, dialogs>>
\* onMount registers the listener for cancel first, then says that it is ready.
Listen ==
    /\ \/ Loads("loading", "cancel") /\ UNCHANGED replaying
       \/ Loads("cancel", "request") /\ UNCHANGED replaying
       \/ Loads("request", "ready") /\ replaying' = replaying \cup broker
    /\ UNCHANGED <<broker_, events, process, commands, trust, agreed, formed, changes>>

\* The end of a process: the next one of the chain may start.
Done(i) ==
    /\ process' = [process EXCEPT ![i] = Ended]
    /\ settled' = settled \cup {i}
    /\ chain' = IF chain # <<>> /\ Head(chain) = i THEN Tail(chain) ELSE chain
Responds(i, yes, step) ==
    /\ process' = [process EXCEPT ![i].step = step]
    /\ commands' = commands \cup {Command(i, yes)}
    /\ UNCHANGED <<settled, chain>>

\* Mutated form of Trusted: any record of the host will do.
TrustedHost(i) == trust[asked[i].host] # NoKey
\* trusted === request.fingerprint
Trusted(i) == trust[asked[i].host] = asked[i].key
Cached(i)  == process' = [process EXCEPT ![i] =
                  [step |-> "responding", seen |-> trust[asked[i].host], cached |-> TRUE,
                   aborted |-> FALSE]]

\* Mutated form of Handled: ids under way are handled again.
HandledTwice == settled
Handled == Pending \cup settled
Handle(i) ==
    IF i \in Handled THEN UNCHANGED <<process, chain, commands>>
    ELSE IF Trusted(i)
    THEN Cached(i) /\ commands' = commands \cup {Command(i, TRUE)} /\ UNCHANGED chain
    ELSE /\ process' = [process EXCEPT ![i] = [NoProcess EXCEPT !.step = "queued"]]
         /\ chain' = Append(chain, i)
         /\ UNCHANGED commands

\* Mutated form of Aborts: the dialog stays.
AbortsQuietly(i) ==
    /\ process' = IF i \in Pending THEN [process EXCEPT ![i].aborted = TRUE] ELSE process
    /\ settled' = settled \cup {i} /\ UNCHANGED <<chain, dialogs>>
\* cancel: the signal also closes the dialog, wherever it is in the queue.
Aborts(i) ==
    /\ settled' = settled \cup {i}
    /\ \/ \E m \in DOMAIN dialogs : dialogs[m] = i /\ dialogs' = RemoveAt(dialogs, m)
       \/ i \notin ToSet(dialogs) /\ UNCHANGED dialogs
    /\ LET asking == i \in Pending /\ process[i].step = "asking"
       IN  /\ process' = IF i \notin Pending THEN process
                         ELSE IF asking THEN [process EXCEPT ![i] = Ended]
                         ELSE [process EXCEPT ![i].aborted = TRUE]
           /\ chain' = IF asking THEN Tail(chain) ELSE chain

\* An event comes to a listener, or to none.
Deliver ==
    /\ Turn /\ events # <<>> /\ events' = Tail(events)
    /\ LET i == Head(events)[2] IN
       \/ /\ Head(events)[1] = "request"
          /\ IF page \in {"request", "ready"} THEN Handle(i) ELSE UNCHANGED <<process, chain, commands>>
          /\ UNCHANGED <<settled, dialogs>>
       \/ /\ Head(events)[1] = "cancel"
          /\ IF page # "loading" THEN Aborts(i) ELSE UNCHANGED <<process, settled, chain, dialogs>>
          /\ UNCHANGED commands
    /\ UNCHANGED <<broker_, page, replaying, trust, agreed, formed, changes>>

\* The process of the first question of the chain.
Start ==
    /\ ~Turn
    /\ LET i == Head(chain) IN
       IF process[i].aborted THEN Done(i) /\ UNCHANGED commands
       ELSE IF Trusted(i)
       THEN Cached(i) /\ commands' = commands \cup {Command(i, TRUE)} /\ UNCHANGED <<settled, chain>>
       ELSE /\ process' = [process EXCEPT ![i].step = "revealing", ![i].seen = trust[asked[i].host]]
            /\ UNCHANGED <<commands, settled, chain>>
    /\ UNCHANGED <<broker_, page, dialogs, events, replaying, trust, agreed, formed, changes>>

\* ssh_host_key_confirmation_show answers; the window may fail. The answer may be older than a
\* cancel that is on its way.
Revealed(i) ==
    /\ Turn /\ process[i].step = "revealing"
    /\ IF process[i].aborted THEN Done(i) /\ UNCHANGED <<commands, dialogs>>
       ELSE \/ Responds(i, FALSE, "rejecting") /\ UNCHANGED dialogs
            \/ /\ i \in broker \cup resolved \/ <<"cancel", i>> \in ToSet(events)
               /\ process' = [process EXCEPT ![i].step = "asking"]
               /\ dialogs' = Append(dialogs, i)
               /\ UNCHANGED <<commands, settled, chain>>
    /\ UNCHANGED <<broker_, page, events, replaying, trust, agreed, formed, changes>>

\* The user answers the dialog shown: the first of the queue.
Answer(yes) ==
    /\ Turn /\ dialogs # <<>> /\ dialogs' = Tail(dialogs)
    /\ LET d == Head(dialogs) IN
       IF d = Other THEN UNCHANGED <<process, commands, settled, chain, agreed>>
       ELSE /\ Responds(d, yes, "responding")
            /\ agreed' = IF yes THEN agreed \cup {d} ELSE agreed
    /\ UNCHANGED <<broker_, page, events, replaying, trust, formed, changes>>

\* A late response rejected by Rust must never create trust, nor one create anew a record that
\* was removed or changed while the question was open.
Saves(i, c) == /\ c.step = "ok" /\ c.yes /\ ~process[i].cached
               /\ trust[asked[i].host] = process[i].seen

\* The answer to respond. After an error it is called again, to refuse.
Responded(c) ==
    /\ Turn /\ c.mine /\ c.step \in {"ok", "error"}
    /\ LET i == c.id IN
       /\ IF c.step = "error" /\ process[i].step = "responding" /\ ~process[i].aborted
          THEN /\ process' = [process EXCEPT ![i].step = "rejecting"]
               /\ commands' = (commands \ {c}) \cup {Command(i, FALSE)}
               /\ UNCHANGED <<settled, chain>>
          ELSE commands' = commands \ {c} /\ Done(i)
       /\ trust' = IF process[i].step = "responding" /\ Saves(i, c)
                   THEN [trust EXCEPT ![asked[i].host] = asked[i].key] ELSE trust
    /\ UNCHANGED <<broker_, page, dialogs, events, replaying, agreed, formed, changes>>

---------------------------------------------------------------------------
(* The rest of the window                                                   *)

OtherDialog ==
    /\ Turn /\ Other \notin ToSet(dialogs) /\ changes < MaxChanges /\ changes' = changes + 1
    /\ dialogs' = Append(dialogs, Other)
    /\ UNCHANGED <<broker_, page, settled, chain, events, replaying, process, commands, trust,
                   agreed, formed>>

\* A connection of the window's own has been opened with a key; Settings removes a record.
RecordChanges ==
    /\ Turn /\ changes < MaxChanges /\ changes' = changes + 1
    /\ \E h \in Hosts, key \in Keys \cup {NoKey} :
        /\ trust[h] # key /\ trust' = [trust EXCEPT ![h] = key]
        /\ formed' = IF key = NoKey THEN formed ELSE formed \cup {<<h, key>>}
    /\ UNCHANGED <<broker_, window_, events, replaying, process, commands, agreed>>

\* The page goes, and its promises with it. Commands that were sent are carried out.
Reload ==
    /\ changes < MaxChanges /\ changes' = changes + 1
    /\ page' = "loading" /\ settled' = {} /\ chain' = <<>> /\ dialogs' = <<>>
    /\ process' = [i \in Ids |-> NoProcess]
    /\ commands' = {[c EXCEPT !.mine = FALSE] : c \in {c \in commands : c.step = "called"}}
    /\ UNCHANGED <<broker_, events, replaying, trust, agreed, formed>>

Init ==
    /\ asked = [i \in Ids |-> Unasked] /\ broker = {} /\ events = <<>> /\ replaying = {}
    /\ page = "loading" /\ process = [i \in Ids |-> NoProcess] /\ settled = {} /\ chain = <<>>
    /\ dialogs = <<>> /\ commands = {}
    /\ trust \in [Hosts -> Keys \cup {NoKey}]
    /\ formed = {<<h, trust[h]>> : h \in {h \in Hosts : trust[h] # NoKey}}
    /\ agreed = {} /\ taken = {} /\ resolved = {} /\ changes = 0

Next ==
    \/ \E i \in Ids, h \in Hosts, key \in Keys : Ask(i, h, key)
    \/ \E i \in Ids : Expire(i) \/ Replay(i) \/ Revealed(i)
    \/ \E c \in commands : Resolve(c) \/ Responded(c)
    \/ Listen \/ Deliver \/ Start
    \/ \E yes \in BOOLEAN : Answer(yes)
    \/ OtherDialog \/ RecordChanges \/ Reload

Spec == Init /\ [][Next]_vars

---------------------------------------------------------------------------

\* Every variable has its type, and no question is in the chain twice.
TypeOK ==
    /\ asked \in [Ids -> {Unasked} \cup [host: Hosts, key: Keys, state: States]]
    /\ {broker, replaying, settled, agreed, taken, resolved} \subseteq SUBSET Ids
    /\ events \in Seq({"request", "cancel"} \X Ids)
    /\ page \in {"loading", "cancel", "request", "ready"}
    /\ process \in [Ids -> [step: Steps, seen: Keys \cup {NoKey}, cached: BOOLEAN, aborted: BOOLEAN]]
    /\ chain \in Seq(Ids) /\ \A m, n \in 1..Len(chain) : chain[m] = chain[n] => m = n
    /\ dialogs \in Seq(Ids \cup {Other})
    /\ commands \subseteq [id: Ids, yes: BOOLEAN, mine: BOOLEAN, step: {"called", "ok", "error"}]
    /\ trust \in [Hosts -> Keys \cup {NoKey}] /\ formed \subseteq Hosts \X Keys
    /\ changes \in 0..MaxChanges

\* A key of a host that the user has confirmed, while the question still counted.
Confirmed == formed \cup {<<asked[i].host, asked[i].key>> : i \in agreed \cap taken}

\* A record of trust is never made but from a yes of the user to that key of that host, which
\* reached the asker in time (sshHostKeyConfirmation.ts 54); and an agent is connected only with
\* a key that the user has confirmed for that host, in this question or earlier.
KeysWereConfirmed ==
    /\ \A h \in Hosts : trust[h] # NoKey => <<h, trust[h]>> \in Confirmed
    /\ \A i \in Ids : asked[i].state = "granted" => <<asked[i].host, asked[i].key>> \in Confirmed

\* A dialog is not left over from a question that was given up, whatever order request, replay
\* and cancel arrive in. (One that a page loaded earlier has answered may be: README, section 5.)
DialogsAreLive ==
    \A i \in Ids \cap ToSet(dialogs) :
        i \in broker \cup resolved \/ <<"cancel", i>> \in ToSet(events)
=============================================================================
