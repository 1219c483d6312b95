---------------------------- MODULE WindowProofs ----------------------------
(* Proofs about two components of the window that share nothing: HostKeys, for   *)
(* any number of questions, hosts and keys, and any number of reloads and of     *)
(* changes of the records; and PaneLayout, for any number of sessions, splits    *)
(* and restarts.                                                                 *)
EXTENDS HostKeys, PaneLayout, SequenceTheorems, WellFoundedInduction, TLAPS

---------------------------------------------------------------------------
(* The inductive invariant. A record is made of what a command, a process and the *)
(* asker each remember of one question, so it has to say how these agree.         *)

Asked == {i \in Ids : asked[i] # Unasked}

\* Whatever is under way is about a question that was asked.
QuestionsAreKnown ==
    /\ broker \cup replaying \cup agreed \subseteq Asked
    /\ \A m \in 1..Len(events) : events[m][2] \in Asked
    /\ \A i \in Ids : process[i].step \notin {"new", "done"} => i \in Asked
    /\ \A c \in commands : c.id \in Asked

\* The first process of the chain has the dialog, if it has got that far; the others wait.
\* What is over or given up is not begun again.
ProcessesInTurn ==
    /\ \A m, n \in 1..Len(chain) : chain[m] = chain[n] => m = n
    /\ \A m \in 1..Len(chain) : /\ process[chain[m]].step \notin {"new", "done"}
                                /\ m # 1 => process[chain[m]].step = "queued"
    /\ \A i \in Ids : process[i].step \in {"revealing", "asking"} => chain # <<>> /\ chain[1] = i
    /\ \A m \in 1..Len(dialogs) : dialogs[m] # Other => process[dialogs[m]].step = "asking"
    /\ \A m, n \in 1..Len(dialogs) : dialogs[m] = dialogs[n] => m = n
    /\ \A i \in Ids : process[i].step = "done" \/ process[i].aborted => i \in settled

\* A process waits for one command of its own at most, and only while it responds.
CommandsAreOwn ==
    /\ \A c \in commands : c.mine => process[c.id].step \in {"responding", "rejecting"}
    /\ \A c, d \in commands : c.mine /\ d.mine /\ c.id = d.id => c = d

\* A yes comes from the user, or from a record; it is acknowledged when the asker has it.
AnswersAreMeant ==
    /\ \A c \in commands : c.yes => \/ c.id \in agreed
                                    \/ <<asked[c.id].host, asked[c.id].key>> \in Confirmed
    /\ \A c \in commands : c.yes /\ c.mine /\ ~process[c.id].cached => c.id \in agreed
    /\ \A c \in commands : c.yes /\ c.step = "ok" => c.id \in taken

Process  == [step: Steps, seen: Keys \cup {NoKey}, cached: BOOLEAN, aborted: BOOLEAN]
Sent     == [id: Ids, yes: BOOLEAN, mine: BOOLEAN, step: {"called", "ok", "error"}]
Question == {Unasked} \cup [host: Hosts, key: Keys, state: States]

\* The parts of TypeOK but for the order of the chain.
Typed ==
    /\ asked \in [Ids -> Question]
    /\ broker \subseteq Ids /\ replaying \subseteq Ids /\ settled \subseteq Ids
    /\ agreed \subseteq Ids /\ taken \subseteq Ids /\ resolved \subseteq Ids
    /\ events \in Seq({"request", "cancel"} \X Ids)
    /\ page \in {"loading", "cancel", "request", "ready"}
    /\ process \in [Ids -> Process]
    /\ chain \in Seq(Ids) /\ dialogs \in Seq(Ids \cup {Other})
    /\ commands \subseteq Sent
    /\ trust \in [Hosts -> Keys \cup {NoKey}] /\ formed \subseteq Hosts \X Keys
    /\ changes \in 0..MaxChanges

\* Together: what every step keeps.
IInv == /\ Typed /\ QuestionsAreKnown /\ ProcessesInTurn /\ CommandsAreOwn /\ AnswersAreMeant
        /\ KeysWereConfirmed

---------------------------------------------------------------------------
(* What a step does.                                                        *)

\* A step keeps the types; the sequences it shortens are not empty.
LEMMA TypedStep ==
    ASSUME Typed, QuestionsAreKnown, ProcessesInTurn, [Next]_vars
    PROVE  Typed'
  <1>1. /\ asked \in [Ids -> Question]
        /\ broker \subseteq Ids /\ replaying \subseteq Ids /\ settled \subseteq Ids
        /\ agreed \subseteq Ids /\ taken \subseteq Ids /\ resolved \subseteq Ids
        /\ events \in Seq({"request", "cancel"} \X Ids)
        /\ page \in {"loading", "cancel", "request", "ready"}
        /\ process \in [Ids -> Process]
        /\ chain \in Seq(Ids) /\ dialogs \in Seq(Ids \cup {Other})
        /\ commands \subseteq Sent
        /\ trust \in [Hosts -> Keys \cup {NoKey}] /\ formed \subseteq Hosts \X Keys
        /\ changes \in 0..MaxChanges
    BY DEF Typed
  <1>2. /\ Ended \in Process /\ [NoProcess EXCEPT !.step = "queued"] \in Process
        /\ \A i \in Ids, yes \in BOOLEAN : Command(i, yes) \in Sent
    BY DEF Process, Steps, Ended, NoProcess, Command, Sent
  <1>3. ASSUME NEW i \in Ids, Done(i)
        PROVE  process' \in [Ids -> Process] /\ settled' \subseteq Ids /\ chain' \in Seq(Ids)
    <2>1. process' \in [Ids -> Process] /\ settled' \subseteq Ids
      BY <1>1, <1>2, <1>3 DEF Done
    <2>2. chain' = chain \/ (chain # <<>> /\ chain' = Tail(chain))
      BY <1>3 DEF Done
    <2>3. chain # <<>> => Tail(chain) \in Seq(Ids)
      BY <1>1
    <2> QED BY <1>1, <2>1, <2>2, <2>3
  <1>4. ASSUME NEW i \in Ids, i \in Asked, Cached(i)
        PROVE  process' \in [Ids -> Process]
    BY <1>1, <1>4 DEF Cached, Process, Steps, Asked, Question
  <1>5. ASSUME NEW i \in Ids, NEW step \in Steps, process' = [process EXCEPT ![i].step = step]
        PROVE  process' \in [Ids -> Process]
    BY <1>1, <1>5 DEF Process
  <1>6. ASSUME NEW i \in Ids, NEW yes \in BOOLEAN, NEW step \in Steps, Responds(i, yes, step)
        PROVE  /\ process' \in [Ids -> Process] /\ commands' \subseteq Sent
               /\ settled' \subseteq Ids /\ chain' \in Seq(Ids)
    BY <1>1, <1>2, <1>5, <1>6 DEF Responds
  <1>10. ASSUME NEW i \in Ids, NEW host \in Hosts, NEW key \in Keys, Ask(i, host, key)
         PROVE  Typed'
    BY <1>1, <1>10 DEF Typed, Ask, Question, States, broker_, window_
  <1>11. ASSUME NEW i \in Ids, Expire(i) \/ Replay(i)
        PROVE  Typed'
    <2>1. CASE Expire(i)
      <3>1. asked' \in [Ids -> Question]
        <4>1. asked[i] # Unasked /\ asked' = [asked EXCEPT ![i].state = "expired"]
          BY <2>1 DEF Expire, Unasked
        <4> QED BY <1>1, <4>1 DEF Question, States
      <3>2. events' \in Seq({"request", "cancel"} \X Ids)
        BY <1>1, <2>1 DEF Expire
      <3> QED BY <1>1, <2>1, <3>1, <3>2 DEF Typed, Expire, window_
    <2>2. CASE Replay(i)
      BY <1>1, <2>2 DEF Typed, Replay, broker_, window_
    <2> QED BY <1>11, <2>1, <2>2
  <1>12. ASSUME NEW i \in Ids, Revealed(i)
        PROVE  Typed'
    <2>1. CASE Done(i) /\ UNCHANGED <<commands, dialogs>>
      BY <1>1, <1>3, <1>12, <2>1 DEF Typed, Revealed, broker_
    <2>2. CASE Responds(i, FALSE, "rejecting") /\ UNCHANGED dialogs
      BY <1>1, <1>6, <1>12, <2>2 DEF Typed, Revealed, broker_, Steps
    <2>3. CASE /\ process' = [process EXCEPT ![i].step = "asking"]
               /\ dialogs' = Append(dialogs, i) /\ UNCHANGED <<commands, settled, chain>>
      <3>1. process' \in [Ids -> Process]
        BY <1>5, <2>3 DEF Steps
      <3> QED BY <1>1, <1>12, <2>3, <3>1 DEF Typed, Revealed, broker_
    <2> QED BY <1>12, <2>1, <2>2, <2>3 DEF Revealed
  <1>13. ASSUME NEW c \in commands, Resolve(c)
        PROVE  Typed'
    <2>1. c \in Sent /\ asked[c.id] # Unasked
      BY <1>1 DEF QuestionsAreKnown, Asked
    <2>2. asked' \in [Ids -> Question]
      <3>1. PICK state \in States : asked' = [asked EXCEPT ![c.id].state = state]
        BY <1>13 DEF Resolve, States
      <3> QED BY <1>1, <2>1, <3>1 DEF Question, Sent
    <2>3. commands' \subseteq Sent
      <3>1. PICK step \in {"ok", "error"} :
              commands' \subseteq (commands \ {c}) \cup {[c EXCEPT !.step = step]}
        BY <1>13 DEF Resolve
      <3>2. [c EXCEPT !.step = step] \in Sent
        BY <2>1 DEF Sent
      <3> QED BY <1>1, <3>1, <3>2
    <2> QED BY <1>1, <1>13, <2>1, <2>2, <2>3 DEF Typed, Resolve, window_, Sent
  <1>14. ASSUME NEW c \in commands, Responded(c)
        PROVE  Typed'
    <2>1. c \in Sent /\ c.id \in Ids /\ asked[c.id] \in [host: Hosts, key: Keys, state: States]
      BY <1>1 DEF QuestionsAreKnown, Asked, Sent, Question
    <2>2. /\ process' \in [Ids -> Process] /\ settled' \subseteq Ids /\ chain' \in Seq(Ids)
          /\ commands' \subseteq Sent
      <3>1. CASE /\ process' = [process EXCEPT ![c.id].step = "rejecting"]
                 /\ commands' = (commands \ {c}) \cup {Command(c.id, FALSE)}
                 /\ UNCHANGED <<settled, chain>>
        BY <1>1, <1>2, <1>5, <2>1, <3>1 DEF Steps
      <3>2. CASE commands' = commands \ {c} /\ Done(c.id)
        BY <1>1, <1>3, <2>1, <3>2
      <3> QED BY <1>14, <3>1, <3>2 DEF Responded
    <2>4. trust' \in [Hosts -> Keys \cup {NoKey}]
      BY <1>1, <1>14, <2>1 DEF Responded
    <2> QED BY <1>1, <1>14, <2>2, <2>4 DEF Typed, Responded, broker_
  <1>15. CASE Listen
    BY <1>1, <1>15 DEF Typed, Listen, Loads, broker_
  <1>16. CASE Deliver
    <2> DEFINE i == Head(events)[2]
    <2>1. events # <<>> /\ events' = Tail(events)
      BY <1>16 DEF Deliver
    <2>5. /\ Head(events) = events[1] /\ 1 \in 1..Len(events)
          /\ events' \in Seq({"request", "cancel"} \X Ids)
      BY <1>1, <2>1
    <2>6. i \in Ids /\ i \in Asked
      BY <2>5 DEF QuestionsAreKnown, Asked
    <2> HIDE DEF i
    <2>2. CASE Handle(i) /\ UNCHANGED <<settled, dialogs>>
      <3>1. process' \in [Ids -> Process] /\ chain' \in Seq(Ids) /\ commands' \subseteq Sent
        <4>1. CASE Cached(i) /\ commands' = commands \cup {Command(i, TRUE)} /\ UNCHANGED chain
          BY <1>1, <1>2, <1>4, <2>6, <4>1
        <4>2. CASE /\ process' = [process EXCEPT ![i] = [NoProcess EXCEPT !.step = "queued"]]
                   /\ chain' = Append(chain, i) /\ UNCHANGED commands
          BY <1>1, <1>2, <2>6, <4>2
        <4> QED BY <1>1, <2>2, <4>1, <4>2 DEF Handle
      <3> QED BY <1>1, <1>16, <2>1, <2>2, <3>1 DEF Typed, Deliver, broker_
    <2>3. CASE Aborts(i) /\ UNCHANGED commands
      <3>1. process' \in [Ids -> Process] /\ settled' \subseteq Ids
        <4>1. [process EXCEPT ![i].aborted = TRUE] \in [Ids -> Process]
          BY <1>1, <2>6 DEF Process
        <4> QED BY <1>1, <1>2, <2>3, <2>6, <4>1 DEF Aborts
      <3>2. chain' \in Seq(Ids)
        <4>1. chain' = chain \/ (process[i].step = "asking" /\ chain' = Tail(chain))
          BY <2>3 DEF Aborts
        <4>2. process[i].step = "asking" => chain # <<>>
          BY <2>6 DEF ProcessesInTurn
        <4>3. chain # <<>> => Tail(chain) \in Seq(Ids)
          BY <1>1
        <4> QED BY <1>1, <4>1, <4>2, <4>3
      <3>3. dialogs' \in Seq(Ids \cup {Other})
        <4>1. CASE UNCHANGED dialogs
          BY <1>1, <4>1
        <4>2. ASSUME NEW m \in DOMAIN dialogs, dialogs' = RemoveAt(dialogs, m)
              PROVE  dialogs' \in Seq(Ids \cup {Other})
          <5>1. /\ m \in 1..Len(dialogs) /\ Len(dialogs) \in Nat
                /\ SubSeq(dialogs, 1, m - 1) \in Seq(Ids \cup {Other})
                /\ SubSeq(dialogs, m + 1, Len(dialogs)) \in Seq(Ids \cup {Other})
            BY <1>1
          <5> QED BY <4>2, <5>1 DEF RemoveAt
        <4> QED BY <2>3, <4>1, <4>2 DEF Aborts
      <3> QED BY <1>1, <1>16, <2>1, <2>3, <3>1, <3>2, <3>3 DEF Typed, Deliver, broker_
    <2>4. CASE UNCHANGED <<process, settled, chain, dialogs, commands>>
      BY <1>1, <1>16, <2>1, <2>4 DEF Typed, Deliver, broker_
    <2> QED BY <1>16, <2>2, <2>3, <2>4 DEF Deliver, i
  <1>17. CASE Start
    <2> DEFINE i == Head(chain)
    <2>1. i \in Ids /\ chain # <<>> /\ process[i].step = "queued"
      BY <1>1, <1>17 DEF Start, Turn
    <2>2. i \in Asked /\ trust[asked[i].host] \in Keys \cup {NoKey}
      BY <1>1, <2>1 DEF QuestionsAreKnown, Asked, Question
    <2> HIDE DEF i
    <2>3. process' \in [Ids -> Process] /\ settled' \subseteq Ids /\ chain' \in Seq(Ids)
          /\ commands' \subseteq Sent
      <3>1. CASE Done(i) /\ UNCHANGED commands
        BY <1>1, <1>3, <2>1, <3>1
      <3>2. CASE /\ Cached(i) /\ commands' = commands \cup {Command(i, TRUE)}
                 /\ UNCHANGED <<settled, chain>>
        BY <1>1, <1>2, <1>4, <2>1, <2>2, <3>2
      <3>3. CASE /\ process' = [process EXCEPT ![i].step = "revealing",
                                               ![i].seen = trust[asked[i].host]]
                 /\ UNCHANGED <<commands, settled, chain>>
        BY ZenonT(40), <1>1, <2>1, <2>2, <3>3 DEF Process, Steps
      <3> QED BY <1>17, <3>1, <3>2, <3>3 DEF Start, i
    <2> QED BY <1>1, <1>17, <2>3 DEF Typed, Start, broker_
  <1>18. ASSUME NEW yes \in BOOLEAN, Answer(yes)
        PROVE  Typed'
    <2>1. Head(dialogs) \in Ids \cup {Other} /\ dialogs' \in Seq(Ids \cup {Other})
      BY <1>1, <1>18 DEF Answer
    <2>2. /\ process' \in [Ids -> Process] /\ settled' \subseteq Ids /\ chain' \in Seq(Ids)
          /\ commands' \subseteq Sent /\ agreed' \subseteq Ids
      <3>1. CASE Head(dialogs) = Other
        BY <1>1, <1>18, <3>1 DEF Answer
      <3>2. CASE Head(dialogs) # Other
        BY <1>1, <1>6, <1>18, <2>1, <3>2 DEF Answer, Steps
      <3> QED BY <3>1, <3>2
    <2> QED BY <1>1, <1>18, <2>1, <2>2 DEF Typed, Answer, broker_
  <1>19. CASE OtherDialog \/ RecordChanges
    <2>1. CASE OtherDialog
      BY <1>1, <2>1, KeyAssumption DEF Typed, OtherDialog, broker_
    <2>2. CASE RecordChanges
      <3>1. PICK h \in Hosts, key \in Keys \cup {NoKey} :
              /\ trust' = [trust EXCEPT ![h] = key]
              /\ formed' = IF key = NoKey THEN formed ELSE formed \cup {<<h, key>>}
        BY <2>2 DEF RecordChanges
      <3> QED BY <1>1, <2>2, <3>1, KeyAssumption DEF Typed, RecordChanges, broker_, window_
    <2> QED BY <1>19, <2>1, <2>2
  <1>20. CASE Reload
    <2>1. process' \in [Ids -> Process] /\ commands' \subseteq Sent
      <3>1. NoProcess \in Process /\ \A c \in Sent : [c EXCEPT !.mine = FALSE] \in Sent
        BY DEF NoProcess, Process, Steps, Sent
      <3> QED BY <1>1, <1>20, <3>1 DEF Reload
    <2> QED BY <1>1, <1>20, <2>1, KeyAssumption DEF Typed, Reload, broker_
  <1>21. CASE UNCHANGED vars
    BY <1>1, <1>21 DEF Typed, vars, broker_, window_
  <1> QED BY <1>10, <1>11, <1>12, <1>13, <1>14, <1>15, <1>16, <1>17, <1>18, <1>19, <1>20, <1>21
          DEF Next

\* short is seq without its k-th element.
Shortened(S, seq, k, short) ==
    /\ short \in Seq(S) /\ Len(short) = Len(seq) - 1
    /\ \A m \in 1..Len(short) : short[m] = IF m < k THEN seq[m] ELSE seq[m + 1]
    /\ \A m \in 1..Len(short) : \E n \in 1..Len(seq) :
          n # k /\ n = (IF m < k THEN m ELSE m + 1) /\ short[m] = seq[n]

\* RemoveAt takes the k-th element and leaves the others in their order.
LEMMA ShortenedIs ==
    ASSUME NEW S, NEW seq \in Seq(S), NEW k \in 1..Len(seq), NEW short, short = RemoveAt(seq, k)
    PROVE  Shortened(S, seq, k, short)
  <1> DEFINE a == SubSeq(seq, 1, k - 1)
             b == SubSeq(seq, k + 1, Len(seq))
  <1>1. /\ k \in 1..Len(seq) /\ Len(seq) \in Nat
        /\ \A m \in 1..Len(seq) : seq[m] \in S
    OBVIOUS
  <1>2. a \in Seq(S) /\ Len(a) = k - 1 /\ \A m \in 1..k - 1 : a[m] = seq[m]
    <2>1. \A m \in 1..k - 1 : seq[m] \in S
      BY <1>1
    <2>2. k - 1 \in Nat /\ k - 1 \in Int /\ 1 \in Int
      BY <1>1
    <2>3. /\ a \in Seq(S) /\ Len(a) = IF 1 <= k - 1 THEN (k - 1) - 1 + 1 ELSE 0
          /\ \A m \in 1..(k - 1) - 1 + 1 : a[m] = seq[1 + m - 1]
      BY ONLY <2>1, <2>2, SubSeqProperties
    <2> QED BY <2>2, <2>3
  <1>3. /\ b \in Seq(S) /\ Len(b) = Len(seq) - k
        /\ \A m \in 1..Len(seq) - k : b[m] = seq[k + m]
    <2>1. \A m \in k + 1..Len(seq) : seq[m] \in S
      BY <1>1
    <2>2. k + 1 \in Int /\ Len(seq) \in Int /\ k <= Len(seq)
      BY <1>1
    <2>3. /\ b \in Seq(S)
          /\ Len(b) = IF k + 1 <= Len(seq) THEN Len(seq) - (k + 1) + 1 ELSE 0
          /\ \A m \in 1..Len(seq) - (k + 1) + 1 : b[m] = seq[k + 1 + m - 1]
      BY ONLY <2>1, <2>2, SubSeqProperties
    <2> QED BY <1>1, <2>2, <2>3
  <1>4. short = a \o b
    BY DEF RemoveAt
  <1> HIDE DEF a, b
  <1>5. /\ short \in Seq(S) /\ Len(short) = Len(a) + Len(b)
        /\ \A m \in 1..Len(a) + Len(b) :
              short[m] = IF m <= Len(a) THEN a[m] ELSE b[m - Len(a)]
    BY ONLY <1>2, <1>3, <1>4, ConcatProperties
  <1>6. /\ short \in Seq(S) /\ Len(short) = Len(seq) - 1
        /\ \A m \in 1..Len(short) :
               short[m] = IF m < k THEN seq[m] ELSE seq[m + 1]
    <2>1. /\ Len(a) = k - 1 /\ Len(b) = Len(seq) - k
          /\ k \in 1..Len(seq) /\ Len(seq) \in Nat
      BY <1>1, <1>2, <1>3
    <2>2. Len(short) = Len(seq) - 1
      BY <1>5, <2>1
    <2>3. ASSUME NEW m \in 1..Len(short)
          PROVE  short[m] = IF m < k THEN seq[m] ELSE seq[m + 1]
      <3>1. m \in Nat /\ m \in 1..Len(seq) - 1
        BY <2>1, <2>2
      <3>2. short[m] = IF m <= k - 1 THEN a[m] ELSE b[m - (k - 1)]
        BY ONLY <3>1, <2>1, <1>5
      <3>3. CASE m < k
        <4>1. m \in 1..k - 1 /\ m <= k - 1
          BY <3>1, <3>3, <2>1
        <4> QED BY <3>2, <3>3, <4>1, <1>2
      <3>4. CASE ~(m < k)
        <4>1. m - (k - 1) \in 1..Len(seq) - k /\ ~(m <= k - 1) /\ k + (m - (k - 1)) = m + 1
          BY <3>1, <3>4, <2>1
        <4>2. b[m - (k - 1)] = seq[k + (m - (k - 1))]
          BY ONLY <4>1, <1>3
        <4> QED BY ONLY <3>2, <3>4, <4>1, <4>2
      <3> QED BY <3>3, <3>4
    <2> QED BY <1>5, <2>2, <2>3
  <1>7. \A m \in 1..Len(short) : \E n \in 1..Len(seq) :
           n # k /\ n = (IF m < k THEN m ELSE m + 1) /\ short[m] = seq[n]
    BY ONLY <1>1, <1>6
  <1> QED BY <1>6, <1>7 DEF Shortened

\* The processes of the chain still take turns after a step, and only the one whose turn it is
\* has a dialog, wherever in the queue of dialogs a cancel takes one out.
LEMMA TurnStep ==
    ASSUME Typed, ProcessesInTurn, CommandsAreOwn, [Next]_vars
    PROVE  ProcessesInTurn'
  <1>1. /\ settled \subseteq Ids /\ process \in [Ids -> Process]
        /\ chain \in Seq(Ids) /\ dialogs \in Seq(Ids \cup {Other}) /\ Other \notin Ids
        /\ \A c \in commands : c.id \in Ids
    BY KeyAssumption DEF Typed, Sent, Ids
  <1>2. CASE UNCHANGED <<process, settled, chain, dialogs>>
    BY <1>2 DEF ProcessesInTurn
  \* A process ends: the first of the chain, or one that is not in it.
  <1>3. ASSUME NEW i \in Ids, Done(i), UNCHANGED dialogs,
               \/ process[i].step \in {"revealing", "responding", "rejecting"}
               \/ chain # <<>> /\ chain[1] = i /\ process[i].step = "queued"
        PROVE  ProcessesInTurn'
    <2>1. /\ process'[i].step = "done" /\ \A j \in Ids \ {i} : process'[j] = process[j]
          /\ settled' = settled \cup {i}
      BY <1>1, <1>3 DEF Done, Ended, NoProcess
    <2>2. CASE chain # <<>> /\ chain[1] = i
      <3>1. /\ chain' = Tail(chain) /\ Len(chain') = Len(chain) - 1 /\ Len(chain) \in Nat
            /\ \A m \in 1..Len(chain') : chain'[m] = chain[m + 1]
        BY <1>1, <1>3, <2>2 DEF Done
      <3>2. \A m \in 1..Len(chain') : chain'[m] # i
        BY <3>1, <2>2 DEF ProcessesInTurn
      <3> QED BY <1>1, <1>3, <2>1, <2>2, <3>1, <3>2 DEF ProcessesInTurn
    <2>3. CASE ~(chain # <<>> /\ chain[1] = i)
      <3>1. chain' = chain
        BY <1>1, <1>3, <2>3 DEF Done
      <3>2. \A m \in 1..Len(chain) : chain[m] # i
        BY <1>1, <1>3, <2>3 DEF ProcessesInTurn
      <3> QED BY <1>1, <1>3, <2>1, <2>3, <3>1, <3>2 DEF ProcessesInTurn
    <2> QED BY <2>2, <2>3
  \* A process that has the turn, or has just been begun, goes on.
  <1>4. ASSUME NEW i \in Ids, \A j \in Ids \ {i} : process'[j] = process[j],
               UNCHANGED <<settled, chain>>,
               process'[i].step \in {"revealing", "asking", "responding", "rejecting"},
               process'[i].aborted => process[i].aborted,
               process'[i].step \in {"revealing", "asking"} => chain # <<>> /\ chain[1] = i,
               process[i].step = "queued" => chain # <<>> /\ chain[1] = i,
               dialogs' \in Seq(Ids \cup {Other}),
               \A m \in 1..Len(dialogs') : dialogs'[m] = i => process'[i].step = "asking",
               \A m \in 1..Len(dialogs') :
                   dialogs'[m] \notin {i, Other} => process[dialogs'[m]].step = "asking",
               \A m, n \in 1..Len(dialogs') : dialogs'[m] = dialogs'[n] => m = n
        PROVE  ProcessesInTurn'
    <2>2. \A m \in 1..Len(chain) : chain[m] = i => m = 1
      BY <1>1, <1>4 DEF ProcessesInTurn
    <2>3. \A m \in 1..Len(chain') : /\ process'[chain'[m]].step \notin {"new", "done"}
                                    /\ m # 1 => process'[chain'[m]].step = "queued"
      BY <1>1, <1>4, <2>2 DEF ProcessesInTurn
    <2>4. \A j \in Ids : process'[j].step \in {"revealing", "asking"} =>
                chain' # <<>> /\ chain'[1] = j
      BY <1>1, <1>4 DEF ProcessesInTurn
    <2>5. \A m \in 1..Len(dialogs') : dialogs'[m] # Other => process'[dialogs'[m]].step = "asking"
      <3> SUFFICES ASSUME NEW m \in 1..Len(dialogs'), dialogs'[m] # Other
                   PROVE  process'[dialogs'[m]].step = "asking"
        OBVIOUS
      <3>1. dialogs'[m] \in Ids
        BY <1>4
      <3> QED BY <1>4, <3>1
    <2>6. \A j \in Ids : process'[j].step = "done" \/ process'[j].aborted => j \in settled'
      BY <1>1, <1>4 DEF ProcessesInTurn
    <2>7. /\ \A m, n \in 1..Len(chain') : chain'[m] = chain'[n] => m = n
          /\ \A m, n \in 1..Len(dialogs') : dialogs'[m] = dialogs'[n] => m = n
      BY <1>4 DEF ProcessesInTurn
    <2> QED BY <2>3, <2>4, <2>5, <2>6, <2>7 DEF ProcessesInTurn
  <1>5. ASSUME NEW i \in Ids, NEW step \in Steps, process' = [process EXCEPT ![i].step = step]
        PROVE  /\ process'[i].step = step /\ process'[i].aborted = process[i].aborted
               /\ \A j \in Ids \ {i} : process'[j] = process[j]
    BY <1>1, <1>5 DEF Process
  <1>6. \A m \in 1..Len(dialogs) : dialogs[m] \in Ids \cup {Other}
    BY <1>1
  <1>10. ASSUME NEW i \in Ids, Revealed(i)
         PROVE  ProcessesInTurn'
    <2>1. process[i].step = "revealing" /\ chain # <<>> /\ chain[1] = i
      BY <1>10 DEF Revealed, ProcessesInTurn
    <2>2. \A m \in 1..Len(dialogs) : dialogs[m] # i
      BY <1>1, <2>1 DEF ProcessesInTurn
    <2>3. CASE Done(i) /\ UNCHANGED <<commands, dialogs>>
      BY <1>3, <2>1, <2>3
    <2>4. CASE Responds(i, FALSE, "rejecting") /\ UNCHANGED dialogs
      <3>1. /\ process'[i].step = "rejecting" /\ process'[i].aborted = process[i].aborted
            /\ \A j \in Ids \ {i} : process'[j] = process[j]
        BY <1>5, <2>4 DEF Responds, Steps
      <3> QED BY <1>1, <1>4, <2>1, <2>2, <2>4, <3>1 DEF Responds, ProcessesInTurn
    <2>5. CASE /\ process' = [process EXCEPT ![i].step = "asking"]
               /\ dialogs' = Append(dialogs, i) /\ UNCHANGED <<commands, settled, chain>>
      <3>1. /\ process'[i].step = "asking" /\ process'[i].aborted = process[i].aborted
            /\ \A j \in Ids \ {i} : process'[j] = process[j]
        BY <1>5, <2>5 DEF Steps
      <3>2. /\ dialogs' \in Seq(Ids \cup {Other}) /\ Len(dialogs') = Len(dialogs) + 1
            /\ dialogs'[Len(dialogs) + 1] = i /\ Len(dialogs) \in Nat
            /\ \A m \in 1..Len(dialogs) : dialogs'[m] = dialogs[m]
        BY <1>1, <2>5
      <3>3. \A m \in 1..Len(dialogs') :
               dialogs'[m] \notin {i, Other} => process[dialogs'[m]].step = "asking"
        BY <3>2 DEF ProcessesInTurn
      <3>4. \A m, n \in 1..Len(dialogs') : dialogs'[m] = dialogs'[n] => m = n
        BY <3>2, <2>2 DEF ProcessesInTurn
      <3> QED BY <1>4, <2>1, <2>5, <3>1, <3>2, <3>3, <3>4
    <2> QED BY <1>10, <2>3, <2>4, <2>5 DEF Revealed
  <1>11. ASSUME NEW c \in commands, Responded(c)
         PROVE  ProcessesInTurn'
    <2>1. process[c.id].step \in {"responding", "rejecting"} /\ c.id \in Ids /\ UNCHANGED dialogs
      BY <1>1, <1>11 DEF Responded, CommandsAreOwn
    <2>2. CASE Done(c.id)
      BY <1>3, <2>1, <2>2
    <2>3. CASE process' = [process EXCEPT ![c.id].step = "rejecting"] /\ UNCHANGED <<settled, chain>>
      <3>1. /\ process'[c.id].step = "rejecting" /\ process'[c.id].aborted = process[c.id].aborted
            /\ \A j \in Ids \ {c.id} : process'[j] = process[j]
        BY <1>5, <2>1, <2>3 DEF Steps
      <3>2. \A m \in 1..Len(dialogs) : dialogs[m] # c.id
        BY <1>1, <2>1 DEF ProcessesInTurn
      <3> QED BY <1>1, <1>4, <2>1, <2>3, <3>1, <3>2 DEF ProcessesInTurn
    <2> QED BY <1>11, <2>2, <2>3 DEF Responded
  <1>12. ASSUME dialogs # <<>>
         PROVE  /\ Tail(dialogs) \in Seq(Ids \cup {Other}) /\ Len(Tail(dialogs)) = Len(dialogs) - 1
                /\ \A m \in 1..Len(Tail(dialogs)) : /\ Tail(dialogs)[m] = dialogs[m + 1]
                                                  /\ m + 1 \in 1..Len(dialogs)
                /\ Head(dialogs) = dialogs[1] /\ 1 \in 1..Len(dialogs)
    BY <1>1, <1>12
  <1>13. ASSUME NEW yes \in BOOLEAN, Answer(yes)
         PROVE  ProcessesInTurn'
    <2>1. dialogs # <<>> /\ dialogs' = Tail(dialogs)
      BY <1>13 DEF Answer
    <2>2. \A m, n \in 1..Len(dialogs') : dialogs'[m] = dialogs'[n] => m = n
      BY <1>12, <2>1 DEF ProcessesInTurn
    <2>3. \A m \in 1..Len(dialogs') : /\ dialogs'[m] # Head(dialogs)
                                      /\ dialogs'[m] # Other => process[dialogs'[m]].step = "asking"
      BY <1>12, <2>1 DEF ProcessesInTurn
    <2>4. CASE Head(dialogs) = Other
      BY <1>1, <1>13, <2>2, <2>3, <2>4 DEF Answer, ProcessesInTurn
    <2>5. CASE Head(dialogs) # Other
      <3> DEFINE d == Head(dialogs)
      <3>1. d \in Ids /\ process[d].step = "asking" /\ chain # <<>> /\ chain[1] = d
        BY <1>6, <1>12, <2>1, <2>5 DEF ProcessesInTurn
      <3>2. Responds(d, yes, "responding")
        BY <1>13, <2>5 DEF Answer
      <3>5. d = Head(dialogs)
        OBVIOUS
      <3> HIDE DEF d
      <3>3. /\ process'[d].step = "responding" /\ process'[d].aborted = process[d].aborted
            /\ \A j \in Ids \ {d} : process'[j] = process[j]
        BY <1>5, <3>1, <3>2 DEF Responds, Steps
      <3>4. \A m \in 1..Len(dialogs') : /\ dialogs'[m] # d
                                        /\ dialogs'[m] # Other => process[dialogs'[m]].step = "asking"
        BY ONLY <2>3, <3>5
      <3>6. \A m \in 1..Len(dialogs') :
               dialogs'[m] \notin {d, Other} => process[dialogs'[m]].step = "asking"
        BY ONLY <3>4
      <3>7. dialogs' \in Seq(Ids \cup {Other}) /\ UNCHANGED <<settled, chain>>
        BY <1>12, <2>1, <3>2 DEF Responds
      <3> QED BY <1>4, <2>2, <3>1, <3>3, <3>4, <3>6, <3>7
    <2> QED BY <2>4, <2>5
  <1>14. ASSUME NEW i \in Ids, i \notin Handled
         PROVE  /\ process[i].step = "new"
                /\ \A m \in 1..Len(chain) : chain[m] # i
                /\ \A m \in 1..Len(dialogs) : dialogs[m] # i
    <2>1. process[i].step = "new"
      BY <1>14 DEF Handled, Pending, ProcessesInTurn
    <2>2. Other # i
      BY <1>1
    <2> QED BY <2>1, <2>2 DEF ProcessesInTurn
  <1>15. ASSUME NEW i \in Ids, Cached(i)
         PROVE  /\ process'[i].step = "responding" /\ ~process'[i].aborted
                /\ \A j \in Ids \ {i} : process'[j] = process[j]
    BY <1>1, <1>15 DEF Cached
  <1>16. ASSUME NEW i \in Ids, Handle(i), UNCHANGED <<settled, dialogs>>
         PROVE  ProcessesInTurn'
    <2>1. CASE UNCHANGED <<process, chain>>
      BY <1>16, <1>2, <2>1
    <2>2. CASE i \notin Handled /\ Cached(i) /\ UNCHANGED chain
      BY <1>1, <1>4, <1>14, <1>15, <1>16, <2>2 DEF ProcessesInTurn
    <2>3. CASE /\ i \notin Handled /\ chain' = Append(chain, i)
               /\ process' = [process EXCEPT ![i] = [NoProcess EXCEPT !.step = "queued"]]
      <3>1. /\ process'[i].step = "queued" /\ ~process'[i].aborted
            /\ \A j \in Ids \ {i} : process'[j] = process[j]
        BY <1>1, <2>3 DEF NoProcess
      <3>2. /\ Len(chain') = Len(chain) + 1 /\ chain'[Len(chain) + 1] = i /\ Len(chain) \in Nat
            /\ \A m \in 1..Len(chain) : chain'[m] = chain[m] /\ chain[m] \in Ids \ {i}
        BY <1>1, <1>14, <2>3
      <3>3. \A m \in 1..Len(dialogs) : dialogs[m] # i
        BY <1>14, <2>3
      <3>4. \A m, n \in 1..Len(chain') : chain'[m] = chain'[n] => m = n
        BY <3>2 DEF ProcessesInTurn
      <3>5. \A m \in 1..Len(chain') : /\ process'[chain'[m]].step \notin {"new", "done"}
                                      /\ m # 1 => process'[chain'[m]].step = "queued"
        BY <3>1, <3>2 DEF ProcessesInTurn
      <3>6. \A j \in Ids : process'[j].step \in {"revealing", "asking"} =>
                  chain' # <<>> /\ chain'[1] = j
        <4> SUFFICES ASSUME NEW j \in Ids, process'[j].step \in {"revealing", "asking"}
                     PROVE  chain' # <<>> /\ chain'[1] = j
          OBVIOUS
        <4>1. chain # <<>> /\ chain[1] = j
          BY <3>1 DEF ProcessesInTurn
        <4>2. 1 \in 1..Len(chain)
          BY <4>1, <1>1
        <4> QED BY <1>1, <2>3, <3>2, <4>1, <4>2
      <3>7. \A m \in 1..Len(dialogs') : dialogs'[m] # Other => process'[dialogs'[m]].step = "asking"
        BY <1>6, <1>16, <3>1, <3>3 DEF ProcessesInTurn
      <3>8. \A j \in Ids : process'[j].step = "done" \/ process'[j].aborted => j \in settled'
        BY <1>16, <3>1 DEF ProcessesInTurn
      <3>9. \A m, n \in 1..Len(dialogs') : dialogs'[m] = dialogs'[n] => m = n
        BY <1>16 DEF ProcessesInTurn
      <3> QED BY <3>4, <3>5, <3>6, <3>7, <3>8, <3>9 DEF ProcessesInTurn
    <2> QED BY <1>16, <2>1, <2>2, <2>3 DEF Handle
  <1>17. ASSUME NEW i \in Ids, Aborts(i)
         PROVE  ProcessesInTurn'
    <2>1. settled' = settled \cup {i}
      BY <1>17 DEF Aborts
    <2>2. /\ dialogs' \in Seq(Ids \cup {Other})
          /\ \A m \in 1..Len(dialogs') : /\ dialogs'[m] # i
                                         /\ \E n \in 1..Len(dialogs) : dialogs'[m] = dialogs[n]
          /\ \A m, n \in 1..Len(dialogs') : dialogs'[m] = dialogs'[n] => m = n
      <3>1. CASE i \notin ToSet(dialogs) /\ UNCHANGED dialogs
        BY <1>1, <3>1 DEF ToSet, ProcessesInTurn
      <3>2. ASSUME NEW k \in DOMAIN dialogs, dialogs[k] = i, dialogs' = RemoveAt(dialogs, k)
            PROVE  /\ dialogs' \in Seq(Ids \cup {Other})
                   /\ \A m \in 1..Len(dialogs') : /\ dialogs'[m] # i
                                                  /\ \E n \in 1..Len(dialogs) : dialogs'[m] = dialogs[n]
                   /\ \A m, n \in 1..Len(dialogs') : dialogs'[m] = dialogs'[n] => m = n
        <4>1. /\ k \in 1..Len(dialogs) /\ Len(dialogs) \in Nat
              /\ \A m \in 1..Len(dialogs) : dialogs[m] \in Ids \cup {Other}
          BY <1>1
        <4>2. /\ dialogs' \in Seq(Ids \cup {Other}) /\ Len(dialogs') = Len(dialogs) - 1
              /\ \A m \in 1..Len(dialogs') : \E n \in 1..Len(dialogs) :
                    n # k /\ n = (IF m < k THEN m ELSE m + 1) /\ dialogs'[m] = dialogs[n]
          <5>1. dialogs \in Seq(Ids \cup {Other}) /\ k \in 1..Len(dialogs)
            BY <1>1, <4>1
          <5>2. dialogs' = RemoveAt(dialogs, k)
            BY <3>2
          <5>3. Shortened(Ids \cup {Other}, dialogs, k, dialogs')
            BY ONLY <5>1, <5>2, ShortenedIs
          <5> QED BY ONLY <5>3 DEF Shortened
        <4>7. \A m, n \in 1..Len(dialogs) : dialogs[m] = dialogs[n] => m = n
          BY DEF ProcessesInTurn
        <4>9. /\ \A m \in 1..Len(dialogs') : /\ dialogs'[m] # i
                                             /\ \E n \in 1..Len(dialogs) : dialogs'[m] = dialogs[n]
              /\ \A m, n \in 1..Len(dialogs') : dialogs'[m] = dialogs'[n] => m = n
          <5>1. \A m \in 1..Len(dialogs') : /\ dialogs'[m] # i
                                             /\ \E n \in 1..Len(dialogs) : dialogs'[m] = dialogs[n]
            <6> SUFFICES ASSUME NEW m \in 1..Len(dialogs')
                         PROVE  /\ dialogs'[m] # i
                                /\ \E n \in 1..Len(dialogs) : dialogs'[m] = dialogs[n]
              OBVIOUS
            <6>1. PICK n \in 1..Len(dialogs) : n # k /\ dialogs'[m] = dialogs[n]
              BY <4>2
            <6>2. dialogs[n] # dialogs[k]
              BY ONLY <4>1, <4>7, <6>1
            <6>3. dialogs[k] = i
              BY <3>2
            <6> QED BY ONLY <6>1, <6>2, <6>3
          <5>2. ASSUME NEW m \in 1..Len(dialogs'), NEW n \in 1..Len(dialogs'), dialogs'[m] = dialogs'[n]
                PROVE  m = n
            <6>1. PICK j \in 1..Len(dialogs) : j = (IF m < k THEN m ELSE m + 1) /\ dialogs'[m] = dialogs[j]
              BY <4>2
            <6>2. PICK l \in 1..Len(dialogs) : l = (IF n < k THEN n ELSE n + 1) /\ dialogs'[n] = dialogs[l]
              BY <4>2
            <6>3. j = l
              BY ONLY <4>7, <5>2, <6>1, <6>2
            <6>4. m \in Int /\ n \in Int /\ k \in Int
              BY <4>1, <4>2
            <6> QED BY ONLY <6>1, <6>2, <6>3, <6>4
          <5> QED BY <5>1, <5>2
        <4> QED BY <4>2, <4>9
      <3> QED BY <1>17, <3>1, <3>2 DEF Aborts
    <2>3. CASE i \in Pending /\ process[i].step = "asking"
      <3>1. /\ process'[i].step = "done" /\ ~process'[i].aborted /\ chain' = Tail(chain)
            /\ \A j \in Ids \ {i} : process'[j] = process[j]
        BY <1>1, <1>17, <2>3 DEF Aborts, Ended, NoProcess
      <3>2. chain # <<>> /\ chain[1] = i
        BY <2>3 DEF ProcessesInTurn
      <3>3. /\ Len(chain') = Len(chain) - 1 /\ Len(chain) \in Nat \ {0}
            /\ \A m \in 1..Len(chain') : chain'[m] = chain[m + 1] /\ chain[m + 1] \in Ids
        BY <1>1, <3>1, <3>2
      <3>4. \A m \in 1..Len(chain') : chain'[m] # i
        BY <3>2, <3>3 DEF ProcessesInTurn
      <3>5. /\ \A m, n \in 1..Len(chain') : chain'[m] = chain'[n] => m = n
            /\ \A m \in 1..Len(chain') : process'[chain'[m]].step = "queued"
        BY <3>1, <3>3, <3>4 DEF ProcessesInTurn
      <3>6. \A j \in Ids : process'[j].step \notin {"revealing", "asking"}
        BY <3>1, <3>2 DEF ProcessesInTurn
      <3>7. \A m \in 1..Len(dialogs') : dialogs'[m] # Other => process'[dialogs'[m]].step = "asking"
        BY <1>6, <2>2, <3>1 DEF ProcessesInTurn
      <3> QED BY <2>1, <2>2, <3>1, <3>5, <3>6, <3>7 DEF ProcessesInTurn
    <2>4. CASE ~(i \in Pending /\ process[i].step = "asking")
      <3>1. /\ UNCHANGED chain /\ process'[i].step = process[i].step
            /\ \A j \in Ids \ {i} : process'[j] = process[j]
        BY <1>1, <1>17, <2>4 DEF Aborts, Process
      <3>2. \A m \in 1..Len(chain) : chain[m] \in Ids
        BY <1>1
      <3>3. /\ \A m \in 1..Len(chain') : /\ process'[chain'[m]].step \notin {"new", "done"}
                                         /\ m # 1 => process'[chain'[m]].step = "queued"
            /\ \A j \in Ids : process'[j].step \in {"revealing", "asking"} =>
                     chain' # <<>> /\ chain'[1] = j
        BY <3>1, <3>2 DEF ProcessesInTurn
      <3>4. \A m \in 1..Len(dialogs') : dialogs'[m] # Other => process'[dialogs'[m]].step = "asking"
        BY <1>6, <2>2, <3>1 DEF ProcessesInTurn
      <3>5. \A m, n \in 1..Len(chain') : chain'[m] = chain'[n] => m = n
        BY <3>1 DEF ProcessesInTurn
      <3>6. \A j \in Ids : process'[j].step = "done" \/ process'[j].aborted => j \in settled'
        BY <2>1, <3>1 DEF ProcessesInTurn
      <3> QED BY <2>2, <3>3, <3>4, <3>5, <3>6 DEF ProcessesInTurn
    <2> QED BY <2>3, <2>4
  <1>18. CASE Deliver
    <2>1. Head(events)[2] \in Ids
      BY <1>18 DEF Deliver, Typed
    <2> QED BY <1>2, <1>16, <1>17, <1>18, <2>1 DEF Deliver
  <1>19. CASE Start
    <2> DEFINE i == Head(chain)
    <2>1. /\ chain # <<>> /\ i = chain[1] /\ i \in Ids /\ process[i].step = "queued"
          /\ UNCHANGED dialogs
      BY <1>1, <1>19 DEF Start, Turn
    <2>2. \/ Done(i)
          \/ Cached(i) /\ UNCHANGED <<settled, chain>>
          \/ /\ process' = [process EXCEPT ![i].step = "revealing",
                                           ![i].seen = trust[asked[i].host]]
             /\ UNCHANGED <<settled, chain>>
      BY <1>19 DEF Start
    <2> HIDE DEF i
    <2>3. \A m \in 1..Len(dialogs) : dialogs[m] # i
      BY <1>1, <2>1 DEF ProcessesInTurn
    <2>4. CASE Done(i)
      BY <1>3, <2>1, <2>4
    <2>5. CASE Cached(i) /\ UNCHANGED <<settled, chain>>
      BY <1>1, <1>4, <1>15, <2>1, <2>3, <2>5 DEF ProcessesInTurn
    <2>6. CASE /\ process' = [process EXCEPT ![i].step = "revealing",
                                             ![i].seen = trust[asked[i].host]]
               /\ UNCHANGED <<settled, chain>>
      <3>1. /\ process'[i].step = "revealing" /\ process'[i].aborted = process[i].aborted
            /\ \A j \in Ids \ {i} : process'[j] = process[j]
        BY <1>1, <2>1, <2>6 DEF Process
      <3>2. \A m \in 1..Len(chain) : m # 1 => chain[m] # i
        BY <1>1, <2>1 DEF ProcessesInTurn
      <3>3. \A m \in 1..Len(chain) : /\ process'[chain[m]].step \notin {"new", "done"}
                                     /\ m # 1 => process'[chain[m]].step = "queued"
        BY <1>1, <3>1, <3>2 DEF ProcessesInTurn
      <3>4. \A j \in Ids : process'[j].step \in {"revealing", "asking"} => chain[1] = j
        BY <2>1, <3>1 DEF ProcessesInTurn
      <3>5. \A m \in 1..Len(dialogs) : dialogs[m] # Other => process'[dialogs[m]].step = "asking"
        <4> SUFFICES ASSUME NEW m \in 1..Len(dialogs), dialogs[m] # Other
                     PROVE  process'[dialogs[m]].step = "asking"
          OBVIOUS
        <4>1. dialogs[m] \in Ids /\ process[dialogs[m]].step = "asking" /\ dialogs[m] # i
          BY <1>1, <2>1 DEF ProcessesInTurn
        <4> QED BY <3>1, <4>1
      <3>6. \A j \in Ids : process'[j].step = "done" \/ process'[j].aborted => j \in settled
        BY <3>1, <2>1 DEF ProcessesInTurn
      <3>7. chain' = chain /\ dialogs' = dialogs /\ settled' = settled
        BY <2>1, <2>6
      <3> QED BY <2>1, <3>3, <3>4, <3>5, <3>6, <3>7 DEF ProcessesInTurn
    <2> QED BY <2>2, <2>4, <2>5, <2>6
  <1>20. CASE OtherDialog
    <2>1. /\ UNCHANGED <<process, settled, chain>> /\ Len(dialogs') = Len(dialogs) + 1
          /\ dialogs'[Len(dialogs) + 1] = Other /\ Len(dialogs) \in Nat
          /\ \A m \in 1..Len(dialogs) : dialogs'[m] = dialogs[m] /\ dialogs[m] # Other
      BY <1>1, <1>20 DEF OtherDialog, ToSet
    <2> QED BY <2>1 DEF ProcessesInTurn
  <1>21. CASE Reload
    <2>1. /\ chain' = <<>> /\ dialogs' = <<>>
          /\ \A i \in Ids : process'[i].step = "new" /\ ~process'[i].aborted
      BY <1>21 DEF Reload, NoProcess
    <2> QED BY <2>1 DEF ProcessesInTurn
  <1>22. CASE \/ \E i \in Ids, h \in Hosts, key \in Keys : Ask(i, h, key)
              \/ \E i \in Ids : Expire(i) \/ Replay(i)
              \/ \E c \in commands : Resolve(c)
              \/ Listen \/ RecordChanges \/ UNCHANGED vars
    BY <1>2, <1>22 DEF Ask, Expire, Replay, Resolve, Listen, Loads, RecordChanges, vars, window_
  <1> QED BY <1>10, <1>11, <1>13, <1>18, <1>19, <1>20, <1>21, <1>22 DEF Next

\* What a step does to the process of one question, and to the commands that it sends.
Advances(i) ==
    /\ \A j \in Ids \ {i} : process'[j] = process[j]
    /\ \/ /\ commands' \subseteq commands
          /\ \A c \in commands' : c.mine /\ c.id = i => /\ process'[i].step = process[i].step
                                                       /\ process'[i].cached = process[i].cached
       \/ \E yes \in BOOLEAN :
            /\ commands' \subseteq commands \cup {Command(i, yes)}
            /\ process'[i].step \in {"responding", "rejecting"}
            /\ \A c \in commands \cap commands' : c.mine => c.id # i
            /\ yes => i \in agreed' \/ (Trusted(i) /\ process'[i].cached)

\* A step goes on with one process at most. It is never in the middle of another command when
\* it sends one, and a yes that it sends comes from the user or from a record.
LEMMA ProcessStep ==
    ASSUME Typed, QuestionsAreKnown, ProcessesInTurn, CommandsAreOwn, [Next]_vars
    PROVE  \/ UNCHANGED <<process, commands>>
           \/ UNCHANGED process /\ \E c \in commands : Resolve(c)
           \/ Reload
           \/ \E i \in Ids : i \in Asked /\ Advances(i)
  <1>1. /\ process \in [Ids -> Process] /\ \A c \in commands : c \in Sent /\ c.id \in Ids
        /\ \A c \in commands : c.mine => process[c.id].step \in {"responding", "rejecting"}
        /\ \A c, d \in commands : c.mine /\ d.mine /\ c.id = d.id => c = d
    BY DEF Typed, CommandsAreOwn, Sent
  <1>2. ASSUME NEW i \in Ids, process[i].step \notin {"responding", "rejecting"}
        PROVE  \A c \in commands : c.mine => c.id # i
    BY <1>1, <1>2
  <1>3. ASSUME NEW i \in Ids, \A c \in commands' : c \in commands /\ (c.mine => c.id # i), Done(i)
        PROVE  Advances(i)
    <2>1. \A j \in Ids \ {i} : process'[j] = process[j]
      BY <1>1, <1>3 DEF Done
    <2> QED BY <1>3, <2>1 DEF Advances
  <1>4. ASSUME NEW i \in Ids, NEW step \in {"responding", "rejecting"}, NEW yes \in BOOLEAN,
               process' = [process EXCEPT ![i].step = step],
               commands' \subseteq commands \cup {Command(i, yes)},
               \A c \in commands \cap commands' : c.mine => c.id # i, yes => i \in agreed'
        PROVE  Advances(i)
    <2>1. process'[i].step = step /\ \A j \in Ids \ {i} : process'[j] = process[j]
      BY <1>1, <1>4 DEF Process
    <2> QED BY <1>4, <2>1 DEF Advances
  <1>5. ASSUME NEW i \in Ids, process[i].step \notin {"responding", "rejecting"}, Trusted(i),
               Cached(i), commands' = commands \cup {Command(i, TRUE)}
        PROVE  Advances(i)
    <2>1. /\ process'[i].step = "responding" /\ process'[i].cached
          /\ \A j \in Ids \ {i} : process'[j] = process[j]
      BY <1>1, <1>5 DEF Cached
    <2>2. \A c \in commands \cap commands' : c.mine => c.id # i
      BY <1>2, <1>5
    <2> QED BY <1>5, <2>1, <2>2 DEF Advances
  <1>6. ASSUME NEW i \in Ids, process[i].step \notin {"responding", "rejecting"},
               UNCHANGED commands, \A j \in Ids \ {i} : process'[j] = process[j]
        PROVE  Advances(i)
    BY <1>2, <1>6 DEF Advances
  <1>10. ASSUME NEW i \in Ids, Revealed(i)
         PROVE  i \in Asked /\ Advances(i)
    <2>1. process[i].step = "revealing" /\ i \in Asked
      BY <1>10 DEF Revealed, QuestionsAreKnown
    <2>2. CASE Done(i) /\ UNCHANGED commands
      BY <1>2, <1>3, <2>1, <2>2
    <2>3. CASE Responds(i, FALSE, "rejecting")
      BY <1>2, <1>4, <2>1, <2>3 DEF Responds
    <2>4. CASE process' = [process EXCEPT ![i].step = "asking"] /\ UNCHANGED commands
      BY <1>1, <1>6, <2>1, <2>4
    <2> QED BY <1>10, <2>1, <2>2, <2>3, <2>4 DEF Revealed
  <1>11. ASSUME NEW c \in commands, Responded(c)
         PROVE  c.id \in Asked /\ Advances(c.id)
    <2>1. c.id \in Asked /\ c.id \in Ids /\ c.mine /\ c.step # "called"
      BY <1>1, <1>11 DEF Responded, QuestionsAreKnown
    <2>2. CASE commands' = commands \ {c} /\ Done(c.id)
      <3>1. \A d \in commands' : d \in commands /\ (d.mine => d.id # c.id)
        BY <1>1, <2>1, <2>2
      <3> QED BY <1>3, <2>1, <2>2, <3>1
    <2>3. CASE /\ process' = [process EXCEPT ![c.id].step = "rejecting"]
               /\ commands' = (commands \ {c}) \cup {Command(c.id, FALSE)}
      <3>1. Command(c.id, FALSE) # c
        BY <2>1 DEF Command
      <3>2. \A d \in commands \cap commands' : d.mine => d.id # c.id
        BY <1>1, <2>1, <2>3, <3>1
      <3>3. commands' \subseteq commands \cup {Command(c.id, FALSE)}
        BY <2>3
      <3> QED BY <1>4, <2>1, <2>3, <3>2, <3>3
    <2> QED BY <1>11, <2>1, <2>2, <2>3 DEF Responded
  <1>12. ASSUME NEW yes \in BOOLEAN, Answer(yes)
         PROVE  \/ UNCHANGED <<process, commands>>
                \/ \E i \in Ids : i \in Asked /\ Advances(i)
    <2>1. CASE Head(dialogs) = Other
      BY <1>12, <2>1 DEF Answer
    <2>2. CASE Head(dialogs) # Other
      <3>1. PICK i : /\ i = Head(dialogs) /\ Responds(i, yes, "responding")
                     /\ yes => i \in agreed'
        BY <1>12, <2>2 DEF Answer
      <3>2. dialogs[1] = i /\ 1 \in 1..Len(dialogs) /\ dialogs[1] \in Ids \cup {Other}
        BY <1>12, <3>1 DEF Answer, Typed
      <3>3. i \in Ids /\ process[i].step = "asking"
        BY <2>2, <3>1, <3>2 DEF ProcessesInTurn
      <3>4. i \in Asked
        BY <3>3 DEF QuestionsAreKnown
      <3>5. Advances(i)
        BY <1>2, <1>4, <3>1, <3>3 DEF Responds
      <3> QED BY <3>3, <3>4, <3>5
    <2> QED BY <2>1, <2>2
  <1>13. ASSUME Deliver
         PROVE  \/ UNCHANGED <<process, commands>>
                \/ \E i \in Ids : i \in Asked /\ Advances(i)
    <2>1. PICK i : /\ i = Head(events)[2] /\ events # <<>>
                   /\ \/ UNCHANGED <<process, commands>> \/ Handle(i)
                      \/ Aborts(i) /\ UNCHANGED commands
      BY <1>13 DEF Deliver
    <2>2. Head(events) = events[1] /\ 1 \in 1..Len(events) /\ events[1][2] \in Ids
      BY <2>1 DEF Typed
    <2>3. i \in Ids /\ i \in Asked
      BY <2>1, <2>2 DEF QuestionsAreKnown
    <2>4. CASE Handle(i)
      <3>1. CASE i \in Handled
        BY <2>4, <3>1 DEF Handle
      <3>2. CASE i \notin Handled
        <4>1. process[i].step = "new"
          BY <2>3, <3>2 DEF Handled, Pending, ProcessesInTurn
        <4>2. CASE Trusted(i)
          BY <1>5, <2>3, <2>4, <3>2, <4>1, <4>2 DEF Handle
        <4>3. CASE ~Trusted(i)
          <5>1. (\A j \in Ids \ {i} : process'[j] = process[j]) /\ UNCHANGED commands
            BY <1>1, <2>3, <2>4, <3>2, <4>3 DEF Handle
          <5> QED BY <1>6, <2>3, <4>1, <5>1
        <4> QED BY <4>2, <4>3
      <3> QED BY <3>1, <3>2
    <2>5. CASE Aborts(i) /\ UNCHANGED commands
      <3>1. CASE process' = process
        BY <2>5, <3>1
      <3>2. CASE process[i].step = "asking" /\ process' = [process EXCEPT ![i] = Ended]
        BY <1>1, <1>6, <2>3, <2>5, <3>2
      <3>3. CASE process' = [process EXCEPT ![i].aborted = TRUE]
        <4>1. /\ process'[i].step = process[i].step /\ process'[i].cached = process[i].cached
              /\ \A j \in Ids \ {i} : process'[j] = process[j]
          BY <1>1, <2>3, <3>3 DEF Process
        <4> QED BY <2>3, <2>5, <4>1 DEF Advances
      <3> QED BY <2>5, <3>1, <3>2, <3>3 DEF Aborts
    <2> QED BY <2>1, <2>4, <2>5
  <1>14. ASSUME Start
         PROVE  \E i \in Ids : i \in Asked /\ Advances(i)
    <2>1. PICK i : i = Head(chain) /\ chain # <<>> /\ process[i].step = "queued"
      BY <1>14 DEF Start, Turn
    <2>2. i \in Ids
      BY <2>1 DEF Typed
    <2>3. i \in Asked
      BY <2>1, <2>2 DEF QuestionsAreKnown
    <2>4. \/ Done(i) /\ UNCHANGED commands
          \/ Trusted(i) /\ Cached(i) /\ commands' = commands \cup {Command(i, TRUE)}
          \/ /\ process' = [process EXCEPT ![i].step = "revealing",
                                           ![i].seen = trust[asked[i].host]]
             /\ UNCHANGED commands
      BY <1>14, <2>1 DEF Start
    <2>5. CASE Done(i) /\ UNCHANGED commands
      BY <1>2, <1>3, <2>1, <2>2, <2>3, <2>5
    <2>6. CASE Trusted(i) /\ Cached(i) /\ commands' = commands \cup {Command(i, TRUE)}
      BY <1>5, <2>1, <2>2, <2>3, <2>6
    <2>7. CASE /\ process' = [process EXCEPT ![i].step = "revealing",
                                             ![i].seen = trust[asked[i].host]]
               /\ UNCHANGED commands
      <3>1. \A j \in Ids \ {i} : process'[j] = process[j]
        BY <1>1, <2>2, <2>7
      <3> QED BY <1>6, <2>1, <2>2, <2>3, <2>7, <3>1
    <2> QED BY <2>4, <2>5, <2>6, <2>7
  <1>15. CASE \/ \E i \in Ids, h \in Hosts, key \in Keys : Ask(i, h, key)
              \/ \E i \in Ids : Expire(i) \/ Replay(i)
              \/ Listen \/ OtherDialog \/ RecordChanges \/ UNCHANGED vars
    BY <1>15 DEF Ask, Expire, Replay, Listen, OtherDialog, RecordChanges, vars
  <1>16. ASSUME NEW c \in commands, Resolve(c)
         PROVE  UNCHANGED process
    BY <1>16 DEF Resolve
  <1> QED BY <1>1, <1>10, <1>11, <1>12, <1>13, <1>14, <1>15, <1>16 DEF Next

\* What was confirmed stays confirmed, and a record or an asker's yes is new only for a key that
\* the user confirmed.
LEMMA AnswersStep ==
    ASSUME Typed, QuestionsAreKnown, ProcessesInTurn, CommandsAreOwn, AnswersAreMeant,
           KeysWereConfirmed, [Next]_vars
    PROVE  QuestionsAreKnown' /\ CommandsAreOwn' /\ AnswersAreMeant' /\ KeysWereConfirmed'
  <1>1. /\ asked \in [Ids -> Question] /\ \A c \in commands : c \in Sent /\ c.id \in Ids
        /\ \A i \in Ids : i \in Asked =>
               asked[i] \in [host: Hosts, key: Keys, state: States] /\ asked[i].key # NoKey
    BY KeyAssumption DEF Typed, Asked, Question, Sent
  \* Actions that do not touch the questions.
  <1>2. \/ \E i \in Ids, h \in Hosts, key \in Keys : Ask(i, h, key)
        \/ \E i \in Ids : Expire(i)
        \/ \E c \in commands : Resolve(c)
        \/ UNCHANGED <<asked, broker, taken>>
    BY DEF Next, vars, Replay, Revealed, Responded, Listen, Deliver, Start, Answer, OtherDialog,
           RecordChanges, Reload, broker_
  \* A question that was asked stays asked, of the same key of the same host.
  <1>3. \A i \in Asked : /\ i \in Asked'
                         /\ asked'[i].host = asked[i].host /\ asked'[i].key = asked[i].key
    <2>1. ASSUME NEW i \in Ids, NEW state \in States, asked' = [asked EXCEPT ![i].state = state],
                 NEW j \in Asked
          PROVE  asked'[j] # Unasked /\ asked'[j].host = asked[j].host /\ asked'[j].key = asked[j].key
      <3>1. j \in Ids /\ asked[j].key # NoKey /\ asked[j] \in [host: Hosts, key: Keys, state: States]
        BY <1>1 DEF Asked
      <3>2. asked'[j].host = asked[j].host /\ asked'[j].key = asked[j].key
        BY <1>1, <2>1, <3>1
      <3>3. Unasked.key = NoKey
        BY DEF Unasked
      <3> QED BY <3>1, <3>2, <3>3
    <2>2. ASSUME NEW i \in Ids, NEW h \in Hosts, NEW key \in Keys, Ask(i, h, key), NEW j \in Asked
          PROVE  asked'[j] = asked[j] /\ asked[j] # Unasked
      BY <1>1, <2>2 DEF Ask, Asked
    <2>3. ASSUME NEW i \in Ids, Expire(i)
          PROVE  \E state \in States : asked' = [asked EXCEPT ![i].state = state]
      BY <2>3 DEF Expire, States
    <2>4. ASSUME NEW c \in commands, Resolve(c)
          PROVE  \E state \in States : asked' = [asked EXCEPT ![c.id].state = state]
      BY <2>4 DEF Resolve, States
    <2>5. ASSUME NEW j \in Asked
          PROVE  asked'[j] # Unasked /\ asked'[j].host = asked[j].host /\ asked'[j].key = asked[j].key
      <3>1. asked[j] # Unasked
        BY DEF Asked
      <3> QED BY <1>1, <1>2, <2>1, <2>2, <2>3, <2>4, <3>1
    <2> QED BY <2>5 DEF Asked
  <1>4. formed \subseteq formed' /\ agreed \subseteq agreed' /\ taken \subseteq taken'
    BY DEF Next, vars, Ask, Expire, Resolve, Replay, Revealed, Responded, Listen, Deliver, Start,
           Answer, OtherDialog, RecordChanges, Reload, broker_
  <1>5. Confirmed \subseteq Confirmed'
    BY <1>3, <1>4 DEF Confirmed, QuestionsAreKnown
  <1>6. ASSUME NEW c \in commands, Resolve(c)
        PROVE  \E step \in {"ok", "error"} :
                   /\ commands' \subseteq (commands \ {c}) \cup
                                          (IF c.mine THEN {[c EXCEPT !.step = step]} ELSE {})
                   /\ step = "ok" /\ c.yes => c.id \in taken'
    BY <1>6 DEF Resolve
  <1>7. ASSUME Reload, NEW c \in commands'
        PROVE  ~c.mine /\ c.step = "called" /\ \E d \in commands : d.id = c.id /\ d.yes = c.yes
    <2>1. PICK d \in commands : c = [d EXCEPT !.mine = FALSE] /\ d.step = "called"
      BY <1>7 DEF Reload
    <2> QED BY <1>1, <2>1 DEF Sent
  <1>8. \A c \in commands' :
           \/ \E d \in commands : d.id = c.id
           \/ c.id \in Asked
    <2>1. CASE UNCHANGED commands
      BY <2>1
    <2>2. ASSUME NEW c \in commands, Resolve(c), NEW e \in commands'
          PROVE  \E d \in commands : d.id = e.id
      <3>1. PICK step \in {"ok", "error"} : e \in commands \/ e = [c EXCEPT !.step = step]
        BY <1>6, <2>2
      <3> QED BY <1>1, <3>1 DEF Sent
    <2>3. ASSUME NEW i \in Ids, i \in Asked, Advances(i), NEW e \in commands'
          PROVE  e \in commands \/ e.id = i
      BY <2>3 DEF Advances, Command
    <2> QED BY <1>7, <2>1, <2>2, <2>3, ProcessStep
  <1>9. \A i \in Ids : process'[i].step \notin {"new", "done"} =>
                           process'[i] = process[i] \/ i \in Asked
    <2>1. CASE UNCHANGED process
      BY <2>1
    <2>2. CASE Reload
      BY <2>2 DEF Reload, NoProcess
    <2>3. ASSUME NEW i \in Ids, i \in Asked, Advances(i)
          PROVE  \A j \in Ids : process'[j] = process[j] \/ j \in Asked
      BY <2>3 DEF Advances
    <2> QED BY <2>1, <2>2, <2>3, ProcessStep
  <1>10. QuestionsAreKnown'
    <2>1. broker' \cup replaying' \cup agreed' \subseteq Asked'
      <3>1. ASSUME NEW i \in Ids, NEW h \in Hosts, NEW key \in Keys, Ask(i, h, key)
            PROVE  i \in Asked'
        <4>1. asked'[i].key = key /\ Unasked.key = NoKey /\ key # NoKey
          BY <1>1, <3>1, KeyAssumption DEF Ask, Unasked
        <4> QED BY <4>1 DEF Asked
      <3>2. broker' \subseteq Asked'
        <4>1. ASSUME NEW i \in Ids, NEW h \in Hosts, NEW key \in Keys, Ask(i, h, key)
              PROVE  broker' = broker \cup {i}
          BY <4>1 DEF Ask
        <4>2. (\E i \in Ids : Expire(i)) \/ (\E c \in commands : Resolve(c)) =>
                    broker' \subseteq broker
          BY DEF Expire, Resolve
        <4> QED BY <1>2, <1>3, <3>1, <4>1, <4>2 DEF QuestionsAreKnown
      <3>3. replaying' \subseteq replaying \cup broker
        BY DEF Next, vars, Ask, Expire, Resolve, Replay, Revealed, Responded, Listen, Deliver,
               Start, Answer, OtherDialog, RecordChanges, Reload
      <3>4. ASSUME NEW yes \in BOOLEAN, Answer(yes)
            PROVE  agreed' \subseteq agreed \cup Asked
        <4>1. CASE Head(dialogs) = Other
          BY <3>4, <4>1 DEF Answer
        <4>2. CASE Head(dialogs) # Other
          <5>1. dialogs[1] = Head(dialogs) /\ 1 \in 1..Len(dialogs) /\ dialogs[1] \in Ids \cup {Other}
            BY <3>4 DEF Answer, Typed
          <5>2. dialogs[1] \in Ids /\ process[dialogs[1]].step = "asking"
            BY <4>2, <5>1 DEF ProcessesInTurn
          <5>3. Head(dialogs) \in Asked
            BY <5>1, <5>2 DEF QuestionsAreKnown
          <5> QED BY <3>4, <4>2, <5>3 DEF Answer
        <4> QED BY <4>1, <4>2
      <3>5. (\E yes \in BOOLEAN : Answer(yes)) \/ UNCHANGED agreed
        BY DEF Next, vars, Ask, Expire, Resolve, Replay, Revealed, Responded, Listen, Deliver,
               Start, OtherDialog, RecordChanges, Reload
      <3> QED BY <1>3, <3>2, <3>3, <3>4, <3>5 DEF QuestionsAreKnown
    <2>2. \A m \in 1..Len(events') : events'[m][2] \in Asked'
      <3>1. /\ events \in Seq({"request", "cancel"} \X Ids)
            /\ \A m \in 1..Len(events) : events[m][2] \in Asked
        BY DEF Typed, QuestionsAreKnown
      <3>2. ASSUME NEW word, NEW i \in Asked', events' = Append(events, <<word, i>>)
            PROVE  \A m \in 1..Len(events') : events'[m][2] \in Asked'
        <4>1. /\ Len(events') = Len(events) + 1 /\ Len(events) \in Nat
              /\ events'[Len(events) + 1] = <<word, i>>
              /\ \A m \in 1..Len(events) : events'[m] = events[m]
          BY <3>1, <3>2
        <4> QED BY <1>3, <3>1, <3>2, <4>1
      <3>3. ASSUME events # <<>>, events' = Tail(events)
            PROVE  \A m \in 1..Len(events') : events'[m][2] \in Asked'
        <4>1. /\ Len(events') = Len(events) - 1 /\ Len(events) \in Nat
              /\ \A m \in 1..Len(events') : events'[m] = events[m + 1]
          BY <3>1, <3>3
        <4> QED BY <1>3, <3>1, <4>1
      <3>4. ASSUME UNCHANGED events
            PROVE  \A m \in 1..Len(events') : events'[m][2] \in Asked'
        BY <1>3, <3>1, <3>4
      <3>5. ASSUME NEW i \in Ids, NEW h \in Hosts, NEW key \in Keys, Ask(i, h, key)
            PROVE  i \in Asked' /\ events' = Append(events, <<"request", i>>)
        <4>1. asked'[i].key = key /\ Unasked.key = NoKey /\ key # NoKey
          BY <1>1, <3>5, KeyAssumption DEF Ask, Unasked
        <4> QED BY <3>5, <4>1 DEF Ask, Asked
      <3>6. ASSUME NEW i \in Ids, Expire(i)
            PROVE  i \in Asked' /\ (UNCHANGED events \/ events' = Append(events, <<"cancel", i>>))
        <4>1. asked[i] # Unasked
          BY <3>6 DEF Expire, Unasked
        <4> QED BY <1>3, <3>6, <4>1 DEF Expire, Asked
      <3>7. ASSUME NEW i \in Ids, Replay(i)
            PROVE  i \in Asked' /\ events' = Append(events, <<"request", i>>)
        BY <1>3, <3>7 DEF Replay, QuestionsAreKnown
      <3>8. CASE Deliver
        BY <3>3, <3>8 DEF Deliver
      <3>9. CASE \/ \E i \in Ids : Revealed(i)
                 \/ \E c \in commands : Resolve(c) \/ Responded(c)
                 \/ \E yes \in BOOLEAN : Answer(yes)
                 \/ Listen \/ Start \/ OtherDialog \/ RecordChanges \/ Reload \/ UNCHANGED vars
        BY <3>4, <3>9 DEF Revealed, Resolve, Responded, Answer, Listen, Start, OtherDialog,
                          RecordChanges, Reload, vars
      <3> QED BY <3>2, <3>4, <3>5, <3>6, <3>7, <3>8, <3>9 DEF Next
    <2>3. \A i \in Ids : process'[i].step \notin {"new", "done"} => i \in Asked'
      BY <1>3, <1>9 DEF QuestionsAreKnown
    <2>4. \A c \in commands' : c.id \in Asked'
      BY <1>3, <1>8 DEF QuestionsAreKnown
    <2> QED BY <2>1, <2>2, <2>3, <2>4 DEF QuestionsAreKnown
  <1>11. CommandsAreOwn'
    <2>1. CASE UNCHANGED <<process, commands>>
      BY <2>1 DEF CommandsAreOwn
    <2>2. ASSUME UNCHANGED process, NEW c \in commands, Resolve(c)
          PROVE  CommandsAreOwn'
      <3>1. PICK step \in {"ok", "error"} :
                commands' \subseteq (commands \ {c}) \cup
                                    (IF c.mine THEN {[c EXCEPT !.step = step]} ELSE {})
        BY <1>6, <2>2
      <3> DEFINE answered == [c EXCEPT !.step = step]
      <3>2. answered.id = c.id /\ answered.mine = c.mine
        BY <1>1 DEF Sent
      <3>3. \A d \in commands' : d \in commands \ {c} \/ (c.mine /\ d = answered)
        BY <3>1
      <3> HIDE DEF answered
      <3> QED BY <2>2, <3>2, <3>3 DEF CommandsAreOwn
    <2>3. CASE Reload
      BY <1>7, <2>3 DEF CommandsAreOwn
    <2>4. ASSUME NEW i \in Ids, i \in Asked, Advances(i)
          PROVE  CommandsAreOwn'
      <3>1. CASE /\ commands' \subseteq commands
                 /\ \A c \in commands' : c.mine /\ c.id = i => process'[i].step = process[i].step
        BY <1>1, <2>4, <3>1 DEF CommandsAreOwn, Advances
      <3>2. ASSUME NEW yes \in BOOLEAN, commands' \subseteq commands \cup {Command(i, yes)},
                   process'[i].step \in {"responding", "rejecting"},
                   \A c \in commands \cap commands' : c.mine => c.id # i
            PROVE  CommandsAreOwn'
        <4>1. Command(i, yes).id = i
          BY DEF Command
        <4>2. \A c \in commands' : c = Command(i, yes) \/ (c \in commands /\ (c.mine => c.id # i))
          BY <3>2
        <4>3. \A j \in Ids \ {i} : process'[j] = process[j]
          BY <2>4 DEF Advances
        <4> QED BY <1>1, <3>2, <4>1, <4>2, <4>3 DEF CommandsAreOwn
      <3> QED BY <2>4, <3>1, <3>2 DEF Advances
    <2> QED BY <2>1, <2>2, <2>3, <2>4, ProcessStep
  \* Where a yes comes from: an earlier state, the user, or a record.
  <1>12. \A c \in commands' : c.yes =>
             \/ \E d \in commands :
                  /\ d.id = c.id /\ d.yes /\ (c.mine => d.mine)
                  /\ c.mine => process'[c.id].cached = process[c.id].cached
                  /\ c.step = "ok" => d.step = "ok" \/ c.id \in taken'
             \/ /\ c.id \in Asked /\ c.step # "ok"
                /\ c.id \in agreed' \/ (Trusted(c.id) /\ process'[c.id].cached)
    <2>1. CASE UNCHANGED <<process, commands>>
      BY <2>1
    <2>2. ASSUME UNCHANGED process, NEW c \in commands, Resolve(c), NEW e \in commands', e.yes
          PROVE  \E d \in commands :
                  /\ d.id = e.id /\ d.yes /\ (e.mine => d.mine)
                  /\ e.mine => process'[e.id].cached = process[e.id].cached
                  /\ e.step = "ok" => d.step = "ok" \/ e.id \in taken'
      <3>1. CASE e \in commands
        BY <2>2, <3>1
      <3>2. CASE e \notin commands
        <4>1. PICK step \in {"ok", "error"} :
                 e = [c EXCEPT !.step = step] /\ (step = "ok" /\ c.yes => c.id \in taken')
          BY <1>6, <2>2, <3>2
        <4>2. e.id = c.id /\ e.mine = c.mine /\ e.yes = c.yes /\ e.step = step
          BY <1>1, <4>1 DEF Sent
        <4>3. c.yes /\ (e.step = "ok" => e.id \in taken')
          BY <2>2, <4>1, <4>2
        <4> QED BY <2>2, <4>2, <4>3
      <3> QED BY <3>1, <3>2
    <2>3. CASE Reload
      BY <1>7, <2>3
    <2>4. ASSUME NEW i \in Ids, i \in Asked, Advances(i), NEW e \in commands', e.yes
          PROVE  \/ \E d \in commands :
                      /\ d.id = e.id /\ d.yes /\ (e.mine => d.mine)
                      /\ e.mine => process'[e.id].cached = process[e.id].cached
                      /\ e.step = "ok" => d.step = "ok" \/ e.id \in taken'
                 \/ /\ e.id \in Asked /\ e.step # "ok"
                    /\ e.id \in agreed' \/ (Trusted(e.id) /\ process'[e.id].cached)
      <3>1. \A j \in Ids \ {i} : process'[j] = process[j]
        BY <2>4 DEF Advances
      <3>2. CASE e \in commands /\ (e.mine /\ e.id = i => process'[i].cached = process[i].cached)
        BY <1>1, <2>4, <3>1, <3>2
      <3>3. ASSUME NEW yes \in BOOLEAN, e = Command(i, yes),
                   yes => i \in agreed' \/ (Trusted(i) /\ process'[i].cached)
            PROVE  /\ e.id \in Asked /\ e.step # "ok"
                   /\ e.id \in agreed' \/ (Trusted(e.id) /\ process'[e.id].cached)
        <4>1. e.id = i /\ e.yes = yes /\ e.step = "called"
          BY <3>3 DEF Command
        <4> QED BY <2>4, <3>3, <4>1
      <3> QED BY <2>4, <3>2, <3>3 DEF Advances
    <2> QED BY <2>1, <2>2, <2>3, <2>4, ProcessStep
  <1>13. AnswersAreMeant'
    <2>1. ASSUME NEW c \in commands', c.yes
          PROVE  /\ c.id \in agreed' \/ <<asked'[c.id].host, asked'[c.id].key>> \in Confirmed'
                 /\ c.mine /\ ~process'[c.id].cached => c.id \in agreed'
                 /\ c.step = "ok" => c.id \in taken'
      <3>1. ASSUME NEW d \in commands, d.id = c.id, d.yes, c.mine => d.mine,
                   c.mine => process'[c.id].cached = process[c.id].cached,
                   c.step = "ok" => d.step = "ok" \/ c.id \in taken'
            PROVE  /\ c.id \in agreed' \/ <<asked'[c.id].host, asked'[c.id].key>> \in Confirmed'
                   /\ c.mine /\ ~process'[c.id].cached => c.id \in agreed'
                   /\ c.step = "ok" => c.id \in taken'
        <4>1. asked'[c.id].host = asked[c.id].host /\ asked'[c.id].key = asked[c.id].key
          BY <1>3, <3>1 DEF QuestionsAreKnown
        <4> QED BY <1>4, <1>5, <3>1, <4>1 DEF AnswersAreMeant
      <3>2. ASSUME c.id \in Asked, c.step # "ok",
                   c.id \in agreed' \/ (Trusted(c.id) /\ process'[c.id].cached)
            PROVE  /\ c.id \in agreed' \/ <<asked'[c.id].host, asked'[c.id].key>> \in Confirmed'
                   /\ c.mine /\ ~process'[c.id].cached => c.id \in agreed'
                   /\ c.step = "ok" => c.id \in taken'
        <4>1. CASE Trusted(c.id)
          <5>1. /\ c.id \in Ids /\ asked[c.id].host \in Hosts /\ asked[c.id].key # NoKey
                /\ trust[asked[c.id].host] = asked[c.id].key
            BY <1>1, <3>2, <4>1 DEF Asked, Trusted
          <5>2. <<asked[c.id].host, asked[c.id].key>> \in Confirmed
            BY <5>1 DEF KeysWereConfirmed
          <5> QED BY <1>3, <1>5, <3>2, <5>2
        <4> QED BY <3>2, <4>1
      <3> QED BY <1>12, <2>1, <3>1, <3>2
    <2> QED BY <2>1 DEF AnswersAreMeant
  <1>14. ASSUME NEW i \in Ids, i \in Asked, i \in agreed', i \in taken'
         PROVE  <<asked[i].host, asked[i].key>> \in Confirmed'
    BY <1>3, <1>14 DEF Confirmed
  \* A record is made by an answer that was saved, or by a connection of the window's own.
  <1>15. \A h \in Hosts : trust'[h] # NoKey => <<h, trust'[h]>> \in Confirmed'
    <2>1. CASE UNCHANGED trust
      BY <1>5, <2>1 DEF KeysWereConfirmed
    <2>2. CASE RecordChanges
      <3>1. PICK h \in Hosts, key \in Keys \cup {NoKey} :
              /\ trust' = [trust EXCEPT ![h] = key]
              /\ formed' = IF key = NoKey THEN formed ELSE formed \cup {<<h, key>>}
        BY <2>2 DEF RecordChanges
      <3>2. key # NoKey => <<h, key>> \in Confirmed'
        BY <3>1 DEF Confirmed
      <3>3. trust \in [Hosts -> Keys \cup {NoKey}]
        BY DEF Typed
      <3> QED BY <1>5, <3>1, <3>2, <3>3 DEF KeysWereConfirmed
    <2>3. ASSUME NEW c \in commands, Responded(c), trust' # trust
          PROVE  \A h \in Hosts : trust'[h] # NoKey => <<h, trust'[h]>> \in Confirmed'
      <3>1. Saves(c.id, c) /\ c.mine /\ trust' = [trust EXCEPT ![asked[c.id].host] = asked[c.id].key]
        BY <2>3 DEF Responded
      <3>2. c.id \in agreed /\ c.id \in taken /\ c.id \in Asked /\ c.id \in Ids
        BY <1>1, <3>1 DEF Saves, AnswersAreMeant, QuestionsAreKnown
      <3>3. <<asked[c.id].host, asked[c.id].key>> \in Confirmed'
        BY <1>4, <1>14, <3>2
      <3>4. trust \in [Hosts -> Keys \cup {NoKey}]
        BY DEF Typed
      <3> QED BY <1>5, <3>1, <3>3, <3>4 DEF KeysWereConfirmed
    <2>4. UNCHANGED trust \/ RecordChanges \/ \E c \in commands : Responded(c)
      BY DEF Next, vars, Ask, Expire, Resolve, Replay, Revealed, Listen, Deliver, Start, Answer,
             OtherDialog, Reload
    <2> QED BY <2>1, <2>2, <2>3, <2>4
  \* An asker is told yes by a command that the user or a record stands behind.
  <1>16. \A i \in Ids : asked'[i].state = "granted" =>
               <<asked'[i].host, asked'[i].key>> \in Confirmed'
    <2>1. ASSUME NEW i \in Ids, asked[i].state = "granted"
          PROVE  <<asked'[i].host, asked'[i].key>> \in Confirmed'
      <3>1. i \in Asked
        BY <2>1 DEF Asked, Unasked
      <3> QED BY <1>3, <1>5, <2>1, <3>1 DEF KeysWereConfirmed
    <2>2. ASSUME NEW i \in Ids, NEW h \in Hosts, NEW key \in Keys, Ask(i, h, key),
                 NEW j \in Ids, asked'[j].state = "granted"
          PROVE  asked[j].state = "granted"
      BY <1>1, <2>2 DEF Ask
    <2>3. ASSUME NEW i \in Ids, Expire(i), NEW j \in Ids, asked'[j].state = "granted"
          PROVE  asked[j].state = "granted"
      <3>1. asked[i] \in [host: Hosts, key: Keys, state: States]
        BY <1>1, <2>3 DEF Expire, Unasked, Asked
      <3>2. asked' = [asked EXCEPT ![i].state = "expired"]
        BY <2>3 DEF Expire
      <3> QED BY <1>1, <2>3, <3>1, <3>2
    <2>4. ASSUME NEW c \in commands, Resolve(c), NEW j \in Ids, asked'[j].state = "granted",
                 asked[j].state # "granted"
          PROVE  <<asked'[j].host, asked'[j].key>> \in Confirmed'
      <3>1. c.id \in Asked /\ c.id \in Ids /\ asked[c.id] \in [host: Hosts, key: Keys, state: States]
        BY <1>1 DEF QuestionsAreKnown
      <3>2. PICK sent \in BOOLEAN, state \in {"granted", "refused", "expired"} :
               /\ IF c.id \in broker THEN state \in {IF sent /\ c.yes THEN "granted" ELSE "expired",
                                                     IF sent /\ ~c.yes THEN "refused" ELSE "expired"}
                  ELSE ~sent /\ state = asked[c.id].state
               /\ asked' = [asked EXCEPT ![c.id].state = state]
               /\ taken' = IF sent /\ c.yes THEN taken \cup {c.id} ELSE taken
        BY <2>4 DEF Resolve
      <3>3. j = c.id /\ state = "granted"
        BY <1>1, <2>4, <3>1, <3>2
      <3>4. sent /\ c.yes /\ c.id \in taken'
        BY <2>4, <3>2, <3>3
      <3>5. asked'[j].host = asked[j].host /\ asked'[j].key = asked[j].key
        BY <1>3, <3>1, <3>3
      <3>6. CASE c.id \in agreed
        BY <1>4, <1>14, <3>1, <3>3, <3>4, <3>5, <3>6
      <3>7. CASE <<asked[c.id].host, asked[c.id].key>> \in Confirmed
        BY <1>5, <3>3, <3>5, <3>7
      <3> QED BY <3>4, <3>6, <3>7 DEF AnswersAreMeant
    <2> QED BY <1>2, <2>1, <2>2, <2>3, <2>4
  <1> QED BY <1>10, <1>11, <1>13, <1>15, <1>16 DEF KeysWereConfirmed

---------------------------------------------------------------------------
(* The dialogs. A reload takes them away; until the page listens for requests    *)
(* again no cancel that it misses can be about one of them.                      *)

NoneYet == page \in {"loading", "cancel"} => \A i \in Ids : process[i].step = "new"

\* No process is begun before the page listens for requests.
LEMMA NoneYetStep ==
    ASSUME IInv, NoneYet, [Next]_vars
    PROVE  NoneYet'
  <1>1. /\ process \in [Ids -> Process] /\ chain \in Seq(Ids) /\ dialogs \in Seq(Ids \cup {Other})
        /\ Other \notin Ids
        /\ \A m \in 1..Len(dialogs) : dialogs[m] # Other => process[dialogs[m]].step = "asking"
        /\ \A m \in 1..Len(chain) : process[chain[m]].step # "new"
        /\ \A c \in commands : c.id \in Ids /\ (c.mine => process[c.id].step # "new")
    BY KeyAssumption DEF IInv, Typed, Sent, ProcessesInTurn, CommandsAreOwn, Ids
  <1>2. CASE UNCHANGED process /\ (page' \in {"loading", "cancel"} => page \in {"loading", "cancel"})
    BY <1>2 DEF NoneYet
  <1>3. CASE UNCHANGED page /\ page \notin {"loading", "cancel"}
    BY <1>3 DEF NoneYet
  <1>4. ASSUME page \in {"loading", "cancel"}
        PROVE  /\ chain = <<>> /\ \A c \in commands : ~c.mine
               /\ \A m \in 1..Len(dialogs) : dialogs[m] = Other
               /\ \A i \in Ids : process[i].step = "new"
    <2>1. \A i \in Ids : process[i].step = "new"
      BY <1>4 DEF NoneYet
    <2>2. \A m \in 1..Len(chain) : chain[m] \in Ids
      BY <1>1
    <2>3. \A m \in 1..Len(dialogs) : dialogs[m] \in Ids \cup {Other}
      BY <1>1
    <2>4. Len(chain) \in Nat /\ ~(1 \in 1..Len(chain))
      BY <1>1, <2>1, <2>2
    <2> QED BY <1>1, <2>1, <2>3, <2>4
  <1>5. CASE Listen
    <2>1. page' \in {"loading", "cancel"} => page \in {"loading", "cancel"}
      BY <1>5 DEF Listen, Loads
    <2> QED BY <1>2, <1>5, <2>1 DEF Listen
  <1>6. CASE Deliver
    <2>1. CASE page \in {"loading", "cancel"}
      <3> DEFINE i == Head(events)[2]
      <3>1. UNCHANGED page /\ (UNCHANGED process \/ Aborts(i))
        BY <1>6, <2>1 DEF Deliver
      <3> HIDE DEF i
      <3>2. Pending = {}
        BY <1>4, <2>1 DEF Pending
      <3>3. UNCHANGED process
        BY <3>1, <3>2 DEF Aborts
      <3> QED BY <1>2, <3>1, <3>3
    <2>2. CASE page \notin {"loading", "cancel"}
      BY <1>3, <1>6, <2>2 DEF Deliver
    <2> QED BY <2>1, <2>2
  <1>7. CASE Start
    <2>1. chain # <<>> /\ UNCHANGED page
      BY <1>7 DEF Start, Turn
    <2> QED BY <1>3, <1>4, <2>1
  <1>8. ASSUME NEW i \in Ids, Revealed(i) PROVE NoneYet'
    <2>1. process[i].step = "revealing" /\ UNCHANGED page
      BY <1>8 DEF Revealed
    <2> QED BY <1>3, <1>4, <2>1
  <1>9. ASSUME NEW yes \in BOOLEAN, Answer(yes) PROVE NoneYet'
    <2>1. UNCHANGED page /\ dialogs # <<>>
      BY <1>9 DEF Answer
    <2>2. CASE page \in {"loading", "cancel"}
      <3>1. Head(dialogs) = Other
        BY <1>1, <1>4, <2>1, <2>2
      <3> QED BY <1>2, <1>9, <2>1, <3>1 DEF Answer
    <2> QED BY <1>3, <2>1, <2>2
  <1>10. ASSUME NEW c \in commands, Responded(c) PROVE NoneYet'
    <2>1. UNCHANGED page /\ c.mine
      BY <1>10 DEF Responded
    <2> QED BY <1>3, <1>4, <2>1
  <1>11. CASE Reload
    BY <1>11 DEF Reload, NoneYet, NoProcess
  <1>12. CASE \/ \E i \in Ids, h \in Hosts, key \in Keys : Ask(i, h, key)
              \/ \E i \in Ids : Expire(i) \/ Replay(i)
              \/ \E c \in commands : Resolve(c)
              \/ OtherDialog \/ RecordChanges \/ UNCHANGED vars
    <2>1. UNCHANGED <<process, page>>
      BY <1>12 DEF Ask, Expire, Replay, Resolve, OtherDialog, RecordChanges, vars, window_
    <2> QED BY <1>2, <2>1
  <1> QED BY <1>5, <1>6, <1>7, <1>8, <1>9, <1>10, <1>11, <1>12 DEF Next

\* A question with a dialog is open, or answered by an earlier page, or its cancel is under way.
LEMMA DialogsStep ==
    ASSUME IInv, NoneYet, DialogsAreLive, [Next]_vars
    PROVE  DialogsAreLive'
  <1> DEFINE Shown(i) == \E m \in 1..Len(dialogs) : dialogs[m] = i
             Live(i) == i \in broker \cup resolved \/ <<"cancel", i>> \in ToSet(events)
  <1>1. /\ dialogs \in Seq(Ids \cup {Other}) /\ Other \notin Ids
        /\ events \in Seq({"request", "cancel"} \X Ids)
        /\ \A m \in 1..Len(dialogs) : dialogs[m] # Other => process[dialogs[m]].step = "asking"
        /\ \A m, n \in 1..Len(dialogs) : dialogs[m] = dialogs[n] => m = n
        /\ \A c \in commands : c.id \in Ids /\ (c.mine => process[c.id].step # "asking")
    BY KeyAssumption DEF IInv, Typed, Sent, ProcessesInTurn, CommandsAreOwn, Ids
  <1>2. \A i \in Ids : Shown(i) => Live(i)
    BY <1>1 DEF DialogsAreLive, ToSet
  <1>3. \A e : e \in ToSet(events) <=> \E m \in 1..Len(events) : events[m] = e
    BY <1>1 DEF ToSet
  <1>4. ASSUME \A i \in Ids : Shown(i)' => Shown(i), \A i \in Ids : Live(i) => Live(i)'
        PROVE  \A i \in Ids : Shown(i)' => Live(i)'
    BY <1>2, <1>4
  <1>5. ASSUME dialogs' \in Seq(Ids \cup {Other}), \A i \in Ids : Shown(i)' => Live(i)'
        PROVE  DialogsAreLive'
    BY <1>5 DEF DialogsAreLive, ToSet
  <1>6. dialogs' \in Seq(Ids \cup {Other})
    BY TypedStep DEF IInv, Typed
  \* An event that is added hides no cancel.
  <1>7. ASSUME NEW e, events' = Append(events, e) \/ events' = events
        PROVE  /\ ToSet(events) \subseteq ToSet(events')
               /\ events' = Append(events, e) => e \in ToSet(events')
    <2>1. CASE events' = events
      BY <2>1
    <2>2. CASE events' = Append(events, e)
      <3>1. /\ Len(events) \in Nat /\ Len(events') = Len(events) + 1 /\ DOMAIN events' = 1..Len(events')
            /\ events'[Len(events) + 1] = e
            /\ \A m \in 1..Len(events) : events'[m] = events[m]
        BY <1>1, <2>2
      <3> QED BY <1>3, <3>1 DEF ToSet
    <2> QED BY <1>7, <2>1, <2>2
  <1>8. CASE UNCHANGED <<dialogs, broker, resolved>> /\ \E e : events' = Append(events, e) \/ events' = events
    BY <1>4, <1>5, <1>6, <1>7, <1>8
  <1>10. ASSUME NEW i \in Ids, NEW h \in Hosts, NEW key \in Keys, Ask(i, h, key)
         PROVE  DialogsAreLive'
    <2>1. ToSet(events) \subseteq ToSet(events')
      BY <1>7, <1>10 DEF Ask
    <2> QED BY <1>4, <1>5, <1>6, <1>10, <2>1 DEF Ask, window_
  <1>11. ASSUME NEW i \in Ids, Expire(i)
         PROVE  DialogsAreLive'
    <2>1. /\ ToSet(events) \subseteq ToSet(events')
          /\ i \in broker => <<"cancel", i>> \in ToSet(events')
      BY <1>7, <1>11 DEF Expire
    <2> QED BY <1>4, <1>5, <1>6, <1>11, <2>1 DEF Expire, window_
  <1>12. ASSUME NEW c \in commands, Resolve(c)
         PROVE  DialogsAreLive'
    <2>1. /\ broker' = broker \ {c.id} /\ UNCHANGED <<dialogs, events>>
          /\ resolved' = IF c.id \in broker /\ ~c.mine THEN resolved \cup {c.id} ELSE resolved
      BY <1>12 DEF Resolve, window_
    <2>2. c.mine => ~Shown(c.id)
      BY <1>1
    <2>3. \A i \in Ids : Shown(i)' => Live(i)'
      BY <1>2, <2>1, <2>2
    <2> QED BY <1>5, <1>6, <2>3
  <1>13. CASE Deliver
    <2>1. /\ events # <<>> /\ events' = Tail(events) /\ UNCHANGED <<broker, resolved>>
          /\ Head(events) \in {"request", "cancel"} \X Ids
      BY <1>1, <1>13 DEF Deliver, broker_
    <2>2. \A e \in ToSet(events) : e # Head(events) => e \in ToSet(events')
      <3>1. /\ Len(events) \in Nat /\ Len(events') = Len(events) - 1 /\ Head(events) = events[1]
            /\ DOMAIN events' = 1..Len(events')
            /\ \A m \in 1..Len(events') : events'[m] = events[m + 1]
        BY <1>1, <2>1
      <3>2. \A m \in 1..Len(events) : m # 1 => m - 1 \in 1..Len(events') /\ events'[m - 1] = events[m]
        BY <3>1
      <3> QED BY <1>3, <3>1, <3>2 DEF ToSet
    <2>3. CASE Head(events)[1] = "request"
      <3>1. UNCHANGED dialogs
        BY <1>13, <2>3 DEF Deliver
      <3>2. \A i \in Ids : <<"cancel", i>> # Head(events)
        BY <2>3
      <3> QED BY <1>4, <1>5, <1>6, <2>1, <2>2, <3>1, <3>2
    <2>4. CASE Head(events)[1] = "cancel"
      <3> PICK i \in Ids : i = Head(events)[2]
        BY <2>1
      <3>1. \A j \in Ids : j # i => <<"cancel", j>> # Head(events)
        BY <2>1
      <3>2. IF page # "loading" THEN Aborts(i) ELSE UNCHANGED dialogs
        BY <1>13, <2>4 DEF Deliver
      <3>3. CASE page = "loading"
        <4>1. \A j \in Ids : ~Shown(j)
          BY <1>1, <3>3 DEF NoneYet
        <4> QED BY <1>5, <1>6, <3>2, <3>3, <4>1
      <3>4. CASE page # "loading"
        <4>1. ~Shown(i)' /\ \A j \in Ids : Shown(j)' => Shown(j)
          <5>1. CASE i \notin ToSet(dialogs) /\ UNCHANGED dialogs
            BY <1>1, <5>1 DEF ToSet
          <5>2. ASSUME NEW m \in DOMAIN dialogs, dialogs[m] = i, dialogs' = RemoveAt(dialogs, m)
                PROVE  ~Shown(i)' /\ \A j \in Ids : Shown(j)' => Shown(j)
            <6>1. \A n \in 1..Len(dialogs') : \E k \in 1..Len(dialogs) :
                     k # m /\ dialogs'[n] = dialogs[k]
              <7>1. dialogs \in Seq(Ids \cup {Other}) /\ m \in 1..Len(dialogs)
                BY <1>1
              <7>2. dialogs' = RemoveAt(dialogs, m)
                BY <5>2
              <7>3. Shortened(Ids \cup {Other}, dialogs, m, dialogs')
                BY ONLY <7>1, <7>2, ShortenedIs
              <7> QED BY ONLY <7>3 DEF Shortened
            <6> QED BY <1>1, <5>2, <6>1
          <5> QED BY <3>2, <3>4, <5>1, <5>2 DEF Aborts
        <4>2. \A j \in Ids : Shown(j)' => Live(j)'
          BY <1>2, <2>1, <2>2, <3>1, <4>1
        <4> QED BY <1>5, <1>6, <4>2
      <3> QED BY <3>3, <3>4
    <2> QED BY <1>13, <2>3, <2>4 DEF Deliver
  <1>14. ASSUME NEW i \in Ids, Revealed(i)
         PROVE  DialogsAreLive'
    <2>1. UNCHANGED <<broker, resolved, events>>
      BY <1>14 DEF Revealed, broker_
    <2>2. \/ UNCHANGED dialogs
          \/ Live(i) /\ dialogs' = Append(dialogs, i)
      BY <1>14 DEF Revealed
    <2>3. ASSUME NEW j \in Ids, Shown(j)' PROVE Shown(j) \/ (j = i /\ Live(i))
      <3>1. CASE UNCHANGED dialogs
        BY <2>3, <3>1
      <3>2. CASE Live(i) /\ dialogs' = Append(dialogs, i)
        <4>1. /\ Len(dialogs') = Len(dialogs) + 1 /\ Len(dialogs) \in Nat
              /\ dialogs'[Len(dialogs) + 1] = i
              /\ \A m \in 1..Len(dialogs) : dialogs'[m] = dialogs[m]
          BY <1>1, <3>2
        <4> HIDE DEF Live
        <4> QED BY <2>3, <3>2, <4>1
      <3> QED BY <2>2, <3>1, <3>2
    <2>4. \A j \in Ids : Shown(j)' => Live(j)'
      BY <1>2, <2>1, <2>3
    <2> QED BY <1>5, <1>6, <2>4
  <1>15. CASE OtherDialog
    <2>1. UNCHANGED <<broker, resolved, events>> /\ dialogs' = Append(dialogs, Other)
      BY <1>15 DEF OtherDialog, broker_
    <2>2. \A j \in Ids : Shown(j)' => Shown(j)
      BY <1>1, <2>1
    <2> QED BY <1>4, <1>5, <1>6, <2>1, <2>2
  <1>16. ASSUME NEW yes \in BOOLEAN, Answer(yes)
         PROVE  DialogsAreLive'
    <2>1. UNCHANGED <<broker, resolved, events>> /\ dialogs # <<>> /\ dialogs' = Tail(dialogs)
      BY <1>16 DEF Answer, broker_
    <2>2. \A j \in Ids : Shown(j)' => Shown(j)
      BY <1>1, <2>1
    <2> QED BY <1>4, <1>5, <1>6, <2>1, <2>2
  <1>17. CASE Reload
    <2>1. \A j \in Ids : ~Shown(j)'
      BY <1>17 DEF Reload
    <2> QED BY <1>5, <1>6, <2>1
  <1>18. CASE \/ \E i \in Ids : Replay(i)
              \/ \E c \in commands : Responded(c)
              \/ Listen \/ Start \/ RecordChanges \/ UNCHANGED vars
    <2>1. /\ UNCHANGED <<dialogs, broker, resolved>>
          /\ \E e : events' = Append(events, e) \/ events' = events
      BY <1>18 DEF Replay, Responded, Listen, Loads, Start, RecordChanges, vars, broker_, window_
    <2> QED BY <1>8, <2>1
  <1> QED BY <1>10, <1>11, <1>12, <1>13, <1>14, <1>15, <1>16, <1>17, <1>18 DEF Next

---------------------------------------------------------------------------
(* Theorems.                                                                *)

\* The inductive invariant holds in every state.
LEMMA Invariance == Spec => []IInv
  <1>1. Init => IInv
    <2> SUFFICES ASSUME Init PROVE IInv
      OBVIOUS
    <2>1. /\ asked = [i \in Ids |-> Unasked] /\ broker = {} /\ events = <<>> /\ replaying = {}
          /\ page = "loading" /\ process = [i \in Ids |-> NoProcess] /\ settled = {} /\ chain = <<>>
          /\ dialogs = <<>> /\ commands = {} /\ trust \in [Hosts -> Keys \cup {NoKey}]
          /\ formed = {<<h, trust[h]>> : h \in {h \in Hosts : trust[h] # NoKey}}
          /\ agreed = {} /\ taken = {} /\ resolved = {} /\ changes = 0
      BY DEF Init
    <2>2. Typed
      <3>1. NoProcess \in Process
        BY DEF NoProcess, Process, Steps
      <3>2. formed \subseteq Hosts \X Keys
        BY <2>1
      <3> QED BY <2>1, <3>1, <3>2, KeyAssumption DEF Typed, Question
    <2>3. QuestionsAreKnown /\ ProcessesInTurn /\ CommandsAreOwn /\ AnswersAreMeant
      BY <2>1 DEF QuestionsAreKnown, ProcessesInTurn, CommandsAreOwn, AnswersAreMeant, NoProcess
    <2>4. KeysWereConfirmed
      <3>1. \A h \in Hosts : trust[h] # NoKey => <<h, trust[h]>> \in formed
        BY <2>1
      <3>2. \A i \in Ids : asked[i].state # "granted"
        BY <2>1 DEF Unasked
      <3> QED BY <3>1, <3>2 DEF KeysWereConfirmed, Confirmed
    <2> QED BY <2>2, <2>3, <2>4 DEF IInv
  <1>2. IInv /\ [Next]_vars => IInv'
    BY TypedStep, TurnStep, AnswersStep DEF IInv
  <1> QED BY <1>1, <1>2, PTL DEF Spec

\* The window and the broker only ever handle questions that were asked, and no question waits
\* twice in the chain of processes (sshHostKeyConfirmation.ts queue).
THEOREM TypeCorrect == Spec => []TypeOK
  <1>1. IInv => TypeOK
    BY DEF IInv, Typed, TypeOK, ProcessesInTurn, Process, Sent, Question
  <1> QED BY <1>1, Invariance, PTL

\* No record of trust is made, and no agent connected, but for a key that the user has confirmed
\* for that host, however deadlines, answers, cancels, replays and reloads race.
THEOREM KeysAlwaysConfirmed == Spec => []KeysWereConfirmed
  <1>1. IInv => KeysWereConfirmed
    BY DEF IInv
  <1> QED BY <1>1, Invariance, PTL
\* A dialog that is shown is about a question that is still open, or was answered by a page
\* loaded earlier, or its cancel is on its way: a deadline, a reload or a replay that comes in
\* between leaves none behind (cancel, and the abort signal of the dialog).
THEOREM DialogsAlwaysLive == Spec => []DialogsAreLive
  <1>1. Init => NoneYet /\ DialogsAreLive
    BY DEF Init, NoneYet, DialogsAreLive, NoProcess, ToSet
  <1>2. IInv /\ NoneYet /\ DialogsAreLive /\ [Next]_vars => (NoneYet /\ DialogsAreLive)'
    BY NoneYetStep, DialogsStep
  <1> QED BY <1>1, <1>2, Invariance, PTL DEF Spec

---------------------------------------------------------------------------
(* Sequences in a row.                                                      *)

\* Every set of numbers has a least one.
LEMMA LeastIsThere ==
    ASSUME NEW S, S \subseteq Nat, S # {}
    PROVE  \E x \in S : \A y \in S : x <= y
  <1> DEFINE R == {ss \in Nat \X Nat : ss[1] < ss[2]}
  <1>1. IsWellFoundedOn(R, Nat)
    BY NatLessThanWellFounded DEF OpToRel
  <1>2. PICK x \in S : \A y \in S : <<y, x>> \notin R
    BY <1>1, WFMin, Zenon
  <1>3. \A y \in S : x \in Nat /\ y \in Nat /\ ~(y < x)
    <2> TAKE y \in S
    <2>1. x \in Nat /\ y \in Nat /\ <<y, x>> \in Nat \X Nat
      OBVIOUS
    <2> QED BY <1>2, <2>1
  <1> QED BY <1>3

\* A function of the first 0, 1, .. n numbers in which each value comes from the one
\* before it exists, for every n.
RowTo(s, of, n, row) ==
    row = [i \in 0..n |-> IF i = 0 THEN <<>> ELSE row[i - 1] \o of[s[i]]]

\* The recursion of Spread has a result: no n is the first without one.
LEMMA SpreadEnds ==
    ASSUME NEW T, NEW s \in Seq(T), NEW of
    PROVE  \E row : RowTo(s, of, Len(s), row) /\ Spread(s, of) = row[Len(s)]
  <1> DEFINE Bad == {n \in 0..Len(s) : ~ \E row : RowTo(s, of, n, row)}
  <1>1. Bad = {}
    <2> SUFFICES ASSUME Bad # {} PROVE FALSE
      OBVIOUS
    <2>1. PICK n \in Bad : \A m \in Bad : n <= m
      <3>1. Bad \subseteq Nat
        OBVIOUS
      <3> QED BY <3>1, LeastIsThere
    <2>2. n # 0
      <3> DEFINE row == [i \in 0..0 |-> <<>>]
      <3>1. \A i \in 0..0 : i = 0
        OBVIOUS
      <3>2. RowTo(s, of, 0, row)
        BY <3>1 DEF RowTo
      <3> HIDE DEF row
      <3> QED BY <3>2
    <2>3. n \in Nat /\ n - 1 \in 0..Len(s) /\ ~(n <= n - 1)
      BY <2>2
    <2>4. PICK row : RowTo(s, of, n - 1, row)
      BY <2>1, <2>3
    <2> DEFINE last   == row[n - 1] \o of[s[n]]
               longer == [i \in 0..n |-> IF i = n THEN last ELSE row[i]]
    <2>5. \A i \in 0..n : longer[i] = IF i = 0 THEN <<>> ELSE longer[i - 1] \o of[s[i]]
      <3> SUFFICES ASSUME NEW i \in 0..n
                   PROVE  longer[i] = IF i = 0 THEN <<>> ELSE longer[i - 1] \o of[s[i]]
        OBVIOUS
      <3>1. i # 0 => longer[i - 1] = row[i - 1]
        BY <2>3
      <3>2. CASE i = n
        <4>1. longer[i] = last
          BY <3>2
        <4> HIDE DEF longer
        <4> QED BY <2>2, <3>1, <3>2, <4>1
      <3>3. CASE i # n
        <4>1. i \in 0..(n - 1) /\ longer[i] = row[i]
          BY <2>3, <3>3
        <4>2. row[i] = IF i = 0 THEN <<>> ELSE row[i - 1] \o of[s[i]]
          BY <2>4, <4>1 DEF RowTo
        <4> QED BY <3>1, <4>1, <4>2
      <3> QED BY <3>2, <3>3
    <2>6. longer = [i \in 0..n |-> longer[i]]
      OBVIOUS
    <2> HIDE DEF longer
    <2>7. RowTo(s, of, n, longer)
      BY <2>5, <2>6 DEF RowTo
    <2> QED BY <2>1, <2>7
  <1>2. Len(s) \in 0..Len(s)
    OBVIOUS
  <1>3. \E row : RowTo(s, of, Len(s), row)
    BY <1>1, <1>2
  <1> DEFINE row == CHOOSE row : RowTo(s, of, Len(s), row)
  <1>4. RowTo(s, of, Len(s), row)
    BY <1>3
  <1>5. Spread(s, of) = row[Len(s)]
    BY Zenon DEF Spread, RowTo
  <1> HIDE DEF row
  <1> QED BY <1>4, <1>5

\* What is in a sequence, and how often.
Has(seq, y) == \E i \in 1..Len(seq) : seq[i] = y
Once(seq)   == \A i, j \in 1..Len(seq) : seq[i] = seq[j] => i = j
\* Every one of the first n sequences has an element at most once, and no two of them
\* have a common one.
Apart(s, of, n) ==
    /\ \A i \in 1..n : Once(of[s[i]])
    /\ \A i, j \in 1..n : \A y : Has(of[s[i]], y) /\ Has(of[s[j]], y) => i = j
\* seq is the first n sequences in a row.
RowOf(seq, Y, s, of, n) ==
    /\ seq \in Seq(Y)
    /\ \A y : Has(seq, y) <=> \E i \in 1..n : Has(of[s[i]], y)
    /\ Apart(s, of, n) => Once(seq)

\* What a sequence with another one behind it has.
LEMMA ConcatHas ==
    ASSUME NEW Y, NEW a \in Seq(Y), NEW b \in Seq(Y)
    PROVE  /\ a \o b \in Seq(Y)
           /\ \A y : Has(a \o b, y) <=> Has(a, y) \/ Has(b, y)
           /\ Once(a) /\ Once(b) /\ (\A y : ~(Has(a, y) /\ Has(b, y))) => Once(a \o b)
  <1>1. /\ a \o b \in Seq(Y) /\ Len(a \o b) = Len(a) + Len(b) /\ Len(a) \in Nat /\ Len(b) \in Nat
        /\ \A i \in 1..Len(a) : (a \o b)[i] = a[i]
        /\ \A i \in 1..Len(b) : (a \o b)[Len(a) + i] = b[i]
    OBVIOUS
  <1> DEFINE c == a \o b
  <1>2. \A i \in 1..Len(c) : \/ i \in 1..Len(a) /\ c[i] = a[i]
                             \/ i - Len(a) \in 1..Len(b) /\ c[i] = b[i - Len(a)]
    <2> TAKE i \in 1..Len(c)
    <2>1. CASE i <= Len(a)
      BY <1>1, <2>1
    <2>2. CASE ~(i <= Len(a))
      <3>1. i - Len(a) \in 1..Len(b) /\ Len(a) + (i - Len(a)) = i
        BY <1>1, <2>2
      <3> QED BY <1>1, <3>1
    <2> QED BY <2>1, <2>2
  <1>3. \A i \in 1..Len(a) : i \in 1..Len(c)
    BY <1>1
  <1>4. \A i \in 1..Len(b) : Len(a) + i \in 1..Len(c)
    BY <1>1
  <1> HIDE DEF c
  <1>5. \A y : Has(c, y) <=> Has(a, y) \/ Has(b, y)
    <2> TAKE y
    <2>1. Has(c, y) => Has(a, y) \/ Has(b, y)
      BY <1>2 DEF Has
    <2>2. Has(a, y) => Has(c, y)
      BY <1>1, <1>3 DEF Has, c
    <2>3. Has(b, y) => Has(c, y)
      BY <1>1, <1>4 DEF Has, c
    <2> QED BY <2>1, <2>2, <2>3
  <1>6. ASSUME Once(a), Once(b), \A y : ~(Has(a, y) /\ Has(b, y)) PROVE Once(c)
    <2> SUFFICES ASSUME NEW i \in 1..Len(c), NEW j \in 1..Len(c), c[i] = c[j] PROVE i = j
      BY DEF Once
    <2>0. i \in Int /\ j \in Int /\ Len(a) \in Int
      BY <1>1
    <2>1. CASE i \in 1..Len(a) /\ c[i] = a[i] /\ j \in 1..Len(a) /\ c[j] = a[j]
      BY <1>6, <2>1 DEF Once
    <2>2. CASE /\ i - Len(a) \in 1..Len(b) /\ c[i] = b[i - Len(a)]
               /\ j - Len(a) \in 1..Len(b) /\ c[j] = b[j - Len(a)]
      <3>1. i - Len(a) = j - Len(a)
        BY <1>6, <2>2 DEF Once
      <3> QED BY <2>0, <3>1
    <2>3. CASE \/ i \in 1..Len(a) /\ c[i] = a[i] /\ j - Len(a) \in 1..Len(b) /\ c[j] = b[j - Len(a)]
               \/ j \in 1..Len(a) /\ c[j] = a[j] /\ i - Len(a) \in 1..Len(b) /\ c[i] = b[i - Len(a)]
      <3>1. Has(a, c[i]) /\ Has(b, c[i])
        BY <2>3 DEF Has
      <3> QED BY <1>6, <3>1
    <2> QED BY <1>2, <2>1, <2>2, <2>3
  <1> QED BY <1>1, <1>5, <1>6 DEF c

\* A spread of sequences is a sequence, of what those have, in their order.
LEMMA SpreadFacts ==
    ASSUME NEW T, NEW s \in Seq(T), NEW Y, NEW of, \A i \in 1..Len(s) : of[s[i]] \in Seq(Y)
    PROVE  RowOf(Spread(s, of), Y, s, of, Len(s))
  <1>1. PICK row : RowTo(s, of, Len(s), row) /\ Spread(s, of) = row[Len(s)]
    BY SpreadEnds
  <1>2. \A i \in 0..Len(s) : row[i] = IF i = 0 THEN <<>> ELSE row[i - 1] \o of[s[i]]
    BY <1>1 DEF RowTo
  <1> DEFINE Bad == {n \in 0..Len(s) : ~RowOf(row[n], Y, s, of, n)}
  <1>3. Bad = {}
    <2> SUFFICES ASSUME Bad # {} PROVE FALSE
      OBVIOUS
    <2>1. PICK n \in Bad : \A m \in Bad : n <= m
      <3>1. Bad \subseteq Nat
        OBVIOUS
      <3> QED BY <3>1, LeastIsThere
    <2>2. n # 0
      <3>1. row[0] = <<>>
        BY <1>2
      <3>2. RowOf(<<>>, Y, s, of, 0)
        BY DEF RowOf, Has, Once
      <3> QED BY <2>1, <3>1, <3>2
    <2>3. n \in 1..Len(s) /\ n - 1 \in 0..Len(s) /\ ~(n <= n - 1)
      BY <2>1, <2>2
    <2> DEFINE a == row[n - 1]  b == of[s[n]]
    <2>4. RowOf(a, Y, s, of, n - 1)
      BY <2>1, <2>3
    <2>5. row[n] = a \o b /\ b \in Seq(Y)
      BY <1>2, <2>2, <2>3
    <2>6. a \in Seq(Y)
      BY <2>4 DEF RowOf
    <2> HIDE DEF a
    <2>7. \A i : i \in 1..n <=> i = n \/ i \in 1..(n - 1)
      BY <2>3
    <2>8. \A y : Has(a \o b, y) <=> \E i \in 1..n : Has(of[s[i]], y)
      <3>1. \A y : Has(a, y) <=> \E i \in 1..(n - 1) : Has(of[s[i]], y)
        BY <2>4 DEF RowOf
      <3>2. \A y : Has(a \o b, y) <=> Has(a, y) \/ Has(b, y)
        BY <2>5, <2>6, ConcatHas
      <3> QED BY <2>7, <3>1, <3>2
    <2>9. ASSUME Apart(s, of, n) PROVE Once(a \o b)
      <3>1. Apart(s, of, n - 1)
        BY <2>7, <2>9 DEF Apart
      <3>2. Once(a) /\ Once(b)
        BY <2>3, <2>4, <2>9, <3>1 DEF RowOf, Apart
      <3>3. ASSUME NEW y, Has(a, y), Has(b, y) PROVE FALSE
        <4>1. PICK i \in 1..(n - 1) : Has(of[s[i]], y)
          BY <2>4, <3>3 DEF RowOf
        <4>2. i \in 1..n /\ n \in 1..n /\ i # n
          BY <2>3
        <4> QED BY <2>9, <3>3, <4>1, <4>2 DEF Apart
      <3> QED BY <2>5, <2>6, <3>2, <3>3, ConcatHas
    <2>10. a \o b \in Seq(Y)
      BY <2>5, <2>6
    <2>11. RowOf(a \o b, Y, s, of, n)
      BY <2>8, <2>9, <2>10 DEF RowOf
    <2> QED BY <2>1, <2>5, <2>11
  <1>4. Len(s) \in 0..Len(s)
    OBVIOUS
  <1> QED BY <1>1, <1>3, <1>4

\* The sets and the injections of the specification in these terms.
LEMMA SetOf ==
    ASSUME NEW Y, NEW seq \in Seq(Y)
    PROVE  /\ \A y : y \in ToSet(seq) <=> Has(seq, y)
           /\ IsInjective(seq) <=> Once(seq)
           /\ ToSet(seq) \subseteq Y
           /\ seq = <<>> <=> ToSet(seq) = {}
  <1>1. DOMAIN seq = 1..Len(seq) /\ Len(seq) \in Nat
    OBVIOUS
  <1>2. \A y : y \in ToSet(seq) <=> Has(seq, y)
    BY <1>1 DEF ToSet, Has
  <1>3. IsInjective(seq) <=> Once(seq)
    BY <1>1 DEF IsInjective, Once
  <1>4. ToSet(seq) \subseteq Y
    BY DEF ToSet
  <1>5. seq = <<>> <=> ToSet(seq) = {}
    <2>1. seq # <<>> => 1 \in DOMAIN seq
      BY <1>1
    <2> QED BY <2>1 DEF ToSet
  <1> QED BY <1>2, <1>3, <1>4, <1>5

\* None, one and two elements.
LEMMA FewHave ==
    ASSUME NEW x, NEW z
    PROVE  /\ \A y : ~Has(<<>>, y) /\ (Has(<<x>>, y) <=> y = x)
                     /\ (Has(<<x, z>>, y) <=> y = x \/ y = z)
           /\ Once(<<>>) /\ Once(<<x>>) /\ (x # z => Once(<<x, z>>))
  <1>1. Len(<<>>) = 0 /\ Len(<<x>>) = 1 /\ Len(<<x, z>>) = 2
    OBVIOUS
  <1>2. 1..0 = {} /\ 1..1 = {1} /\ 1..2 = {1, 2}
    OBVIOUS
  <1>3. <<x>>[1] = x /\ <<x, z>>[1] = x /\ <<x, z>>[2] = z
    OBVIOUS
  <1> QED BY <1>1, <1>2, <1>3 DEF Has, Once

\* The elements of a sequence in a set.
LEMMA OnlyFacts ==
    ASSUME NEW T, NEW s \in Seq(T), NEW set
    PROVE  /\ Only(s, set) \in Seq(T)
           /\ ToSet(Only(s, set)) = ToSet(s) \cap set
           /\ IsInjective(s) => IsInjective(Only(s, set))
  <1> DEFINE of == [x \in ToSet(s) |-> IF x \in set THEN <<x>> ELSE <<>>]
             o  == Only(s, set)
  <1>1. \A i \in 1..Len(s) : s[i] \in ToSet(s) /\ s[i] \in T
    BY DEF ToSet
  <1>2. \A i \in 1..Len(s) : of[s[i]] = IF s[i] \in set THEN <<s[i]>> ELSE <<>>
    BY <1>1
  <1>3. \A i \in 1..Len(s) : of[s[i]] \in Seq(T)
    BY <1>1, <1>2
  <1>4. o = Spread(s, of)
    BY DEF Only
  <1> HIDE DEF of, o
  <1>5. RowOf(o, T, s, of, Len(s))
    BY <1>3, <1>4, SpreadFacts
  <1>6. \A i \in 1..Len(s) : \A y : Has(of[s[i]], y) <=> y = s[i] /\ s[i] \in set
    <2> TAKE i \in 1..Len(s)
    <2>1. \A y : ~Has(<<>>, y) /\ (Has(<<s[i]>>, y) <=> y = s[i])
      BY FewHave
    <2> QED BY <1>2, <2>1
  <1>7. \A i \in 1..Len(s) : Once(of[s[i]])
    <2> TAKE i \in 1..Len(s)
    <2>1. Once(<<>>) /\ Once(<<s[i]>>)
      BY FewHave
    <2> QED BY <1>2, <2>1
  <1>8. o \in Seq(T) /\ \A y : Has(o, y) <=> Has(s, y) /\ y \in set
    <2>1. \A y : Has(s, y) <=> \E i \in 1..Len(s) : s[i] = y
      BY DEF Has
    <2>2. o \in Seq(T) /\ \A y : Has(o, y) <=> \E i \in 1..Len(s) : Has(of[s[i]], y)
      BY <1>5 DEF RowOf
    <2>3. ASSUME NEW y PROVE Has(o, y) <=> Has(s, y) /\ y \in set
      <3>1. \A i \in 1..Len(s) : Has(of[s[i]], y) <=> y = s[i] /\ s[i] \in set
        BY <1>6
      <3> QED BY <2>1, <2>2, <3>1
    <2> QED BY <2>2, <2>3
  <1>9. ToSet(o) = ToSet(s) \cap set
    <2>1. \A y : y \in ToSet(o) <=> Has(o, y)
      BY <1>8, SetOf
    <2>2. \A y : y \in ToSet(s) <=> Has(s, y)
      BY SetOf
    <2>3. \A y : y \in ToSet(o) <=> y \in ToSet(s) /\ y \in set
      BY <1>8, <2>1, <2>2
    <2> QED BY <2>3
  <1>10. Once(s) => Apart(s, of, Len(s))
    <2>1. \A i, j \in 1..Len(s) : \A y :
             Has(of[s[i]], y) /\ Has(of[s[j]], y) => s[i] = s[j]
      BY <1>6
    <2>2. Once(s) => \A i, j \in 1..Len(s) : s[i] = s[j] => i = j
      BY DEF Once
    <2> QED BY <1>7, <2>1, <2>2 DEF Apart
  <1>11. Once(s) => Once(o)
    BY <1>5, <1>10 DEF RowOf
  <1> QED BY <1>8, <1>9, <1>11, SetOf DEF o

\* insertSplitPane leaves what there was, with the new pane, once each.
LEMMA InsertFacts ==
    ASSUME NEW T, NEW layout \in Seq(T), NEW source \in T, NEW id \in T
    PROVE  /\ Insert(layout, source, id) \in Seq(T)
           /\ ToSet(Insert(layout, source, id)) \subseteq ToSet(layout) \cup {source, id}
           /\ (layout = <<>> \/ source \in ToSet(layout))
              => ToSet(Insert(layout, source, id)) = ToSet(layout) \cup {source, id}
           /\ IsInjective(layout) /\ id \notin ToSet(layout) /\ source # id
              => IsInjective(Insert(layout, source, id))
  <1> DEFINE of == [leaf \in ToSet(layout) |->
                       IF leaf = source THEN <<source, id>> ELSE <<leaf>>]
             o  == Insert(layout, source, id)
  <1>1. CASE layout = <<>>
    <2>1. o = <<source, id>> /\ o \in Seq(T)
      BY <1>1 DEF Insert
    <2>2. \A y : Has(<<source, id>>, y) <=> y = source \/ y = id
      BY FewHave
    <2>3. source # id => Once(<<source, id>>)
      BY FewHave
    <2>4. ToSet(layout) = {}
      BY <1>1, SetOf
    <2> HIDE DEF o
    <2>5. ToSet(o) = {source, id}
      <3>1. \A y : y \in ToSet(o) <=> Has(o, y)
        BY <2>1, SetOf
      <3> QED BY <2>1, <2>2, <3>1
    <2>6. source # id => IsInjective(o)
      BY <2>1, <2>3, SetOf
    <2> QED BY <2>1, <2>4, <2>5, <2>6 DEF o
  <1>2. CASE layout # <<>>
    <2>1. o = Spread(layout, of)
      BY <1>2 DEF Insert
    <2>2. \A i \in 1..Len(layout) : layout[i] \in ToSet(layout) /\ layout[i] \in T
      BY DEF ToSet
    <2>3. \A i \in 1..Len(layout) :
             of[layout[i]] = IF layout[i] = source THEN <<source, id>> ELSE <<layout[i]>>
      BY <2>2
    <2>4. \A i \in 1..Len(layout) : of[layout[i]] \in Seq(T)
      BY <2>2, <2>3
    <2> HIDE DEF of, o
    <2>5. RowOf(o, T, layout, of, Len(layout))
      BY <2>1, <2>4, SpreadFacts
    <2>6. \A i \in 1..Len(layout) : \A y : Has(of[layout[i]], y) <=>
             y = layout[i] \/ (layout[i] = source /\ y = id)
      <3> TAKE i \in 1..Len(layout)
      <3>1. \A y : /\ Has(<<layout[i]>>, y) <=> y = layout[i]
                   /\ Has(<<source, id>>, y) <=> y = source \/ y = id
        BY FewHave
      <3> QED BY <2>3, <3>1
    <2>7. source # id => \A i \in 1..Len(layout) : Once(of[layout[i]])
      <3> SUFFICES ASSUME source # id, NEW i \in 1..Len(layout) PROVE Once(of[layout[i]])
        OBVIOUS
      <3>1. Once(<<layout[i]>>) /\ Once(<<source, id>>)
        BY FewHave
      <3> QED BY <2>3, <3>1
    <2>8. \A y : Has(layout, y) <=> \E i \in 1..Len(layout) : layout[i] = y
      BY DEF Has
    <2>9. o \in Seq(T) /\ \A y : Has(o, y) <=> \E i \in 1..Len(layout) : Has(of[layout[i]], y)
      BY <2>5 DEF RowOf
    <2>10. ASSUME NEW y
           PROVE  Has(o, y) <=> Has(layout, y) \/ (Has(layout, source) /\ y = id)
      <3>1. \A i \in 1..Len(layout) : Has(of[layout[i]], y) <=>
                y = layout[i] \/ (layout[i] = source /\ y = id)
        BY <2>6
      <3> QED BY <2>8, <2>9, <3>1
    <2>11. /\ \A y : y \in ToSet(o) <=> Has(o, y)
           /\ \A y : y \in ToSet(layout) <=> Has(layout, y)
      BY <2>9, SetOf
    <2>12. ToSet(o) \subseteq ToSet(layout) \cup {source, id}
      BY <2>10, <2>11
    <2>13. source \in ToSet(layout) => ToSet(o) = ToSet(layout) \cup {source, id}
      BY <2>10, <2>11
    <2>14. ASSUME IsInjective(layout), id \notin ToSet(layout), source # id PROVE Once(o)
      <3>1. Once(layout) /\ ~Has(layout, id)
        BY <2>11, <2>14, SetOf
      <3>2. \A i \in 1..Len(layout) : layout[i] # id
        BY <2>8, <3>1
      <3>3. \A i, j \in 1..Len(layout) : \A y :
               Has(of[layout[i]], y) /\ Has(of[layout[j]], y) => layout[i] = layout[j]
        BY <2>6, <3>2
      <3>4. \A i, j \in 1..Len(layout) : layout[i] = layout[j] => i = j
        BY <3>1 DEF Once
      <3>5. Apart(layout, of, Len(layout))
        BY <2>7, <2>14, <3>3, <3>4 DEF Apart
      <3> QED BY <2>5, <3>5 DEF RowOf
    <2>15. IsInjective(o) <=> Once(o)
      BY <2>9, SetOf
    <2> QED BY <1>2, <2>9, <2>12, <2>13, <2>14, <2>15 DEF o
  <1> QED BY <1>1, <1>2

\* remapRecoveryLayout leaves panes of tabs that were restored, once each if no two
\* of them were restored as one.
LEMMA RemapFacts ==
    ASSUME NEW T, NEW layout \in Seq(T), NEW olds, NEW mapping \in [olds -> T]
    PROVE  /\ Remap(layout, mapping) \in Seq(T)
           /\ ToSet(Remap(layout, mapping)) \subseteq Range(mapping)
           /\ IsInjective(layout) /\ IsInjective(mapping) => IsInjective(Remap(layout, mapping))
  <1> DEFINE of == [leaf \in ToSet(layout) |->
                       IF leaf \in DOMAIN mapping THEN <<mapping[leaf]>> ELSE <<>>]
             o  == Remap(layout, mapping)
  <1>1. \A i \in 1..Len(layout) : layout[i] \in ToSet(layout)
    BY DEF ToSet
  <1>2. \A i \in 1..Len(layout) :
           of[layout[i]] = IF layout[i] \in olds THEN <<mapping[layout[i]]>> ELSE <<>>
    BY <1>1
  <1>3. \A i \in 1..Len(layout) : of[layout[i]] \in Seq(T)
    <2> TAKE i \in 1..Len(layout)
    <2>1. layout[i] \in olds => mapping[layout[i]] \in T
      OBVIOUS
    <2> HIDE DEF of
    <2>2. layout[i] \in olds => <<mapping[layout[i]]>> \in Seq(T)
      BY <2>1
    <2>3. <<>> \in Seq(T)
      OBVIOUS
    <2> QED BY <1>2, <2>2, <2>3
  <1>4. o = Spread(layout, of)
    BY DEF Remap
  <1> HIDE DEF of, o
  <1>5. RowOf(o, T, layout, of, Len(layout))
    BY <1>3, <1>4, SpreadFacts
  <1>6. \A i \in 1..Len(layout) : \A y : Has(of[layout[i]], y) <=>
           layout[i] \in olds /\ y = mapping[layout[i]]
    <2> TAKE i \in 1..Len(layout)
    <2>1. \A y : ~Has(<<>>, y) /\ (Has(<<mapping[layout[i]]>>, y) <=> y = mapping[layout[i]])
      BY FewHave
    <2> QED BY <1>2, <2>1
  <1>7. \A i \in 1..Len(layout) : Once(of[layout[i]])
    <2> TAKE i \in 1..Len(layout)
    <2>1. Once(<<>>) /\ Once(<<mapping[layout[i]]>>)
      BY FewHave
    <2> QED BY <1>2, <2>1
  <1>8. o \in Seq(T) /\ \A y : Has(o, y) <=> \E i \in 1..Len(layout) : Has(of[layout[i]], y)
    BY <1>5 DEF RowOf
  <1>9. \A y : y \in ToSet(o) <=> Has(o, y)
    BY <1>8, SetOf
  <1>10. ToSet(o) \subseteq Range(mapping)
    <2> SUFFICES ASSUME NEW y \in ToSet(o) PROVE y \in Range(mapping)
      OBVIOUS
    <2>1. PICK i \in 1..Len(layout) : layout[i] \in olds /\ y = mapping[layout[i]]
      BY <1>6, <1>8, <1>9
    <2> QED BY <2>1 DEF Range
  <1>11. ASSUME IsInjective(layout), IsInjective(mapping) PROVE Once(o)
    <2>1. Once(layout)
      BY <1>11, SetOf
    <2>2. \A i, j \in 1..Len(layout) : layout[i] = layout[j] => i = j
      BY <2>1 DEF Once
    <2>3. \A a, b \in olds : mapping[a] = mapping[b] => a = b
      BY <1>11 DEF IsInjective
    <2>4. \A i, j \in 1..Len(layout) : \A y :
             Has(of[layout[i]], y) /\ Has(of[layout[j]], y) => layout[i] = layout[j]
      <3> TAKE i, j \in 1..Len(layout)
      <3> TAKE y
      <3>1. /\ Has(of[layout[i]], y) <=> layout[i] \in olds /\ y = mapping[layout[i]]
            /\ Has(of[layout[j]], y) <=> layout[j] \in olds /\ y = mapping[layout[j]]
        BY <1>6
      <3> QED BY <2>3, <3>1
    <2>5. Apart(layout, of, Len(layout))
      BY <1>7, <2>2, <2>4 DEF Apart
    <2> QED BY <1>5, <2>5 DEF RowOf
  <1>12. IsInjective(o) <=> Once(o)
    BY <1>8, SetOf
  <1> QED BY <1>8, <1>10, <1>11, <1>12 DEF o

---------------------------------------------------------------------------
(* Windows.                                                                 *)

\* No id, or '', is not an id of isshd.
LEMMA NoneIsNoId == None \notin TabIds
  BY DEF None, TabIds

WindowOK(w) == w \in WindowType
\* The record of a window says what its tabs are.
Current(w) ==
    [i \in DOMAIN w.saved.tabs |-> w.saved.tabs[i].kind]
       = [i \in DOMAIN w.tabs |-> Recorded(w.tabs)[i].kind]
\* No session has two panes, nor will have after a restart.
Ordered(w) == IsInjective(w.layout) /\ IsInjective(w.saved.layout)
\* Every pane has a tab, or an id of K; so has what is maximised, and what is active has one
\* of A. A tab in the layout has a pane, or its id was known before it. With a tab there is an
\* active one.
Sound(w, K, A) ==
    /\ ToSet(w.layout) \subseteq IdsOf(w) \cup K
    /\ ToSet(w.layout) \cap IdsOf(w) \subseteq ToSet(w.panes) \cup K
    /\ w.maximized \in IdsOf(w) \cup K \cup {None}
    /\ w.active \in IdsOf(w) \cup A \cup {None}
    /\ w.tabs # <<>> => w.active # None
\* v is w with fewer tabs and panes.
Lessens(w, v) ==
    /\ WindowOK(v)
    /\ IdsOf(v) \subseteq IdsOf(w)
    /\ ToSet(v.layout) \subseteq ToSet(w.layout)
    /\ Ordered(w) => Ordered(v)
    /\ Current(w) => Current(v)

\* Two handlers that only take away, one after the other, only take away.
LEMMA LessensOn ==
    ASSUME NEW u, NEW v, NEW w, Lessens(u, v), Lessens(v, w)
    PROVE  Lessens(u, w)
  BY DEF Lessens

\* A handler that does nothing only takes away.
LEMMA LessensSelf == ASSUME NEW w, WindowOK(w) PROVE Lessens(w, w)
  BY DEF Lessens

\* The ids of the tabs, and of some of them.
LEMMA IdsAre ==
    ASSUME NEW w, WindowOK(w)
    PROVE  /\ \A x : x \in IdsOf(w) <=> \E tab \in ToSet(w.tabs) : tab.id = x
           /\ IdsOf(w) \subseteq TabIds
           /\ w.tabs = <<>> <=> IdsOf(w) = {}
  <1>1. w.tabs \in Seq(TabType)
    BY DEF WindowOK, WindowType
  <1>2. \A x : x \in IdsOf(w) <=> \E tab \in ToSet(w.tabs) : tab.id = x
    BY DEF IdsOf, ToSet
  <1>3. \A tab \in ToSet(w.tabs) : tab.id \in TabIds
    <2>1. ToSet(w.tabs) \subseteq TabType
      BY <1>1, SetOf
    <2> QED BY <2>1 DEF TabType
  <1>4. w.tabs = <<>> <=> ToSet(w.tabs) = {}
    BY <1>1, SetOf
  <1> QED BY <1>2, <1>3, <1>4

\* persistTabRecovery writes what there is.
PersistsTo(w, p) ==
    /\ p \in WindowType /\ p.tabs = w.tabs /\ p.active = w.active /\ p.home = w.home
    /\ p.layout = w.layout /\ p.panes = w.panes /\ p.maximized = w.maximized
    /\ p.saved.layout \in {w.layout, <<>>} /\ Current(p)
\* Persist changes the record only, and makes it that of the tabs.
LEMMA PersistFacts ==
    ASSUME NEW w \in WindowType
    PROVE  PersistsTo(w, Persist(w))
  <1> DEFINE r == IF w.tabs = <<>> THEN NoRecord ELSE [layout |-> w.layout, tabs |-> Recorded(w.tabs)]
             p == Persist(w)
  <1>0. w.tabs \in Seq(TabType) /\ w.layout \in Seq(TabIds)
    BY DEF WindowType
  <1>1. Recorded(w.tabs) \in Seq(EntryType) /\ DOMAIN Recorded(w.tabs) = DOMAIN w.tabs
    <2>1. \A i \in DOMAIN w.tabs : w.tabs[i].id \in TabIds
      <3>1. \A i \in DOMAIN w.tabs : w.tabs[i] \in TabType
        BY <1>0
      <3> QED BY <3>1 DEF TabType
    <2>2. DOMAIN w.tabs = 1..Len(w.tabs) /\ Len(w.tabs) \in Nat
      BY <1>0
    <2> QED BY <2>1, <2>2 DEF Recorded, EntryType
  <1>2. r \in RecordType /\ r.layout \in {w.layout, <<>>}
    BY <1>0, <1>1 DEF RecordType, NoRecord
  <1>3. DOMAIN r.tabs = DOMAIN w.tabs /\ \A i \in DOMAIN w.tabs : r.tabs[i] = Recorded(w.tabs)[i]
    <2>1. CASE w.tabs = <<>>
      BY <2>1 DEF NoRecord
    <2>2. CASE w.tabs # <<>>
      BY <1>1, <2>2
    <2> QED BY <2>1, <2>2
  <1>4. p = [w EXCEPT !.saved = r]
    BY DEF Persist
  <1> HIDE DEF r, p
  <1>5. /\ p \in WindowType /\ p.tabs = w.tabs /\ p.active = w.active /\ p.home = w.home
        /\ p.layout = w.layout /\ p.panes = w.panes /\ p.maximized = w.maximized /\ p.saved = r
    BY <1>2, <1>4 DEF WindowType
  <1>6. Current(p)
    BY <1>3, <1>5 DEF Current
  <1> QED BY <1>2, <1>5, <1>6 DEF PersistsTo, p

\* The first half of closeTab.
RemovesTo(w, id, r) ==
    /\ WindowOK(r) /\ r.active = w.active /\ r.home = w.home
    /\ \A x : x \in IdsOf(r) <=> x \in IdsOf(w) /\ x # id
    /\ \A x : x \in ToSet(r.layout) <=> x \in ToSet(w.layout) /\ x # id
    /\ IsInjective(w.layout) => IsInjective(r.layout)
    /\ ToSet(r.panes) = ToSet(r.layout) \cap IdsOf(r)
    /\ r.maximized = IF w.maximized = id THEN None ELSE w.maximized
    /\ r.saved.layout \in {r.layout, <<>>} /\ Current(r)
\* What the first half of closeTab leaves: all but the tab that is closed.
LEMMA RemovedFacts ==
    ASSUME NEW w, WindowOK(w), NEW id
    PROVE  RemovesTo(w, id, Removed(w, id))
  <1> DEFINE tabs   == Others(w.tabs, id)
             layout == Without(w.layout, id)
             high   == IF w.maximized = id THEN None ELSE w.maximized
             m == [w EXCEPT !.tabs = tabs, !.layout = layout, !.maximized = high]
             s == Sync(m)
             r == Removed(w, id)
  <1>0. w \in WindowType /\ w.tabs \in Seq(TabType) /\ w.layout \in Seq(TabIds)
    BY DEF WindowOK, WindowType
  <1>1. /\ tabs \in Seq(TabType)
        /\ \A tab : tab \in ToSet(tabs) <=> tab \in ToSet(w.tabs) /\ tab.id # id
    <2>1. tabs = Only(w.tabs, {tab \in ToSet(w.tabs) : tab.id # id})
      BY DEF Others
    <2> HIDE DEF tabs
    <2>2. /\ tabs \in Seq(TabType)
          /\ ToSet(tabs) = ToSet(w.tabs) \cap {tab \in ToSet(w.tabs) : tab.id # id}
      BY <1>0, <2>1, OnlyFacts
    <2> QED BY <2>2
  <1>2. /\ layout \in Seq(TabIds)
        /\ \A x : x \in ToSet(layout) <=> x \in ToSet(w.layout) /\ x # id
        /\ IsInjective(w.layout) => IsInjective(layout)
    <2>1. layout = Only(w.layout, ToSet(w.layout) \ {id})
      BY DEF Without
    <2> HIDE DEF layout
    <2>2. /\ layout \in Seq(TabIds) /\ ToSet(layout) = ToSet(w.layout) \cap (ToSet(w.layout) \ {id})
          /\ IsInjective(w.layout) => IsInjective(layout)
      BY <1>0, <2>1, OnlyFacts
    <2> QED BY <2>2
  <1>3. high \in MaybeId
    BY <1>0 DEF WindowType, MaybeId
  <1>4. r = Persist(s)
    BY DEF Removed
  <1> HIDE DEF tabs, layout, high, r
  <1>5. /\ m \in WindowType /\ m.tabs = tabs /\ m.active = w.active /\ m.home = w.home
        /\ m.layout = layout /\ m.panes = w.panes /\ m.maximized = high
    BY <1>0, <1>1, <1>2, <1>3 DEF WindowType
  <1> DEFINE panes == Only(layout, IdsOf(m))
  <1>6. panes \in Seq(TabIds) /\ ToSet(panes) = ToSet(layout) \cap IdsOf(m)
    BY <1>2, OnlyFacts
  <1>7. s = [m EXCEPT !.panes = panes]
    BY <1>5 DEF Sync, LayoutPanes
  <1> HIDE DEF m, s, panes
  <1>8. /\ s \in WindowType /\ s.tabs = tabs /\ s.active = w.active /\ s.home = w.home
        /\ s.layout = layout /\ s.panes = panes /\ s.maximized = high
    BY <1>5, <1>6, <1>7 DEF WindowType
  <1>9. PersistsTo(s, r)
    BY <1>4, <1>8, PersistFacts
  <1>10. /\ r \in WindowType /\ r.tabs = tabs /\ r.active = w.active /\ r.home = w.home
         /\ r.layout = layout /\ r.panes = panes /\ r.maximized = high
         /\ r.saved.layout \in {r.layout, <<>>} /\ Current(r)
    BY <1>8, <1>9 DEF PersistsTo
  <1>11. WindowOK(r)
    BY <1>1, <1>10 DEF WindowOK
  <1>12. \A x : x \in IdsOf(r) <=> x \in IdsOf(w) /\ x # id
    <2>1. \A x : x \in IdsOf(r) <=> \E tab \in ToSet(tabs) : tab.id = x
      BY <1>10, <1>11, IdsAre
    <2>2. \A x : x \in IdsOf(w) <=> \E tab \in ToSet(w.tabs) : tab.id = x
      BY IdsAre
    <2> QED BY <1>1, <2>1, <2>2
  <1>13. IdsOf(m) = IdsOf(r)
    BY <1>5, <1>10 DEF IdsOf
  <1> QED BY <1>2, <1>6, <1>10, <1>11, <1>12, <1>13 DEF RemovesTo, high, r

\* A window without split, as closeSplit makes it before it closes the other panes.
Bare(w, A) ==
    /\ WindowOK(w) /\ w.layout = <<>> /\ w.maximized = None
    /\ w.active \in IdsOf(w) \cup A \cup {None}
    /\ w.tabs # <<>> => w.active # None

\* closeTab for a pane of a closed split.
ClonesTo(w, id, A, v) ==
    Bare(v, A) /\ Lessens(w, v) /\ IdsOf(w) \ {id} \subseteq IdsOf(v)
\* closeTab of a pane, in the loop of closeSplit: there is no layout any more.
LEMMA CloseCloneFacts ==
    ASSUME NEW A, NEW w, Bare(w, A), NEW id
    PROVE  ClonesTo(w, id, A, CloseClone(w, id))
  <1> DEFINE v == CloseClone(w, id)
             r == Removed(w, id)
             first == [r EXCEPT !.active = r.tabs[1].id, !.home = FALSE]
             empty == [r EXCEPT !.active = None]
  <1>0. WindowOK(w) /\ w.layout = <<>>
    BY DEF Bare
  <1>1. CASE id \notin IdsOf(w)
    <2>1. v = w
      BY <1>1 DEF CloseClone
    <2> QED BY <1>0, <2>1, LessensSelf DEF ClonesTo
  <1>2. CASE id \in IdsOf(w)
    <2>1. RemovesTo(w, id, r)
      BY <1>0, RemovedFacts
    <2>2. v = IF r.active # id THEN r ELSE IF r.tabs = <<>> THEN empty ELSE first
      BY <1>2 DEF CloseClone
    <2> HIDE DEF r, v
    <2>3. WindowOK(r) /\ r.tabs \in Seq(TabType) /\ r.layout \in Seq(TabIds)
      BY <2>1 DEF RemovesTo, WindowOK, WindowType, TabType
    <2>4. r.layout = <<>>
      <3>1. ToSet(w.layout) = {}
        BY <1>0 DEF ToSet
      <3>2. ToSet(r.layout) = {}
        BY <2>1, <3>1 DEF RemovesTo
      <3> QED BY <2>3, <3>2, SetOf
    <2>5. r.maximized = None /\ IdsOf(r) = IdsOf(w) \ {id} /\ r.active = w.active
      BY <2>1 DEF RemovesTo, Bare
    <2>6. IsInjective(<<>>)
      BY DEF IsInjective
    <2>7. IsInjective(r.layout) /\ IsInjective(r.saved.layout) /\ Current(r)
      BY <2>1, <2>4, <2>6 DEF RemovesTo
    <2>8. r.tabs = <<>> <=> IdsOf(r) = {}
      BY <2>3, IdsAre
    <2> DEFINE Good(u) == u.tabs = r.tabs /\ u.layout = r.layout /\ u.saved = r.saved
                          /\ u.maximized = r.maximized /\ WindowOK(u)
    <2>9. ASSUME NEW u, Good(u), u.active \in IdsOf(r) \cup A \cup {None},
                 r.tabs # <<>> => u.active # None
          PROVE  ClonesTo(w, id, A, u)
      <3>1. IdsOf(u) = IdsOf(r)
        BY <2>9 DEF IdsOf
      <3>2. Bare(u, A)
        BY <2>4, <2>5, <2>9, <3>1 DEF Bare
      <3>3. Current(u)
        BY <2>7, <2>9 DEF Current
      <3>4. Lessens(w, u)
        BY <1>0, <2>4, <2>5, <2>7, <2>9, <3>1, <3>3 DEF Lessens, Ordered
      <3> QED BY <2>5, <3>1, <3>2, <3>4 DEF ClonesTo
    <2> SUFFICES /\ Good(v) /\ v.active \in IdsOf(r) \cup A \cup {None}
                 /\ r.tabs # <<>> => v.active # None
      <3> HIDE DEF Good
      <3> QED BY <2>9 DEF v
    <2>10. CASE r.active # id
      <3>1. v = r
        BY <2>2, <2>10
      <3>2. r.tabs # <<>> => w.tabs # <<>>
        BY <1>0, <2>5, <2>8, IdsAre
      <3>3. r.active \in IdsOf(r) \cup A \cup {None} /\ (r.tabs # <<>> => r.active # None)
        BY <2>5, <2>10, <3>2 DEF Bare
      <3> QED BY <2>3, <3>1, <3>3
    <2>11. CASE r.active = id /\ r.tabs = <<>>
      <3>1. v = empty
        BY <2>2, <2>11
      <3>2. Good(empty) /\ empty.active = None
        BY <2>3 DEF WindowOK, WindowType, MaybeId
      <3> HIDE DEF empty
      <3> QED BY <2>11, <3>1, <3>2
    <2>12. CASE r.active = id /\ r.tabs # <<>>
      <3>1. v = first
        BY <2>2, <2>12
      <3>2. r.tabs[1].id \in IdsOf(r)
        BY <2>3, <2>12 DEF IdsOf
      <3>3. r.tabs[1].id \in TabIds
        BY <2>3, <3>2, IdsAre
      <3>4. r.tabs[1].id # None
        BY <3>3, NoneIsNoId
      <3>5. Good(first) /\ first.active = r.tabs[1].id
        BY <2>3, <3>3 DEF WindowOK, WindowType, MaybeId
      <3> HIDE DEF first
      <3> QED BY <2>12, <3>1, <3>2, <3>4, <3>5
    <2> QED BY <2>10, <2>11, <2>12
  <1> QED BY <1>1, <1>2

\* A window without a layout, whose active tab is one, is in order.
LEMMA BareIsSound ==
    ASSUME NEW w, NEW A, NEW K, Bare(w, A)
    PROVE  Sound(w, K, A)
  <1>1. ToSet(w.layout) = {}
    BY DEF Bare, ToSet
  <1> QED BY <1>1 DEF Bare, Sound

\* closeSplit closes the panes one by one; it ends, as the number of them is finite.
Cleared(w) == [w EXCEPT !.panes = <<>>, !.maximized = None, !.layout = <<>>,
                        !.active = IF @ \in ToSet(w.layout) THEN w.layout[1] ELSE @]
ClosedTo(w, n, f) ==
    f = [i \in 1..n |-> IF i = 1 THEN Cleared(w) ELSE CloseClone(f[i - 1], w.layout[i])]
\* The loop of closeSplit is a recursive function; it has a value for every pane.
LEMMA CloseSplitEnds ==
    ASSUME NEW w, w.layout \in Seq(TabIds)
    PROVE  \E f : /\ ClosedTo(w, Len(w.layout), f)
                  /\ CloseSplit(w) = Persist(IF w.layout = <<>> THEN Cleared(w)
                                             ELSE f[Len(w.layout)])
  <1> DEFINE Bad == {n \in 0..Len(w.layout) : ~ \E f : ClosedTo(w, n, f)}
  <1>0. Len(w.layout) \in Nat
    OBVIOUS
  <1>1. Bad = {}
    <2> SUFFICES ASSUME Bad # {} PROVE FALSE
      OBVIOUS
    <2>1. PICK n \in Bad : \A m \in Bad : n <= m
      <3>1. Bad \subseteq Nat
        BY <1>0
      <3> QED BY <3>1, LeastIsThere
    <2>2. n # 0
      <3> DEFINE f == [i \in 1..0 |-> Cleared(w)]
      <3>1. \A i \in 1..0 : FALSE
        OBVIOUS
      <3>2. f = [i \in 1..0 |-> IF i = 1 THEN Cleared(w) ELSE CloseClone(f[i - 1], w.layout[i])]
        BY <3>1
      <3> HIDE DEF f
      <3>3. ClosedTo(w, 0, f)
        BY <3>2 DEF ClosedTo
      <3> QED BY <3>3
    <2>3. n \in Nat /\ n - 1 \in 0..Len(w.layout) /\ ~(n <= n - 1)
      BY <1>0, <2>2
    <2>4. PICK f : ClosedTo(w, n - 1, f)
      BY <2>1, <2>3
    <2> DEFINE last   == IF n = 1 THEN Cleared(w) ELSE CloseClone(f[n - 1], w.layout[n])
               longer == [i \in 1..n |-> IF i = n THEN last ELSE f[i]]
               Value(g, i) == IF i = 1 THEN Cleared(w) ELSE CloseClone(g[i - 1], w.layout[i])
    <2>5. \A i \in 1..n : longer[i] = Value(longer, i)
      <3> SUFFICES ASSUME NEW i \in 1..n PROVE longer[i] = Value(longer, i)
        OBVIOUS
      <3>1. i # 1 => longer[i - 1] = f[i - 1]
        BY <2>3
      <3>2. Value(longer, i) = Value(f, i)
        BY <3>1
      <3>3. CASE i = n
        BY <3>2, <3>3
      <3>4. CASE i # n
        <4>1. i \in 1..(n - 1) /\ longer[i] = f[i]
          BY <2>3, <3>4
        <4>2. f[i] = Value(f, i)
          BY <2>4, <4>1 DEF ClosedTo
        <4> QED BY <3>2, <4>1, <4>2
      <3> QED BY <3>3, <3>4
    <2>6. longer = [i \in 1..n |-> longer[i]]
      OBVIOUS
    <2> HIDE DEF longer
    <2>7. ClosedTo(w, n, longer)
      BY <2>5, <2>6 DEF ClosedTo
    <2> QED BY <2>1, <2>7
  <1>2. \E f : ClosedTo(w, Len(w.layout), f)
    BY <1>0, <1>1
  <1> DEFINE f == CHOOSE f : ClosedTo(w, Len(w.layout), f)
  <1>3. ClosedTo(w, Len(w.layout), f)
    BY <1>2
  <1>4. CloseSplit(w) = Persist(IF w.layout = <<>> THEN Cleared(w) ELSE f[Len(w.layout)])
    BY Zenon DEF CloseSplit, ClosedTo, Cleared
  <1> HIDE DEF f
  <1> QED BY <1>3, <1>4

\* closeSplit: the first pane keeps its tab, and so does what is in none.
SplitsTo(w, A, v) ==
    /\ Bare(v, A) /\ Lessens(w, v) /\ Current(v)
    /\ IdsOf(w) \ ToSet(w.layout) \subseteq IdsOf(v)
\* closeSplit leaves a window without a layout that is in order.
LEMMA CloseSplitFacts ==
    ASSUME NEW K, NEW A, K \subseteq A, NEW w, WindowOK(w), Sound(w, K, A)
    PROVE  SplitsTo(w, A, CloseSplit(w))
  <1> DEFINE c    == Cleared(w)
             next == IF w.active \in ToSet(w.layout) THEN w.layout[1] ELSE w.active
             n    == Len(w.layout)
             Good(u) == Bare(u, A) /\ Lessens(w, u) /\ IdsOf(w) \ ToSet(w.layout) \subseteq IdsOf(u)
  <1>0. w \in WindowType /\ w.layout \in Seq(TabIds) /\ w.active \in MaybeId /\ n \in Nat
    BY DEF WindowOK, WindowType
  <1>1. \A i \in 1..n : w.layout[i] \in ToSet(w.layout) /\ w.layout[i] \in TabIds
    BY <1>0 DEF ToSet
  <1>2. next \in MaybeId /\ next \in IdsOf(w) \cup A \cup {None} /\ (w.tabs # <<>> => next # None)
    <2>1. CASE w.active \in ToSet(w.layout)
      <3>1. w.layout # <<>>
        BY <2>1 DEF ToSet
      <3>2. 1 \in 1..n
        BY <1>0, <3>1
      <3>3. next \in ToSet(w.layout) /\ next \in TabIds
        BY <1>1, <2>1, <3>2
      <3> HIDE DEF next
      <3> QED BY <3>3, NoneIsNoId DEF Sound, MaybeId
    <2>2. CASE w.active \notin ToSet(w.layout)
      BY <1>0, <2>2 DEF Sound
    <2> QED BY <2>1, <2>2
  <1>3. c = [w EXCEPT !.panes = <<>>, !.maximized = None, !.layout = <<>>, !.active = next]
    BY <1>0 DEF Cleared, WindowType
  <1> HIDE DEF next, c, n
  <1>4. /\ c \in WindowType /\ c.tabs = w.tabs /\ c.active = next /\ c.layout = <<>>
        /\ c.maximized = None /\ c.saved = w.saved
    <2>1. <<>> \in Seq(TabIds) /\ None \in MaybeId
      BY DEF MaybeId
    <2> QED BY <1>0, <1>2, <1>3, <2>1 DEF WindowType
  <1>5. Good(c)
    <2>1. IdsOf(c) = IdsOf(w) /\ WindowOK(c) /\ (Current(w) => Current(c))
      BY <1>4 DEF IdsOf, WindowOK, Current
    <2>2. IsInjective(<<>>) /\ ToSet(<<>>) = {}
      BY DEF IsInjective, ToSet
    <2>3. Lessens(w, c)
      BY <1>4, <2>1, <2>2 DEF Lessens, Ordered
    <2>4. Bare(c, A)
      BY <1>2, <1>4, <2>1 DEF Bare
    <2> QED BY <2>1, <2>3, <2>4
  <1>6. PICK f : /\ ClosedTo(w, n, f)
                 /\ CloseSplit(w) = Persist(IF w.layout = <<>> THEN c ELSE f[n])
    BY <1>0, CloseSplitEnds DEF c, n
  <1>7. \A i \in 1..n : f[i] = IF i = 1 THEN c ELSE CloseClone(f[i - 1], w.layout[i])
    BY <1>6 DEF ClosedTo, c
  <1>8. \A i \in 1..n : Good(f[i])
    <2> DEFINE Bad == {i \in 1..n : ~Good(f[i])}
    <2> HIDE DEF Good
    <2> SUFFICES ASSUME Bad # {} PROVE FALSE
      OBVIOUS
    <2>1. PICK i \in Bad : \A j \in Bad : i <= j
      <3>1. Bad \subseteq Nat
        BY <1>0 DEF n
      <3> QED BY <3>1, LeastIsThere
    <2>2. i # 1
      BY <1>5, <1>7, <2>1
    <2>3. i - 1 \in 1..n /\ ~(i <= i - 1) /\ i \in 1..n /\ ~Good(f[i])
      BY <1>0, <2>1, <2>2 DEF n
    <2>4. Good(f[i - 1])
      BY <2>1, <2>3
    <2> DEFINE u == f[i - 1]
               v == f[i]
    <2>5. Bare(u, A) /\ Lessens(w, u) /\ IdsOf(w) \ ToSet(w.layout) \subseteq IdsOf(u)
      BY <2>4 DEF Good
    <2>6. v = CloseClone(u, w.layout[i]) /\ w.layout[i] \in ToSet(w.layout)
      BY <1>1, <1>7, <2>2, <2>3 DEF n
    <2>7. ~Good(v)
      BY <2>3
    <2> HIDE DEF u, v
    <2>8. ClonesTo(u, w.layout[i], A, v)
      BY <2>5, <2>6, CloseCloneFacts
    <2>9. Lessens(w, v)
      BY <2>5, <2>8, LessensOn DEF ClonesTo
    <2>10. Good(v)
      BY <2>5, <2>6, <2>8, <2>9 DEF Good, ClonesTo
    <2> QED BY <2>7, <2>10
  <1> DEFINE u == IF w.layout = <<>> THEN c ELSE f[n]
             v == CloseSplit(w)
  <1>9. Good(u)
    <2>1. w.layout # <<>> => n \in 1..n
      BY <1>0 DEF n
    <2> HIDE DEF Good
    <2> QED BY <1>5, <1>8, <2>1
  <1>10. v = Persist(u)
    BY <1>6
  <1> HIDE DEF u, v
  <1>11. PersistsTo(u, v)
    BY <1>9, <1>10, PersistFacts DEF Bare, WindowOK
  <1>12. /\ WindowOK(u) /\ u.layout = <<>> /\ u.maximized = None
         /\ u.active \in IdsOf(u) \cup A \cup {None} /\ (u.tabs # <<>> => u.active # None)
    BY <1>9 DEF Bare
  <1>13. /\ v.tabs = u.tabs /\ v.layout = <<>> /\ v.active = u.active /\ v.maximized = None
         /\ v.saved.layout = <<>> /\ Current(v) /\ v \in WindowType /\ IdsOf(v) = IdsOf(u)
    BY <1>11, <1>12 DEF PersistsTo, IdsOf
  <1>14. WindowOK(v) /\ Bare(v, A)
    BY <1>12, <1>13 DEF WindowOK, Bare
  <1>15. Lessens(u, v)
    <2>1. IsInjective(<<>>)
      BY DEF IsInjective
    <2> QED BY <1>12, <1>13, <1>14, <2>1 DEF Lessens, Ordered
  <1>16. Lessens(w, v)
    BY <1>9, <1>15, LessensOn
  <1> QED BY <1>9, <1>13, <1>14, <1>16 DEF SplitsTo, v

\* More ids may be known.
LEMMA SoundMore ==
    ASSUME NEW w, NEW K, NEW A, NEW L, NEW B, Sound(w, K, A), K \subseteq L, A \subseteq B
    PROVE  Sound(w, L, B)
  BY DEF Sound

\* activateTab, of a tab that is there.
ActivatesTo(w, K, v) == Lessens(w, v) /\ Sound(v, K, K)
\* activateTab leaves a window in order, whether or not it closes the split.
LEMMA ActivateFacts ==
    ASSUME NEW K, NEW A, K \subseteq A, NEW w, WindowOK(w), Sound(w, K, A), NEW id \in IdsOf(w)
    PROVE  ActivatesTo(w, K, Activate(w, id))
  <1> DEFINE s == IF Len(w.panes) > 1 /\ id \notin ToSet(w.panes) THEN CloseSplit(w) ELSE w
             v == [s EXCEPT !.active = id, !.home = FALSE]
  <1>0. id \in TabIds /\ id # None
    BY IdsAre, NoneIsNoId
  <1>1. CASE w.active = id /\ ~w.home
    <2>1. Activate(w, id) = w
      BY <1>1 DEF Activate
    <2>2. Sound(w, K, K)
      BY <1>1 DEF Sound
    <2> QED BY <2>1, <2>2, LessensSelf DEF ActivatesTo
  <1>2. CASE ~(w.active = id /\ ~w.home)
    <2>1. Activate(w, id) = v
      BY <1>2 DEF Activate
    <2>2. Lessens(w, s) /\ Sound(s, K, A) /\ id \in IdsOf(s) \cup K
      <3>1. CASE Len(w.panes) > 1 /\ id \notin ToSet(w.panes)
        <4>1. s = CloseSplit(w)
          BY <3>1
        <4> HIDE DEF s
        <4>2. SplitsTo(w, A, s)
          BY <4>1, CloseSplitFacts
        <4>3. id \notin ToSet(w.layout) \/ id \in K
          BY <3>1 DEF Sound
        <4> QED BY <4>2, <4>3, BareIsSound DEF SplitsTo
      <3>2. CASE ~(Len(w.panes) > 1 /\ id \notin ToSet(w.panes))
        BY <3>2, LessensSelf
      <3> QED BY <3>1, <3>2
    <2> HIDE DEF s
    <2>3. WindowOK(s) /\ s \in WindowType
      BY <2>2 DEF Lessens, WindowOK
    <2>4. /\ v \in WindowType /\ v.tabs = s.tabs /\ v.layout = s.layout /\ v.saved = s.saved
          /\ v.panes = s.panes /\ v.maximized = s.maximized /\ v.active = id
      BY <1>0, <2>3 DEF WindowType, MaybeId
    <2> HIDE DEF v
    <2>5. IdsOf(v) = IdsOf(s) /\ WindowOK(v) /\ (Current(s) => Current(v))
      BY <2>3, <2>4 DEF IdsOf, WindowOK, Current
    <2>6. Lessens(s, v)
      BY <2>4, <2>5 DEF Lessens, Ordered
    <2>7. Sound(v, K, K)
      BY <1>0, <2>2, <2>4, <2>5 DEF Sound
    <2> QED BY <2>1, <2>2, <2>6, <2>7, LessensOn DEF ActivatesTo, v
  <1> QED BY <1>1, <1>2

\* closeTab: the tab goes, then perhaps the split, then another tab becomes active.
ClosesTo(w, K, v) == Lessens(w, v) /\ Current(v) /\ Sound(v, K, K)
\* closeTab leaves a window in order, and the record is that of its tabs.
LEMMA CloseTabFacts ==
    ASSUME NEW K, NEW w, WindowOK(w), Sound(w, K, K), NEW id
    PROVE  ClosesTo(w, K, CloseTab(w, id))
  <1> DEFINE r == Removed(w, id)
             s == IF r.layout # <<>> /\ Len(r.panes) < 2 THEN CloseSplit(r) ELSE r
             A == K \cup {id}
             empty == [s EXCEPT !.active = None]
             next  == NextTab(s)
             v == CloseTab(w, id)
  <1>0. v = IF s.active # id THEN s ELSE IF s.tabs = <<>> THEN empty ELSE Activate(s, next)
    BY DEF CloseTab
  <1>1. RemovesTo(w, id, r)
    BY RemovedFacts
  <1> HIDE DEF r, v, A
  <1>2. WindowOK(r) /\ r \in WindowType /\ Current(r)
    BY <1>1 DEF RemovesTo, WindowOK
  <1>3. Lessens(w, r)
    <2>1. IsInjective(<<>>)
      BY DEF IsInjective
    <2>2. Ordered(w) => Ordered(r)
      BY <1>1, <2>1 DEF RemovesTo, Ordered
    <2> QED BY <1>1, <1>2, <2>2 DEF RemovesTo, Lessens
  <1>4. Sound(r, K, A)
    <2>1. r.tabs # <<>> => w.tabs # <<>>
      BY <1>1, <1>2, IdsAre DEF RemovesTo
    <2>2. r.active = w.active
      BY <1>1 DEF RemovesTo
    <2>3. r.active \in IdsOf(r) \cup A \cup {None}
      BY <1>1, <2>2 DEF RemovesTo, Sound, A
    <2>4. r.maximized \in IdsOf(r) \cup K \cup {None}
      BY <1>1 DEF RemovesTo, Sound
    <2>5. ToSet(r.layout) \subseteq IdsOf(r) \cup K
      BY <1>1 DEF RemovesTo, Sound
    <2>6. ToSet(r.layout) \cap IdsOf(r) \subseteq ToSet(r.panes)
      BY <1>1 DEF RemovesTo
    <2> QED BY <2>1, <2>2, <2>3, <2>4, <2>5, <2>6 DEF Sound
  <1>5. Lessens(r, s) /\ Current(s) /\ Sound(s, K, A)
    <2>1. CASE r.layout # <<>> /\ Len(r.panes) < 2
      <3>1. s = CloseSplit(r)
        BY <2>1
      <3>2. K \subseteq A
        BY DEF A
      <3> HIDE DEF s
      <3>3. SplitsTo(r, A, s)
        BY <1>2, <1>4, <3>1, <3>2, CloseSplitFacts
      <3> QED BY <3>3, BareIsSound DEF SplitsTo
    <2>2. CASE ~(r.layout # <<>> /\ Len(r.panes) < 2)
      BY <1>2, <1>4, <2>2, LessensSelf
    <2> QED BY <2>1, <2>2
  <1> HIDE DEF s
  <1>6. Lessens(w, s) /\ WindowOK(s) /\ s \in WindowType
    BY <1>3, <1>5, LessensOn DEF Lessens, WindowOK
  <1>7. CASE s.active # id
    <2>1. Sound(s, K, K)
      BY <1>5, <1>7 DEF Sound, A
    <2> QED BY <1>0, <1>5, <1>6, <1>7, <2>1 DEF ClosesTo, v
  <1>8. CASE s.active = id /\ s.tabs = <<>>
    <2>1. /\ empty \in WindowType /\ empty.tabs = s.tabs /\ empty.layout = s.layout
          /\ empty.saved = s.saved /\ empty.panes = s.panes /\ empty.maximized = s.maximized
          /\ empty.active = None
      BY <1>6 DEF WindowType, MaybeId
    <2>2. v = empty
      BY <1>0, <1>8
    <2> HIDE DEF empty
    <2>3. IdsOf(empty) = IdsOf(s) /\ WindowOK(empty) /\ Current(empty)
      BY <1>5, <1>6, <2>1 DEF IdsOf, WindowOK, Current
    <2>4. Lessens(s, empty)
      BY <2>1, <2>3 DEF Lessens, Ordered
    <2>5. Sound(empty, K, K)
      BY <1>5, <1>8, <2>1, <2>3 DEF Sound
    <2> QED BY <1>6, <2>2, <2>3, <2>4, <2>5, LessensOn DEF ClosesTo, v
  <1>9. CASE s.active = id /\ s.tabs # <<>>
    <2>1. v = Activate(s, next)
      BY <1>0, <1>9
    <2>2. next \in IdsOf(s)
      <3>1. s.tabs[1].id \in IdsOf(s)
        <4>1. s.tabs \in Seq(TabType)
          BY <1>6 DEF WindowType
        <4> QED BY <1>9, <4>1 DEF IdsOf
      <3> QED BY <3>1 DEF NextTab
    <2> HIDE DEF next
    <2>3. K \subseteq A
      BY DEF A
    <2>4. ActivatesTo(s, K, v)
      BY <1>5, <1>6, <2>1, <2>2, <2>3, ActivateFacts
    <2>5. Current(v)
      BY <1>5, <2>4 DEF ActivatesTo, Lessens
    <2> QED BY <1>6, <2>4, <2>5, LessensOn DEF ActivatesTo, ClosesTo, v
  <1> QED BY <1>7, <1>8, <1>9

\* closeHeaderTab
LEMMA CloseHeaderFacts ==
    ASSUME NEW K, NEW w, WindowOK(w), Sound(w, K, K), NEW id
    PROVE  ClosesTo(w, K, CloseHeader(w, id))
  <1> DEFINE s == IF HasSplit(w) /\ id = Root(w) THEN CloseSplit(w) ELSE w
  <1>1. Lessens(w, s) /\ Sound(s, K, K)
    <2>1. CASE HasSplit(w) /\ id = Root(w)
      <3>1. s = CloseSplit(w)
        BY <2>1
      <3> HIDE DEF s
      <3>2. SplitsTo(w, K, s)
        BY <3>1, CloseSplitFacts
      <3> QED BY <3>2, BareIsSound DEF SplitsTo
    <2>2. CASE ~(HasSplit(w) /\ id = Root(w))
      BY <2>2, LessensSelf
    <2> QED BY <2>1, <2>2
  <1>2. CloseHeader(w, id) = CloseTab(s, id)
    BY DEF CloseHeader
  <1> HIDE DEF s
  <1>3. ClosesTo(s, K, CloseTab(s, id))
    BY <1>1, CloseTabFacts DEF Lessens
  <1> QED BY <1>1, <1>2, <1>3, LessensOn DEF ClosesTo

\* The effect drops a layout without tabs.
DropsTo(w, v) ==
    /\ Lessens(w, v) /\ IdsOf(v) = IdsOf(w) /\ v.tabs = w.tabs /\ v.saved = w.saved
    /\ \A K : Sound(w, K, K) => Sound(v, K, K)
\* The effect changes nothing but a layout without tabs.
LEMMA EffectFacts ==
    ASSUME NEW w, WindowOK(w)
    PROVE  DropsTo(w, Effect(w))
  <1> DEFINE v == [w EXCEPT !.layout = <<>>, !.panes = <<>>]
  <1>1. CASE w.layout # <<>> /\ ToSet(w.layout) \cap IdsOf(w) = {}
    <2>1. Effect(w) = v
      BY <1>1 DEF Effect
    <2>2. <<>> \in Seq(TabIds) /\ ToSet(<<>>) = {} /\ IsInjective(<<>>)
      BY DEF ToSet, IsInjective
    <2>3. /\ v \in WindowType /\ v.tabs = w.tabs /\ v.layout = <<>> /\ v.saved = w.saved
          /\ v.maximized = w.maximized /\ v.active = w.active
      BY <2>2 DEF WindowOK, WindowType
    <2> HIDE DEF v
    <2>4. IdsOf(v) = IdsOf(w) /\ WindowOK(v) /\ (Current(w) => Current(v))
      BY <2>3 DEF IdsOf, WindowOK, Current
    <2>5. Lessens(w, v)
      BY <2>2, <2>3, <2>4 DEF Lessens, Ordered
    <2>6. \A K : Sound(w, K, K) => Sound(v, K, K)
      BY <2>2, <2>3, <2>4 DEF Sound
    <2> QED BY <2>1, <2>3, <2>4, <2>5, <2>6 DEF DropsTo, v
  <1>2. CASE ~(w.layout # <<>> /\ ToSet(w.layout) \cap IdsOf(w) = {})
    BY <1>2, LessensSelf DEF Effect, DropsTo
  <1> QED BY <1>1, <1>2

\* The first new tab of a kind, if there is one.
LEMMA NewTabFacts ==
    ASSUME NEW w, WindowOK(w), NEW before, NEW kind
    PROVE  NewTab(w, before, kind) \in (IdsOf(w) \ before) \cup {None}
  <1> DEFINE set == {tab \in ToSet(w.tabs) : tab.id \notin before /\ tab.kind = kind}
             new == Only(w.tabs, set)
  <1>1. w.tabs \in Seq(TabType)
    BY DEF WindowOK, WindowType
  <1>2. NewTab(w, before, kind) = IF new = <<>> THEN None ELSE new[1].id
    BY DEF NewTab
  <1>3. new \in Seq(TabType) /\ ToSet(new) = ToSet(w.tabs) \cap set
    BY <1>1, OnlyFacts
  <1> HIDE DEF new
  <1>4. CASE new # <<>>
    <2>1. new[1] \in ToSet(new)
      BY <1>3, <1>4 DEF ToSet
    <2>2. new[1] \in ToSet(w.tabs) /\ new[1].id \notin before
      BY <1>3, <2>1
    <2> QED BY <1>2, <1>4, <2>2, IdsAre
  <1> QED BY <1>2, <1>4

---------------------------------------------------------------------------
(* The inductive invariant.                                                 *)

\* What a continuation holds is a tab, was one, or is nothing.
Known == IdsOf(window) \cup gone \cup {None}
CloneKnown(clone, known) == {clone.source, clone.previous, clone.found} \subseteq known
HeldKnown ==
    /\ \A c \in Slots : CloneKnown(clones[c], Known)
    /\ Range(restore.mapping) \subseteq Known
\* A clone has a source and a tab to go back to, and once it waits for the sync a new tab.
CloneReady(clone) ==
    /\ clone.step # "idle" => clone.source # None /\ clone.previous # None
    /\ clone.step = "syncing" => clone.found # None
    /\ clone.step # "syncing" => clone.found = None
ClonesReady == \A c \in Slots : CloneReady(clones[c])
\* While a tab of the record opens, it is still the next one.
RestoreReady(r) == r.step = "syncing" => r.todo # <<>>
\* No session is in two places of what the restore has read and made.
RestoreOrdered(r) ==
    IsInjective(r.record.layout) /\ IsInjective(r.layout) /\ IsInjective(r.mapping)
\* No tab is taken twice.
FoundsApart(cs, mapping) ==
    /\ \A c, d \in Slots : cs[c].found = cs[d].found => c = d \/ cs[c].found = None
    /\ \A c \in Slots : cs[c].found \notin Range(mapping)
\* The tabs can be put in an order, older[id] being those older than id, in which a new tab is
\* younger than the one it is split from, and an older pane is none.
Order(older) ==
    /\ older \in [TabIds -> SUBSET TabIds]
    /\ \A x \in TabIds : x \notin older[x] /\ \A y \in older[x] : older[y] \subseteq older[x]
Younger(older, clone, layout, ids) ==
    /\ clone.step = "syncing" => clone.source \in older[clone.found]
    /\ clone.found \in ToSet(layout) =>
          \A leaf \in ToSet(layout) : leaf = clone.found \/ clone.found \in older[leaf]
    /\ clone.step = "opening" /\ clone.kind = "profile" =>
          \A id \in ids \ clone.before : clone.source \in older[id]
Aged(cs, layout, ids) ==
    \E older : Order(older) /\ \A c \in Slots : Younger(older, cs[c], layout, ids)
Tidy ==
    \/ crossed
    \/ /\ Ordered(window) /\ RestoreOrdered(restore)
       /\ FoundsApart(clones, restore.mapping)
       /\ Aged(clones, window.layout, IdsOf(window))

LInv ==
    /\ LayoutTypeOK /\ HeldKnown /\ Sound(window, gone, gone) /\ ClonesReady /\ Tidy
    /\ RecordIsCurrent /\ RestoreReady(restore)

---------------------------------------------------------------------------
(* A step: the window becomes w, and the continuations follow.              *)

Moves(w) ==
    /\ WindowOK(w) /\ (window' = w \/ window' = Effect(w))
    /\ gone \cup ((IdsOf(window) \cap Held) \ IdsOf(w)) \subseteq gone'
    /\ gone' \subseteq TabIds /\ counters' \in [{"local", "ssh"} -> 1..(MaxId + 1)]
    /\ Sound(w, gone', gone')
    /\ crossed' \/ (IdsOf(w) \ IdsOf(window)) \cap Waiting = {}
Follows(w) ==
    /\ Moves(w)
    /\ rare' \in 0..MaxRare /\ crossed' \in BOOLEAN
    /\ clones' \in [Slots -> CloneType] /\ restore' \in RestoreType /\ RestoreReady(restore')
    /\ \A c \in Slots : \/ clones'[c] = clones[c]
                        \/ /\ CloneReady(clones'[c])
                           /\ CloneKnown(clones'[c], IdsOf(w) \cup gone' \cup {None})
    /\ Range(restore'.mapping) \subseteq Range(restore.mapping) \cup IdsOf(w)
    /\ \/ crossed'
       \/ /\ Ordered(w) /\ RestoreOrdered(restore')
          /\ FoundsApart(clones', restore'.mapping) /\ Aged(clones', w.layout, IdsOf(w))
    /\ Current(w) \/ (restore'.step # "idle" /\ w.tabs = <<>>)

\* What was held is known after the step.
Moved(w) ==
    /\ WindowOK(window') /\ gone' \subseteq TabIds
    /\ counters' \in [{"local", "ssh"} -> 1..(MaxId + 1)]
    /\ Sound(window', gone', gone')
    /\ IdsOf(window') = IdsOf(w) /\ window'.tabs = w.tabs /\ window'.saved = w.saved
    /\ ToSet(window'.layout) \subseteq ToSet(w.layout) /\ (Ordered(w) => Ordered(window'))
    /\ Known \cap Held \subseteq IdsOf(w) \cup gone' \cup {None}
\* What a step leaves that has made w of the window, with the effect after it.
LEMMA MoveFacts ==
    ASSUME LInv, NEW w, Moves(w)
    PROVE  Moved(w)
  <1>1. WindowOK(w)
    BY DEF Moves
  <1>2. DropsTo(w, window') \/ window' = w
    BY <1>1, EffectFacts DEF Moves
  <1>3. /\ WindowOK(window') /\ Sound(window', gone', gone') /\ IdsOf(window') = IdsOf(w)
        /\ window'.tabs = w.tabs /\ window'.saved = w.saved
        /\ ToSet(window'.layout) \subseteq ToSet(w.layout) /\ (Ordered(w) => Ordered(window'))
    <2>1. Sound(w, gone', gone')
      BY DEF Moves
    <2> QED BY <1>1, <1>2, <2>1 DEF DropsTo, Lessens
  <1>4. Known \cap Held \subseteq IdsOf(w) \cup gone' \cup {None}
    BY DEF Known, Moves
  <1>5. gone' \subseteq TabIds /\ counters' \in [{"local", "ssh"} -> 1..(MaxId + 1)]
    BY DEF Moves
  <1> QED BY <1>3, <1>4, <1>5 DEF Moved

\* With fewer panes and tabs there is less to say of their age.
LEMMA AgedLess ==
    ASSUME NEW cs, NEW layout, NEW ids, Aged(cs, layout, ids), NEW less, NEW some,
           ToSet(less) \subseteq ToSet(layout), some \subseteq ids
    PROVE  Aged(cs, less, some)
  <1>1. PICK older : Order(older) /\ \A c \in Slots : Younger(older, cs[c], layout, ids)
    BY DEF Aged
  <1>2. \A c \in Slots : Younger(older, cs[c], less, some)
    BY <1>1 DEF Younger
  <1> QED BY <1>1, <1>2 DEF Aged

\* A step that follows the rules keeps the invariant. All actions but a restart are shown so.
LEMMA StepFacts ==
    ASSUME LInv, NEW w, Follows(w)
    PROVE  LInv'
  <1>1. Moved(w)
    BY MoveFacts DEF Follows
  <1>2. LayoutTypeOK'
    BY <1>1 DEF Moved, WindowOK, Follows, LayoutTypeOK
  <1>3. Sound(window', gone', gone')
    BY <1>1 DEF Moved
  <1>4. HeldKnown'
    <2>1. Known' = IdsOf(w) \cup gone' \cup {None}
      BY <1>1 DEF Moved, Known
    <2>2. ASSUME NEW c \in Slots PROVE CloneKnown(clones'[c], Known')
      <3>1. CASE clones'[c] = clones[c]
        <4>1. {clones[c].source, clones[c].previous, clones[c].found} \subseteq Known \cap Held
          BY DEF LInv, HeldKnown, CloneKnown, Held
        <4> QED BY <1>1, <2>1, <3>1, <4>1 DEF Moved, CloneKnown
      <3>2. CASE clones'[c] # clones[c]
        BY <2>1, <3>2 DEF Follows
      <3> QED BY <3>1, <3>2
    <2>3. Range(restore'.mapping) \subseteq Known'
      <3>1. Range(restore.mapping) \subseteq Known \cap Held
        BY DEF LInv, HeldKnown, Held
      <3> QED BY <1>1, <2>1, <3>1 DEF Moved, Follows
    <2> QED BY <2>2, <2>3 DEF HeldKnown
  <1>5. ClonesReady'
    BY DEF Follows, LInv, ClonesReady
  <1>6. Tidy'
    <2>1. CASE crossed'
      BY <2>1 DEF Tidy
    <2>2. CASE ~crossed'
      <3>1. /\ Ordered(w) /\ RestoreOrdered(restore') /\ FoundsApart(clones', restore'.mapping)
            /\ Aged(clones', w.layout, IdsOf(w))
        BY <2>2 DEF Follows
      <3>2. Aged(clones', window'.layout, IdsOf(window'))
        BY <1>1, <3>1, AgedLess DEF Moved
      <3> QED BY <1>1, <3>1, <3>2 DEF Moved, Tidy
    <2> QED BY <2>1, <2>2
  <1>7. RecordIsCurrent'
    <2>1. Current(w) => Current(window')
      BY <1>1 DEF Moved, Current
    <2> QED BY <1>1, <2>1 DEF Moved, Follows, RecordIsCurrent, Current
  <1>8. RestoreReady(restore)'
    BY DEF Follows
  <1> QED BY <1>2, <1>3, <1>4, <1>5, <1>6, <1>7, <1>8 DEF LInv

\* What the invariant says of the window.
Given ==
    /\ WindowOK(window) /\ window \in WindowType /\ window.tabs \in Seq(TabType)
    /\ window.layout \in Seq(TabIds) /\ window.active \in MaybeId
    /\ IdsOf(window) \subseteq TabIds /\ gone \subseteq TabIds /\ Known \subseteq MaybeId
    /\ counters \in [{"local", "ssh"} -> 1..(MaxId + 1)] /\ MaxId \in Nat
    /\ rare \in 0..MaxRare /\ MaxRare \in Nat /\ crossed \in BOOLEAN
    /\ clones \in [Slots -> CloneType] /\ restore \in RestoreType /\ RestoreReady(restore)
    /\ Sound(window, gone, gone)
\* What of the invariant the actions need at their beginning.
LEMMA WhatIsGiven == LInv => Given
  <1> SUFFICES ASSUME LInv PROVE Given
    OBVIOUS
  <1>1. WindowOK(window)
    BY DEF LInv, LayoutTypeOK, WindowOK
  <1>2. /\ window \in WindowType /\ window.tabs \in Seq(TabType)
        /\ window.layout \in Seq(TabIds) /\ window.active \in MaybeId
    BY <1>1 DEF WindowOK, WindowType
  <1>3. IdsOf(window) \subseteq TabIds /\ gone \subseteq TabIds
    BY <1>1, IdsAre DEF LInv, LayoutTypeOK
  <1>4. MaxId \in Nat /\ MaxRare \in Nat
    BY BoundsAssumption
  <1> QED BY <1>1, <1>2, <1>3, <1>4 DEF LInv, LayoutTypeOK, Given, Known, MaybeId

\* A step of the window alone.
Keeps(w) ==
    /\ ToSet(w.layout) \subseteq ToSet(window.layout) /\ (Ordered(window) => Ordered(w))
    /\ Current(w) \/ ((Current(window) => Current(w)) /\ IdsOf(w) \subseteq IdsOf(window))
\* After it the record is as current as it was.
LEMMA StillCurrent ==
    ASSUME LInv, NEW w, Moves(w), Keeps(w)
    PROVE  Current(w) \/ (restore.step # "idle" /\ w.tabs = <<>>)
  <1>1. Current(window) \/ (restore.step # "idle" /\ window.tabs = <<>>)
    BY DEF LInv, RecordIsCurrent, Current
  <1>2. ASSUME IdsOf(w) \subseteq IdsOf(window), window.tabs = <<>> PROVE w.tabs = <<>>
    <2>1. IdsOf(window) = {}
      BY <1>2, WhatIsGiven, IdsAre DEF Given
    <2>2. IdsOf(w) = {} /\ WindowOK(w)
      BY <1>2, <2>1 DEF Moves
    <2> QED BY <2>2, IdsAre
  <1> QED BY <1>1, <1>2 DEF Keeps
\* The ids of some are made the youngest.
Renewed(older, some) == [id \in TabIds |-> IF id \in some THEN TabIds \ some ELSE older[id] \ some]
\* The order is still one.
LEMMA RenewedFacts ==
    ASSUME NEW older, Order(older), NEW some
    PROVE  Order(Renewed(older, some))
  <1> DEFINE new == Renewed(older, some)
  <1>1. \A x \in TabIds : older[x] \subseteq TabIds
    BY DEF Order
  <1>2. /\ new \in [TabIds -> SUBSET TabIds]
        /\ \A x \in TabIds : new[x] = IF x \in some THEN TabIds \ some ELSE older[x] \ some
    BY <1>1 DEF Renewed
  <1> HIDE DEF new
  <1>3. ASSUME NEW x \in TabIds PROVE x \notin new[x]
    BY <1>2, <1>3 DEF Order
  <1>4. ASSUME NEW x \in TabIds, NEW y \in new[x] PROVE new[y] \subseteq new[x]
    <2>1. y \in TabIds /\ y \notin some /\ new[y] = older[y] \ some /\ older[y] \subseteq TabIds
      BY <1>1, <1>2
    <2>2. CASE x \in some
      BY <1>2, <2>1, <2>2
    <2>3. CASE x \notin some
      <3>1. y \in older[x]
        BY <1>2, <2>3
      <3>2. older[y] \subseteq older[x]
        BY <3>1 DEF Order
      <3> QED BY <1>2, <2>1, <2>3, <3>2
    <2> QED BY <2>2, <2>3
  <1> QED BY <1>2, <1>3, <1>4 DEF Order, new
\* Ids that no split waits with may be of new tabs.
LEMMA RenewedYounger ==
    ASSUME LInv, NEW older, NEW some, some \cap Waiting = {}, NEW c \in Slots,
           Younger(older, clones[c], window.layout, IdsOf(window)),
           NEW less, ToSet(less) \subseteq ToSet(window.layout),
           NEW ids, ids \subseteq IdsOf(window) \cup some, ids \subseteq TabIds
    PROVE  Younger(Renewed(older, some), clones[c], less, ids)
  <1> DEFINE new == Renewed(older, some)
             clone == clones[c]
  <1>1. \A x \in TabIds : new[x] = IF x \in some THEN TabIds \ some ELSE older[x] \ some
    BY DEF Renewed
  <1>2. clone.source \notin some /\ clone.found \notin some
    BY DEF Waiting
  <1>3. /\ clone \in CloneType /\ CloneReady(clone) /\ ToSet(window.layout) \subseteq TabIds
    <2>1. window.layout \in Seq(TabIds)
      BY DEF LInv, LayoutTypeOK, WindowType
    <2> QED BY <2>1, SetOf DEF LInv, LayoutTypeOK, ClonesReady
  <1>4. /\ clone.step # "idle" => clone.source \in TabIds
        /\ clone.step = "syncing" => clone.found \in TabIds
        /\ clone.step \in {"idle", "opening", "syncing"}
    BY <1>3 DEF CloneType, CloneReady, MaybeId
  <1>5. /\ clone.step = "syncing" => clone.source \in older[clone.found]
        /\ clone.found \in ToSet(window.layout) =>
              \A leaf \in ToSet(window.layout) : leaf = clone.found \/ clone.found \in older[leaf]
        /\ clone.step = "opening" /\ clone.kind = "profile" =>
              \A id \in IdsOf(window) \ clone.before : clone.source \in older[id]
    BY DEF Younger
  <1> HIDE DEF new, clone
  <1>6. clone.step = "syncing" => clone.source \in new[clone.found]
    BY <1>1, <1>2, <1>4, <1>5
  <1>7. ASSUME clone.found \in ToSet(less), NEW leaf \in ToSet(less)
        PROVE  leaf = clone.found \/ clone.found \in new[leaf]
    BY <1>1, <1>2, <1>3, <1>5, <1>7
  <1>8. ASSUME clone.step = "opening", clone.kind = "profile", NEW id \in ids \ clone.before
        PROVE  clone.source \in new[id]
    BY <1>1, <1>2, <1>4, <1>5, <1>8
  <1> QED BY <1>6, <1>7, <1>8 DEF Younger, clone, new
\* Nothing is taken by another.
LEMMA StillTidy ==
    ASSUME LInv, NEW w, Moves(w), Keeps(w), ~crossed, ~crossed'
    PROVE  /\ Ordered(w) /\ RestoreOrdered(restore) /\ FoundsApart(clones, restore.mapping)
           /\ Aged(clones, w.layout, IdsOf(w))
  <1>1. /\ Ordered(window) /\ RestoreOrdered(restore) /\ FoundsApart(clones, restore.mapping)
        /\ Aged(clones, window.layout, IdsOf(window))
    BY DEF LInv, Tidy
  <1>2. PICK older : /\ Order(older)
                     /\ \A c \in Slots : Younger(older, clones[c], window.layout, IdsOf(window))
    BY <1>1 DEF Aged
  <1> DEFINE some == IdsOf(w) \ IdsOf(window)
  <1>3. some \cap Waiting = {} /\ IdsOf(w) \subseteq TabIds
    BY IdsAre DEF Moves
  <1>4. \A c \in Slots : Younger(Renewed(older, some), clones[c], w.layout, IdsOf(w))
    BY <1>2, <1>3, RenewedYounger DEF Keeps
  <1>5. Aged(clones, w.layout, IdsOf(w))
    BY <1>2, <1>4, RenewedFacts DEF Aged
  <1> QED BY <1>1, <1>5 DEF Keeps
\* A step of the window alone: splits and the restore wait.
LEMMA QuietFacts ==
    ASSUME LInv, NEW w, Moves(w), Keeps(w), UNCHANGED <<clones, restore>>,
           crossed' \in BOOLEAN, crossed => crossed', rare' \in 0..MaxRare
    PROVE  LInv'
  <1>1. Given
    BY WhatIsGiven
  <1>2. Current(w) \/ (restore.step # "idle" /\ w.tabs = <<>>)
    BY StillCurrent
  <1>3. \/ crossed'
        \/ /\ Ordered(w) /\ RestoreOrdered(restore) /\ FoundsApart(clones, restore.mapping)
           /\ Aged(clones, w.layout, IdsOf(w))
    BY <1>1, StillTidy DEF Given
  <1>4. Follows(w)
    BY <1>1, <1>2, <1>3 DEF Follows, Given
  <1> QED BY <1>4, StepFacts

\* A window with fewer tabs and panes.
LEMMA LessMoves ==
    ASSUME LInv, NEW w, Lessens(window, w), Sound(w, gone, gone), Becomes(w), counters' = counters
    PROVE  Moves(w) /\ Keeps(w)
  <1>1. Moves(w)
    <2>1. gone \subseteq gone' /\ gone' = gone \cup ((IdsOf(window) \cap Held) \ IdsOf(w))
      BY DEF Becomes, Changes
    <2>2. Sound(w, gone', gone')
      BY <2>1, SoundMore
    <2>3. Given
      BY WhatIsGiven
    <2>4. gone' \subseteq TabIds /\ counters' \in [{"local", "ssh"} -> 1..(MaxId + 1)]
      BY <2>1, <2>3 DEF Given
    <2> QED BY <2>1, <2>2, <2>4 DEF Lessens, Becomes, Changes, Moves
  <1>2. Keeps(w)
    BY DEF Lessens, Keeps
  <1> QED BY <1>1, <1>2

\* w with other values of active and home, or maximized.
Alters(w, u) ==
    /\ u \in WindowType /\ u.tabs = w.tabs /\ u.layout = w.layout /\ u.panes = w.panes
    /\ u.saved = w.saved
\* Another active or maximised tab, or another page, changes neither tabs nor layout.
LEMMA AlterFacts ==
    ASSUME NEW w, WindowOK(w), NEW u, Alters(w, u)
    PROVE  Lessens(w, u) /\ IdsOf(u) = IdsOf(w)
  <1>1. IdsOf(u) = IdsOf(w) /\ WindowOK(u) /\ (Current(w) => Current(u))
    BY DEF Alters, WindowOK, IdsOf, Current
  <1> QED BY <1>1 DEF Alters, Lessens, Ordered
\* Such a change is a step of the window, if what it names is a tab or gone.
LEMMA AlterMoves ==
    ASSUME LInv, NEW u, Alters(window, u), u.active \in Known,
           u.active # None \/ u.active = window.active, u.maximized \in Known,
           Becomes(u), counters' = counters
    PROVE  Moves(u) /\ Keeps(u)
  <1>1. Given
    BY WhatIsGiven
  <1>2. Lessens(window, u) /\ IdsOf(u) = IdsOf(window)
    BY <1>1, AlterFacts DEF Given
  <1>3. Sound(u, gone, gone)
    BY <1>1, <1>2 DEF Given, Alters, Sound, Known
  <1> QED BY <1>2, <1>3, LessMoves

\* addLocalTab and confirmFingerprint
OpensTo(w, x, v) ==
    /\ WindowOK(v) /\ IdsOf(v) = IdsOf(w) \cup {x} /\ v.layout = w.layout
    /\ v.panes = w.panes /\ v.maximized = w.maximized /\ v.active = x /\ v.home = FALSE
    /\ v.saved.layout \in {w.layout, <<>>} /\ Current(v)
\* A new tab is added behind the others, is active, and is in the record.
LEMMA OpenedFacts ==
    ASSUME NEW w, WindowOK(w), NEW kind \in AllKinds, NewId(kind) \in TabIds
    PROVE  OpensTo(w, NewId(kind), Opened(w, kind))
  <1> DEFINE x    == NewId(kind)
             tab  == [id |-> x, kind |-> kind, former |-> {}]
             tabs == Append(w.tabs, tab)
             u == [w EXCEPT !.tabs = tabs, !.active = tab.id, !.home = FALSE]
             v == Opened(w, kind)
  <1>2. v = Persist(u)
    BY DEF Opened
  <1> HIDE DEF x, v
  <1>0. /\ w \in WindowType /\ w.tabs \in Seq(TabType) /\ tab \in TabType /\ tab.id = x
        /\ x \in TabIds
    BY DEF WindowOK, WindowType, TabType, x
  <1> HIDE DEF tab
  <1>1. /\ tabs \in Seq(TabType) /\ DOMAIN tabs = 1..(Len(w.tabs) + 1) /\ Len(w.tabs) \in Nat
        /\ DOMAIN w.tabs = 1..Len(w.tabs)
        /\ \A i \in DOMAIN tabs : tabs[i] = IF i = Len(w.tabs) + 1 THEN tab ELSE w.tabs[i]
    BY <1>0
  <1> HIDE DEF tabs
  <1>3. /\ u \in WindowType /\ u.tabs = tabs /\ u.active = x /\ u.home = FALSE
        /\ u.layout = w.layout /\ u.panes = w.panes /\ u.maximized = w.maximized
    BY <1>0, <1>1 DEF WindowType, MaybeId
  <1> HIDE DEF u
  <1>4. PersistsTo(u, v)
    BY <1>2, <1>3, PersistFacts
  <1>5. \A i \in DOMAIN w.tabs : w.tabs[i].id \in IdsOf(w)
    BY DEF IdsOf
  <1>7. \A y : y \in {tabs[i].id : i \in DOMAIN tabs} <=> y \in IdsOf(w) \/ y = x
    <2>1. ASSUME NEW i \in DOMAIN tabs PROVE tabs[i].id \in IdsOf(w) \cup {x}
      BY <1>0, <1>1, <1>5
    <2>2. ASSUME NEW y \in IdsOf(w) PROVE \E i \in DOMAIN tabs : tabs[i].id = y
      <3>1. PICK i \in DOMAIN w.tabs : w.tabs[i].id = y
        BY DEF IdsOf
      <3>2. i \in DOMAIN tabs /\ i # Len(w.tabs) + 1
        BY <1>1
      <3> QED BY <1>1, <3>1, <3>2
    <2>3. \E i \in DOMAIN tabs : tabs[i].id = x
      <3>1. Len(w.tabs) + 1 \in DOMAIN tabs /\ tabs[Len(w.tabs) + 1] = tab
        BY <1>1
      <3> QED BY <1>0, <3>1
    <2> QED BY <2>1, <2>2, <2>3
  <1>8. /\ v \in WindowType /\ v.tabs = tabs /\ v.active = x /\ v.home = FALSE
        /\ v.layout = w.layout /\ v.panes = w.panes /\ v.maximized = w.maximized
        /\ v.saved.layout \in {w.layout, <<>>} /\ Current(v)
    BY <1>3, <1>4 DEF PersistsTo
  <1>9. IdsOf(v) = IdsOf(w) \cup {x}
    <2>1. IdsOf(v) = {tabs[i].id : i \in DOMAIN tabs}
      BY <1>8 DEF IdsOf
    <2>2. \A y : y \in IdsOf(v) <=> y \in IdsOf(w) \/ y = x
      BY <1>7, <2>1
    <2> QED BY <2>2
  <1> QED BY <1>8, <1>9 DEF OpensTo, WindowOK, v, x

\* The id that isshd gives to a session.
LEMMA AllocateFacts ==
    ASSUME LInv, NEW kind \in AllKinds, Allocates(kind)
    PROVE  /\ NewId(kind) \in TabIds /\ NewId(kind) # None
           /\ counters' \in [{"local", "ssh"} -> 1..(MaxId + 1)]
           /\ \A found : Crosses(NewId(kind), found) => crossed' \/ NewId(kind) \notin Waiting
  <1> DEFINE f == Family(kind)
             n == counters[f]
  <1>1. Given /\ n <= MaxId /\ counters' = [counters EXCEPT ![f] = @ + 1]
    BY WhatIsGiven DEF Allocates
  <1>2. f \in {"local", "ssh"}
    BY DEF Family
  <1> HIDE DEF f
  <1>3. n \in 1..MaxId
    BY <1>1, <1>2 DEF Given
  <1>4. counters' \in [{"local", "ssh"} -> 1..(MaxId + 1)]
    BY <1>1, <1>2, <1>3 DEF Given
  <1> HIDE DEF n
  <1>5. <<f, n>> \in TabIds
    BY <1>2, <1>3 DEF TabIds
  <1>6. NewId(kind) = <<f, n>>
    BY DEF NewId, f, n
  <1>7. NewId(kind) \in TabIds /\ NewId(kind) # None
    BY <1>5, <1>6, NoneIsNoId
  <1> QED BY <1>4, <1>7 DEF Crosses

\* A new tab, that perhaps does not become active.
Grows(w, x) ==
    /\ Moves(w) /\ Keeps(w) /\ Current(w) /\ w.layout = window.layout
    /\ IdsOf(w) = IdsOf(window) \cup {x}
\* A step that opens a tab, whichever tab it then makes active.
LEMMA GrowFacts ==
    ASSUME LInv, NEW kind \in AllKinds, Allocates(kind), NEW w, Alters(Opened(window, kind), w),
           w.active \in Known \cup {NewId(kind)}, w.active # None,
           w.maximized = window.maximized, Becomes(w),
           crossed' \/ NewId(kind) \notin Waiting
    PROVE  Grows(w, NewId(kind))
  <1> DEFINE x == NewId(kind)
             v == Opened(window, kind)
  <1>1. Given /\ x \in TabIds /\ counters' \in [{"local", "ssh"} -> 1..(MaxId + 1)]
    BY WhatIsGiven, AllocateFacts
  <1>2. OpensTo(window, x, v)
    BY <1>1, OpenedFacts DEF Given
  <1>3. Alters(v, w)
    OBVIOUS
  <1>4. /\ w.active \in Known \cup {x} /\ w.active # None /\ (crossed' \/ x \notin Waiting)
    OBVIOUS
  <1> HIDE DEF v, x
  <1>5. Lessens(v, w) /\ IdsOf(w) = IdsOf(v)
    BY <1>2, <1>3, AlterFacts DEF OpensTo
  <1>6. /\ WindowOK(w) /\ Current(w) /\ IdsOf(w) = IdsOf(window) \cup {x}
        /\ w.layout = window.layout /\ w.panes = window.panes /\ w.saved = v.saved
    BY <1>2, <1>3, <1>5 DEF OpensTo, Lessens, Alters
  <1>7. Ordered(window) => Ordered(w)
    <2>1. w.saved.layout \in {window.layout, <<>>} /\ IsInjective(<<>>)
      BY <1>2, <1>6 DEF OpensTo, IsInjective
    <2> QED BY <1>6, <2>1 DEF Ordered
  <1>8. gone' = gone \cup ((IdsOf(window) \cap Held) \ IdsOf(w)) /\ gone' = gone
    BY <1>6 DEF Becomes, Changes
  <1>9. Sound(w, gone', gone')
    <2>1. ToSet(window.layout) \cap (IdsOf(window) \cup {x}) \subseteq ToSet(window.panes) \cup gone
      <3>1. x \in ToSet(window.layout) => x \in IdsOf(window) \/ x \in gone
        BY <1>1 DEF Given, Sound
      <3> QED BY <1>1, <3>1 DEF Given, Sound
    <2> QED BY <1>1, <1>4, <1>6, <1>8, <2>1 DEF Given, Sound, Known
  <1>10. Moves(w)
    BY <1>1, <1>4, <1>6, <1>8, <1>9 DEF Moves, Becomes, Changes, Given
  <1>11. Keeps(w)
    BY <1>6, <1>7 DEF Keeps
  <1> QED BY <1>6, <1>10, <1>11 DEF Grows, x

---------------------------------------------------------------------------
(* Every action keeps the invariant: the user, shells that exit, and isshd. *)

\* What a step that gives or takes an id says of it, unless the ways have crossed.
LEMMA CrossFacts ==
    ASSUME LInv, NEW given, NEW found, Crosses(given, found)
    PROVE  /\ crossed' \in BOOLEAN /\ (crossed => crossed')
           /\ crossed' \/ given = None \/ given \notin Waiting
           /\ crossed' \/ found = None \/ found \notin Taken
  BY WhatIsGiven DEF Given, Crosses

\* One lemma for each action, with the handlers it calls.
LEMMA OpenTabStep == ASSUME LInv, NEW kind \in Kinds, OpenTab(kind) PROVE LInv'
  <1> DEFINE w == Opened(window, kind)
             x == NewId(kind)
  <1>1. Given /\ kind \in AllKinds
    BY WhatIsGiven, KindsAssumption
  <1>2. Becomes(w) /\ Allocates(kind) /\ Crosses(x, None) /\ UNCHANGED <<clones, restore, rare>>
    BY DEF OpenTab
  <1>3. x \in TabIds /\ x # None
    BY <1>1, <1>2, AllocateFacts
  <1>4. OpensTo(window, x, w)
    BY <1>1, <1>3, OpenedFacts DEF Given
  <1>5. crossed' \in BOOLEAN /\ (crossed => crossed') /\ (crossed' \/ x \notin Waiting)
    BY <1>2, <1>3, CrossFacts
  <1> HIDE DEF w, x
  <1>6. Alters(Opened(window, kind), w) /\ w.active = x /\ w.maximized = window.maximized
    BY <1>4 DEF OpensTo, WindowOK, Alters, w
  <1>7. Grows(w, x)
    BY <1>1, <1>2, <1>3, <1>5, <1>6, GrowFacts DEF x
  <1> QED BY <1>1, <1>2, <1>5, <1>7, QuietFacts DEF Grows, Given

\* showHomePage, and leaving the home page.
LEMMA ShowHomeStep == ASSUME LInv, NEW home \in BOOLEAN, ShowHome(home) PROVE LInv'
  <1> DEFINE w == [window EXCEPT !.home = home]
  <1>1. Given
    BY WhatIsGiven
  <1>2. Becomes(w) /\ UNCHANGED <<clones, restore, counters, crossed>> /\ rare' \in 0..MaxRare
    BY <1>1 DEF ShowHome, Rare, Given
  <1>3. Alters(window, w) /\ w.active = window.active /\ w.maximized = window.maximized
    BY <1>1 DEF Given, WindowType, Alters
  <1> HIDE DEF w
  <1>4. Moves(w) /\ Keeps(w)
    BY <1>1, <1>2, <1>3, AlterMoves DEF Given, Sound, Known
  <1> QED BY <1>1, <1>2, <1>4, QuietFacts DEF Given

\* activateTab, however it was asked for.
LEMMA ActivateStep ==
    ASSUME LInv, NEW id \in IdsOf(window), Becomes(Activate(window, id)),
           UNCHANGED <<clones, restore, counters, rare, crossed>>
    PROVE  LInv'
  <1> DEFINE w == Activate(window, id)
  <1>1. Given
    BY WhatIsGiven
  <1>2. ActivatesTo(window, gone, w)
    BY <1>1, ActivateFacts DEF Given
  <1> HIDE DEF w
  <1>3. Moves(w) /\ Keeps(w)
    BY <1>2, LessMoves DEF ActivatesTo, w
  <1> QED BY <1>1, <1>3, QuietFacts DEF Given

\* A click on a header or a pane is activateTab of a tab that is there.
LEMMA ClickStep == ASSUME LInv, NEW id, Click(id) PROVE LInv'
  <1>1. id \in IdsOf(window)
    BY DEF Click, Headers
  <1> QED BY <1>1, ActivateStep DEF Click

\* navigatePane goes to a pane that has a tab.
LEMMA NavigateStep == ASSUME LInv, NEW back \in BOOLEAN, Navigate(back) PROVE LInv'
  <1>1. PICK id \in IdsOf(window) : Becomes(Activate(window, id))
    BY DEF Navigate
  <1> QED BY <1>1, ActivateStep DEF Navigate

\* togglePaneMaximize changes nothing but what is maximised.
LEMMA MaximizeStep == ASSUME LInv, Maximize PROVE LInv'
  <1> DEFINE high == IF window.maximized = window.active THEN None ELSE window.active
             w == [window EXCEPT !.maximized = high]
  <1>1. Given
    BY WhatIsGiven
  <1>2. Becomes(w) /\ UNCHANGED <<clones, restore, counters, rare, crossed>>
    BY DEF Maximize
  <1>3. high \in Known
    BY <1>1 DEF Given, Sound, Known
  <1> HIDE DEF high
  <1>4. Alters(window, w) /\ w.active = window.active /\ w.maximized = high
    BY <1>1, <1>3 DEF Given, WindowType, Alters
  <1> HIDE DEF w
  <1>5. Moves(w) /\ Keeps(w)
    BY <1>1, <1>2, <1>3, <1>4, AlterMoves DEF Given, Sound, Known
  <1> QED BY <1>1, <1>2, <1>5, QuietFacts DEF Given

\* closeSplit, asked for by the user.
LEMMA CancelSplitStep == ASSUME LInv, CancelSplit PROVE LInv'
  <1> DEFINE w == CloseSplit(window)
  <1>1. Given
    BY WhatIsGiven
  <1>2. SplitsTo(window, gone, w)
    BY <1>1, CloseSplitFacts DEF Given
  <1> HIDE DEF w
  <1>3. Sound(w, gone, gone)
    BY <1>2, BareIsSound DEF SplitsTo
  <1>4. Moves(w) /\ Keeps(w)
    BY <1>2, <1>3, LessMoves DEF SplitsTo, CancelSplit, w
  <1> QED BY <1>1, <1>4, QuietFacts DEF Given, CancelSplit

\* closeTab and closeHeaderTab, also of an id that several tabs have.
LEMMA CloseStep == ASSUME LInv, NEW id, Close(id) \/ Exits(id) PROVE LInv'
  <1>1. Given
    BY WhatIsGiven
  <1>2. ClosesTo(window, gone, CloseHeader(window, id))
    BY <1>1, CloseHeaderFacts DEF Given
  <1>3. ClosesTo(window, gone, CloseTab(window, id))
    BY <1>1, CloseTabFacts DEF Given
  <1>4. PICK w \in {CloseHeader(window, id), CloseTab(window, id)} :
            Becomes(w) /\ UNCHANGED <<clones, restore, counters, rare, crossed>>
    BY DEF Close, Exits
  <1>5. ClosesTo(window, gone, w)
    BY <1>2, <1>3, <1>4
  <1>6. Moves(w) /\ Keeps(w)
    BY <1>4, <1>5, LessMoves DEF ClosesTo
  <1> QED BY <1>1, <1>4, <1>6, QuietFacts DEF Given

\* isshd starts again: the window keeps its tabs.
LEMMA RuntimeRestartsStep == ASSUME LInv, RuntimeRestarts PROVE LInv'
  <1>1. /\ Given /\ UNCHANGED <<window, clones, restore, gone, crossed>> /\ rare' \in 0..MaxRare
        /\ counters' \in [{"local", "ssh"} -> 1..(MaxId + 1)]
    BY WhatIsGiven DEF RuntimeRestarts, Rare, Given
  <1>2. Moves(window) /\ Keeps(window)
    BY <1>1 DEF Given, Moves, Keeps
  <1> QED BY <1>1, <1>2, QuietFacts DEF Given

\* A tab gets another id, and nothing else changes.
RenamesTo(i, id, u) ==
    /\ WindowOK(u) /\ u.active = window.active /\ u.layout = window.layout
    /\ u.panes = window.panes /\ u.maximized = window.maximized /\ u.saved = window.saved
    /\ IdsOf(window) \ {window.tabs[i].id} \subseteq IdsOf(u) /\ id \in IdsOf(u)
    /\ IdsOf(u) \subseteq IdsOf(window) \cup {id} /\ window.tabs[i].id \in IdsOf(window)
    /\ Current(u)
\* The record needs no change for it, as it holds the kinds of the tabs.
LEMMA RenamedFacts ==
    ASSUME LInv, NEW i \in DOMAIN window.tabs, NEW id \in TabIds
    PROVE  RenamesTo(i, id, Renamed(window, i, id))
  <1> DEFINE u    == Renamed(window, i, id)
             old  == window.tabs[i].id
             tab  == [window.tabs[i] EXCEPT !.id = id, !.former = (@ \cup {old}) \ {id}]
             tabs == [window.tabs EXCEPT ![i] = tab]
  <1>1. Given
    BY WhatIsGiven
  <1>2. window.tabs[i] \in TabType /\ old \in TabIds
    <2>1. window.tabs[i] \in TabType
      BY <1>1 DEF Given
    <2> QED BY <2>1 DEF TabType
  <1>3. tab \in TabType /\ tab.id = id /\ tab.kind = window.tabs[i].kind
    BY <1>2 DEF TabType
  <1>4. u = [window EXCEPT !.tabs = tabs]
    <2>1. window \in WindowType /\ window.tabs[i] \in TabType
      BY <1>1, <1>2 DEF Given
    <2> QED BY <2>1 DEF Renamed, WindowType, TabType
  <1> HIDE DEF tab, u
  <1>5. /\ tabs \in Seq(TabType) /\ DOMAIN tabs = DOMAIN window.tabs
        /\ \A j \in DOMAIN tabs : /\ tabs[j].kind = window.tabs[j].kind
                                  /\ tabs[j].id = IF j = i THEN id ELSE window.tabs[j].id
    BY <1>1, <1>3 DEF Given
  <1> HIDE DEF tabs
  <1>6. /\ u \in WindowType /\ u.tabs = tabs /\ u.active = window.active
        /\ u.layout = window.layout /\ u.panes = window.panes
        /\ u.maximized = window.maximized /\ u.saved = window.saved
    BY <1>1, <1>4, <1>5 DEF Given, WindowType
  <1>7. \A j \in DOMAIN window.tabs : window.tabs[j].id \in IdsOf(window)
    BY DEF IdsOf
  <1>8. /\ IdsOf(window) \ {old} \subseteq IdsOf(u) /\ IdsOf(u) \subseteq IdsOf(window) \cup {id}
        /\ id \in IdsOf(u)
    <2>1. IdsOf(u) = {tabs[j].id : j \in DOMAIN tabs}
      BY <1>6 DEF IdsOf
    <2>2. ASSUME NEW x \in IdsOf(window) \ {old} PROVE \E j \in DOMAIN tabs : tabs[j].id = x
      <3>1. PICK j \in DOMAIN window.tabs : window.tabs[j].id = x
        BY DEF IdsOf
      <3> QED BY <1>5, <3>1
    <2>3. ASSUME NEW j \in DOMAIN tabs PROVE tabs[j].id \in IdsOf(window) \cup {id}
      BY <1>5, <1>7
    <2>4. i \in DOMAIN tabs /\ tabs[i].id = id
      BY <1>5
    <2> QED BY <2>1, <2>2, <2>3, <2>4
  <1>9. Current(u)
    <2>1. \A j \in DOMAIN window.tabs :
              Recorded(u.tabs)[j].kind = Recorded(window.tabs)[j].kind
      BY <1>5, <1>6 DEF Recorded
    <2>2. DOMAIN u.tabs = DOMAIN window.tabs
      BY <1>5, <1>6
    <2>3. [j \in DOMAIN u.tabs |-> Recorded(u.tabs)[j].kind]
             = [j \in DOMAIN window.tabs |-> Recorded(window.tabs)[j].kind]
      BY <2>1, <2>2
    <2>4. Current(window)
      <3>1. window.tabs # <<>>
        BY <1>1 DEF Given
      <3> QED BY <3>1 DEF LInv, RecordIsCurrent, Current
    <2> QED BY <1>6, <2>3, <2>4 DEF Current
  <1> QED BY <1>6, <1>7, <1>8, <1>9 DEF RenamesTo, WindowOK, u

\* A tab that gets another id, and a split that has it as its new tab follows; the tab may be
\* closed at once.
LEMMA FollowFacts ==
    ASSUME LInv, NEW i \in DOMAIN window.tabs, NEW id \in TabIds, Follow(i, id),
           NEW w, Moves(w), Current(w), IdsOf(w) \subseteq IdsOf(window) \cup {id},
           ToSet(w.layout) \subseteq ToSet(window.layout), Ordered(window) => Ordered(w),
           id \in IdsOf(w) \cup gone', restore' = restore, rare' \in 0..MaxRare
    PROVE  LInv'
  <1> DEFINE old == window.tabs[i].id
  <1>1. /\ Given /\ Moved(w) /\ id # None /\ old \in TabIds /\ old # None
    <2>1. Given
      BY WhatIsGiven
    <2>2. old \in TabIds
      BY <2>1 DEF Given, IdsOf
    <2> QED BY <2>1, <2>2, MoveFacts, NoneIsNoId
  <1>2. PICK moved :
            /\ moved \subseteq {c \in Slots : clones[c].found = old}
            /\ clones' = [c \in Slots |-> IF c \in moved THEN [clones[c] EXCEPT !.found = id]
                                          ELSE clones[c]]
            /\ Crosses(id, IF moved = {} THEN None ELSE id)
    BY DEF Follow
  <1>3. /\ crossed' \in BOOLEAN /\ (crossed => crossed') /\ (crossed' \/ id \notin Waiting)
        /\ crossed' \/ moved = {} \/ id \notin Taken
    BY <1>1, <1>2, CrossFacts
  <1>4. ASSUME NEW c \in moved
        PROVE  /\ c \in Slots /\ clones[c].found = old /\ clones[c].step = "syncing"
               /\ clones'[c] = [clones[c] EXCEPT !.found = id]
               /\ clones[c] \in CloneType /\ CloneReady(clones[c])
    <2>1. c \in Slots /\ clones[c].found = old
      BY <1>2
    <2>2. clones[c] \in CloneType /\ CloneReady(clones[c])
      BY <1>1, <2>1 DEF LInv, ClonesReady, Given
    <2>3. clones[c].step = "syncing"
      BY <1>1, <2>1, <2>2 DEF CloneReady
    <2> QED BY <1>2, <2>1, <2>2, <2>3
  <1>5. ASSUME NEW c \in moved
        PROVE  /\ clones'[c] \in CloneType /\ clones'[c].step = "syncing"
               /\ clones'[c].found = id /\ clones'[c].source = clones[c].source
               /\ clones'[c].previous = clones[c].previous
    <2>1. id \in MaybeId
      BY DEF MaybeId
    <2> QED BY <1>4, <2>1 DEF CloneType
  <1>6. \A c \in Slots : c \in moved \/ clones'[c] = clones[c]
    BY <1>2
  <1>7. clones' \in [Slots -> CloneType]
    <2>1. \A c \in Slots : clones'[c] \in CloneType
      BY <1>1, <1>5, <1>6 DEF Given
    <2>2. clones' = [c \in Slots |-> clones'[c]]
      BY <1>2
    <2> QED BY <2>1, <2>2
  <1>8. ASSUME NEW c \in Slots
        PROVE  \/ clones'[c] = clones[c]
               \/ /\ CloneReady(clones'[c])
                  /\ CloneKnown(clones'[c], IdsOf(w) \cup gone' \cup {None})
    <2>1. CASE c \in moved
      <3>1. {clones[c].source, clones[c].previous} \subseteq Known \cap Held
        BY DEF LInv, HeldKnown, CloneKnown, Held
      <3>2. CloneKnown(clones'[c], IdsOf(w) \cup gone' \cup {None})
        BY <1>1, <1>5, <2>1, <3>1 DEF Moved, CloneKnown
      <3>3. CloneReady(clones'[c])
        BY <1>1, <1>4, <1>5, <2>1 DEF CloneReady
      <3> QED BY <3>2, <3>3
    <2> QED BY <1>6, <2>1
  <1>9. ASSUME ~crossed'
        PROVE  /\ Ordered(w) /\ RestoreOrdered(restore)
               /\ FoundsApart(clones', restore.mapping) /\ Aged(clones', w.layout, IdsOf(w))
    <2>1. /\ Ordered(w) /\ RestoreOrdered(restore) /\ FoundsApart(clones, restore.mapping)
          /\ Aged(clones, window.layout, IdsOf(window)) /\ id \notin Waiting
          /\ moved = {} \/ id \notin Taken
      BY <1>3, <1>9 DEF LInv, Tidy
    <2>2. FoundsApart(clones', restore.mapping)
      <3>1. ASSUME NEW a \in Slots, NEW b \in Slots, clones'[a].found = clones'[b].found
            PROVE  a = b \/ clones'[a].found = None
        <4>1. \A c \in Slots : clones[c].found # id
          BY <2>1 DEF Waiting
        <4>2. CASE a \in moved /\ b \in moved
          BY <1>1, <1>4, <2>1, <4>2 DEF FoundsApart
        <4>3. CASE a \in moved /\ b \notin moved
          BY <1>5, <1>6, <3>1, <4>1, <4>3
        <4>4. CASE a \notin moved /\ b \in moved
          BY <1>5, <1>6, <3>1, <4>1, <4>4
        <4>5. CASE a \notin moved /\ b \notin moved
          BY <1>6, <2>1, <3>1, <4>5 DEF FoundsApart
        <4> QED BY <4>2, <4>3, <4>4, <4>5
      <3>2. ASSUME NEW c \in Slots PROVE clones'[c].found \notin Range(restore.mapping)
        <4>1. CASE c \in moved
          <5>1. id \notin Range(restore.mapping)
            BY <2>1, <4>1 DEF Taken
          <5> QED BY <1>5, <4>1, <5>1
        <4>2. CASE c \notin moved
          BY <1>6, <2>1, <4>2 DEF FoundsApart
        <4> QED BY <4>1, <4>2
      <3> QED BY <3>1, <3>2 DEF FoundsApart
    <2>3. PICK older :
            /\ Order(older)
            /\ \A c \in Slots : Younger(older, clones[c], window.layout, IdsOf(window))
      BY <2>1 DEF Aged
    <2> DEFINE new == Renewed(older, {id})
    <2>4. Order(new) /\ {id} \cap Waiting = {} /\ IdsOf(w) \subseteq TabIds
      BY <2>1, <2>3, RenewedFacts, IdsAre DEF Moves
    <2>5. new[id] = TabIds \ {id}
      BY DEF Renewed
    <2> HIDE DEF new
    <2>6. ASSUME NEW c \in Slots PROVE Younger(new, clones'[c], w.layout, IdsOf(w))
      <3>1. CASE c \in moved
        <4>1. clones[c].source \in TabIds /\ clones[c].source # id
          <5>1. clones[c].source # None /\ clones[c].source \in MaybeId
            BY <1>4, <3>1 DEF CloneReady, CloneType
          <5>2. clones[c].source # id
            BY <2>1 DEF Waiting
          <5> QED BY <5>1, <5>2 DEF MaybeId
        <4>2. id \notin ToSet(w.layout)
          BY <2>1, <3>1 DEF Taken
        <4> QED BY <1>5, <2>5, <3>1, <4>1, <4>2 DEF Younger
      <3>2. CASE c \notin moved
        <4>1. clones'[c] = clones[c]
          BY <1>6, <3>2
        <4>2. Younger(new, clones[c], w.layout, IdsOf(w))
          BY <2>3, <2>4, RenewedYounger DEF new
        <4> QED BY <4>1, <4>2
      <3> QED BY <3>1, <3>2
    <2>7. Aged(clones', w.layout, IdsOf(w))
      BY <2>4, <2>6 DEF Aged
    <2> QED BY <2>1, <2>2, <2>7
  <1>10. Follows(w)
    BY <1>1, <1>3, <1>7, <1>8, <1>9 DEF Follows, Given
  <1> QED BY <1>10, StepFacts

\* reconnectTab, and a late answer of the session before it.
LEMMA RenamedStep ==
    ASSUME LInv, NEW i \in DOMAIN window.tabs, NEW id \in TabIds, Follow(i, id),
           NEW lost \in SUBSET TabIds, window.tabs[i].id \in lost,
           NEW w, \/ w = Renamed(window, i, id)
                  \/ id \in lost /\ w = CloseTab(Renamed(window, i, id), id),
           Changes(w, lost), counters' \in [{"local", "ssh"} -> 1..(MaxId + 1)],
           restore' = restore, rare' \in 0..MaxRare
    PROVE  LInv'
  <1> DEFINE u   == Renamed(window, i, id)
             old == window.tabs[i].id
  <1>1. Given /\ RenamesTo(i, id, u)
    BY WhatIsGiven, RenamedFacts
  <1>2. w = u \/ (id \in lost /\ w = CloseTab(u, id))
    OBVIOUS
  <1> HIDE DEF u
  <1>3. /\ window' = Effect(w)
        /\ gone' = gone \cup (((IdsOf(window) \cap Held) \cup lost) \ IdsOf(w))
    BY DEF Changes
  <1> DEFINE Good == /\ Sound(w, gone', gone') /\ WindowOK(w) /\ Current(w)
                     /\ IdsOf(w) \subseteq IdsOf(window) \cup {id} /\ id \in IdsOf(w) \cup gone'
                     /\ ToSet(w.layout) \subseteq ToSet(window.layout)
                     /\ Ordered(window) => Ordered(w)
  <1>4. ASSUME w = u PROVE Good
    <2>1. Sound(w, gone', gone')
      BY <1>1, <1>3, <1>4 DEF Given, Sound, RenamesTo
    <2>2. /\ WindowOK(w) /\ Current(w) /\ IdsOf(w) \subseteq IdsOf(window) \cup {id}
          /\ id \in IdsOf(w) /\ w.layout = window.layout /\ w.saved = window.saved
      BY <1>1, <1>4 DEF RenamesTo
    <2>3. Ordered(window) => Ordered(w)
      BY <2>2 DEF Ordered
    <2> QED BY <2>1, <2>2, <2>3
  <1>5. ASSUME id \in lost, w = CloseTab(u, id) PROVE Good
    <2> DEFINE some == gone \cup lost
    <2>1. Sound(u, some, some)
      BY <1>1 DEF Given, Sound, RenamesTo
    <2> HIDE DEF some
    <2>2. Lessens(u, w)
      BY <1>1, <1>5, <2>1, CloseTabFacts DEF ClosesTo, RenamesTo
    <2>3. Sound(u, gone', gone')
      BY <1>1, <1>3, <2>2 DEF Given, Sound, RenamesTo, Lessens
    <2>4. Lessens(u, w) /\ Current(w) /\ Sound(w, gone', gone')
      BY <1>1, <1>5, <2>3, CloseTabFacts DEF ClosesTo, RenamesTo
    <2>5. WindowOK(w) /\ IdsOf(w) \subseteq IdsOf(window) \cup {id}
      BY <1>1, <2>4 DEF Lessens, RenamesTo
    <2>6. u.layout = window.layout /\ u.saved = window.saved
      BY <1>1 DEF RenamesTo
    <2>7. ToSet(w.layout) \subseteq ToSet(window.layout) /\ (Ordered(window) => Ordered(w))
      BY <2>4, <2>6 DEF Lessens, Ordered
    <2>8. id \in IdsOf(w) \cup gone'
      BY <1>3, <1>5
    <2> QED BY <2>4, <2>5, <2>7, <2>8
  <1>6. Good
    BY <1>2, <1>4, <1>5
  <1>7. crossed' \/ id \notin Waiting
    <2>1. id # None
      BY NoneIsNoId
    <2> QED BY <2>1 DEF Follow, Crosses
  <1>8. Moves(w)
    BY <1>1, <1>3, <1>6, <1>7 DEF Moves, Given
  <1> QED BY <1>6, <1>8, FollowFacts

\* reconnectTab: the id that the tab gives up is gone.
LEMMA ReconnectStep == ASSUME LInv, NEW i, Reconnect(i) PROVE LInv'
  <1> DEFINE w  == Renamed(window, i, NewId("profile"))
             lost == {window.tabs[i].id}
  <1>1. /\ Given /\ i \in DOMAIN window.tabs /\ "profile" \in AllKinds /\ Allocates("profile")
        /\ Changes(w, lost) /\ Follow(i, NewId("profile")) /\ restore' = restore
        /\ rare' \in 0..MaxRare
    BY WhatIsGiven DEF Reconnect, Rare, Given, AllKinds
  <1>2. NewId("profile") \in TabIds /\ counters' \in [{"local", "ssh"} -> 1..(MaxId + 1)]
    BY <1>1, AllocateFacts
  <1>3. window.tabs[i].id \in TabIds
    BY <1>1 DEF Given, IdsOf
  <1> QED BY <1>1, <1>2, <1>3, RenamedStep

\* A late answer: the id that the tab gets back, or the tab with it, may go too.
LEMMA LateAnswerStep ==
    ASSUME LInv, NEW i, NEW old \in TabIds, LateAnswer(i, old)
    PROVE  LInv'
  <1> DEFINE u == Renamed(window, i, old)
             lost == {window.tabs[i].id, old}
  <1>1. /\ Given /\ i \in DOMAIN window.tabs /\ Follow(i, old)
        /\ UNCHANGED <<restore, counters, rare>>
    BY WhatIsGiven DEF LateAnswer
  <1>2. PICK ended \in BOOLEAN : Changes(IF ended THEN CloseTab(u, old) ELSE u, lost)
    BY DEF LateAnswer
  <1>3. window.tabs[i].id \in TabIds
    BY <1>1 DEF Given, IdsOf
  <1>4. PICK w : (w = u \/ w = CloseTab(u, old)) /\ Changes(w, lost)
    BY <1>2
  <1>5. counters' \in [{"local", "ssh"} -> 1..(MaxId + 1)] /\ rare' \in 0..MaxRare
    BY <1>1 DEF Given
  <1> QED BY <1>1, <1>3, <1>4, <1>5, RenamedStep

---------------------------------------------------------------------------
(* Every action keeps the invariant: splits and copies of tabs.             *)

\* A clone does no harm when what it takes is of no other, and is not older than its source.
Suits(w, c, clone) ==
    /\ clone \in CloneType /\ CloneReady(clone)
    /\ CloneKnown(clone, IdsOf(w) \cup gone' \cup {None})
    /\ \/ crossed' \/ clone.found = None
       \/ /\ \A d \in Slots \ {c} : clones[d].found # clone.found
          /\ clone.found \notin Range(restore.mapping)
    /\ crossed' \/ Aged([clones EXCEPT ![c] = clone], w.layout, IdsOf(w))
\* A step of one split or copy, which then is at its next await or has ended.
LEMMA CloneFacts ==
    ASSUME LInv, NEW w, Moves(w), Keeps(w), NEW c \in Slots, NEW clone, Suits(w, c, clone),
           clones' = [clones EXCEPT ![c] = clone], restore' = restore,
           crossed' \in BOOLEAN, crossed => crossed', rare' \in 0..MaxRare
    PROVE  LInv'
  <1>1. Given
    BY WhatIsGiven
  <1>2. /\ clones' \in [Slots -> CloneType] /\ clones'[c] = clone
        /\ \A d \in Slots : d # c => clones'[d] = clones[d]
    BY <1>1 DEF Given, Suits
  <1>3. \A d \in Slots : \/ clones'[d] = clones[d]
                         \/ /\ CloneReady(clones'[d])
                            /\ CloneKnown(clones'[d], IdsOf(w) \cup gone' \cup {None})
    BY <1>2 DEF Suits
  <1>4. ASSUME ~crossed'
        PROVE  /\ Ordered(w) /\ RestoreOrdered(restore')
               /\ FoundsApart(clones', restore'.mapping) /\ Aged(clones', w.layout, IdsOf(w))
    <2>1. Ordered(w) /\ RestoreOrdered(restore) /\ FoundsApart(clones, restore.mapping)
      BY <1>4, StillTidy
    <2>2. None \notin Range(restore.mapping)
      <3>1. Range(restore.mapping) \subseteq TabIds
        BY <1>1 DEF Given, RestoreType, Range
      <3> QED BY <3>1, NoneIsNoId
    <2>3. \/ clone.found = None
          \/ /\ \A d \in Slots \ {c} : clones[d].found # clone.found
             /\ clone.found \notin Range(restore.mapping)
      BY <1>4 DEF Suits
    <2>4. \A d \in Slots : \/ d = c /\ clones'[d].found = clone.found
                           \/ d # c /\ clones'[d].found = clones[d].found
      BY <1>2
    <2>5. FoundsApart(clones', restore.mapping)
      <3>1. \A a, b \in Slots : clones'[a].found = clones'[b].found
                                => a = b \/ clones'[a].found = None
        BY <2>1, <2>3, <2>4 DEF FoundsApart
      <3>2. \A d \in Slots : clones'[d].found \notin Range(restore.mapping)
        BY <2>1, <2>2, <2>3, <2>4 DEF FoundsApart
      <3> QED BY <3>1, <3>2 DEF FoundsApart
    <2>6. Aged(clones', w.layout, IdsOf(w))
      BY <1>4 DEF Suits
    <2> QED BY <2>1, <2>5, <2>6
  <1>5. Current(w) \/ (restore.step # "idle" /\ w.tabs = <<>>)
    BY StillCurrent
  <1>6. Follows(w)
    BY <1>1, <1>2, <1>3, <1>4, <1>5 DEF Follows, Given
  <1> QED BY <1>6, StepFacts

\* The order stays when one clone changes, if the changed one fits into it.
LEMMA OneYounger ==
    ASSUME LInv, ~crossed, NEW w, Moves(w), Keeps(w), NEW c \in Slots, NEW clone,
           NEW some, some \cap Waiting = {}, IdsOf(w) \subseteq IdsOf(window) \cup some,
           \A older : Order(older) /\ Younger(older, clones[c], window.layout, IdsOf(window))
                      => Younger(Renewed(older, some), clone, w.layout, IdsOf(w))
    PROVE  Aged([clones EXCEPT ![c] = clone], w.layout, IdsOf(w))
  <1> DEFINE after == [clones EXCEPT ![c] = clone]
  <1>1. Given /\ Aged(clones, window.layout, IdsOf(window))
    BY WhatIsGiven DEF LInv, Tidy
  <1>2. \A d \in Slots : after[d] = IF d = c THEN clone ELSE clones[d]
    BY <1>1 DEF Given
  <1> HIDE DEF after
  <1>3. PICK older : /\ Order(older)
                     /\ \A d \in Slots : Younger(older, clones[d], window.layout, IdsOf(window))
    BY <1>1 DEF Aged
  <1> DEFINE new == Renewed(older, some)
  <1>4. Younger(new, clone, w.layout, IdsOf(w))
    BY <1>3
  <1>5. IdsOf(w) \subseteq TabIds /\ ToSet(w.layout) \subseteq ToSet(window.layout)
    BY IdsAre DEF Moves, Keeps
  <1>6. \A d \in Slots : Younger(new, clones[d], w.layout, IdsOf(w))
    BY <1>3, <1>5, RenewedYounger
  <1>7. Order(new)
    BY <1>3, RenewedFacts
  <1> HIDE DEF new
  <1>8. \A d \in Slots : Younger(new, after[d], w.layout, IdsOf(w))
    BY <1>2, <1>4, <1>6
  <1>9. Aged(after, w.layout, IdsOf(w))
    BY <1>7, <1>8 DEF Aged
  <1> QED BY <1>9 DEF after

\* A clone that has no tab yet, and sees no new one.
LEMMA NothingFound ==
    ASSUME NEW older, NEW clone, NEW layout \in Seq(TabIds), NEW ids, clone.found = None,
           clone.step = "idle" \/ (clone.step = "opening" /\ (clone.kind = "local" \/ ids \subseteq clone.before))
    PROVE  Younger(older, clone, layout, ids)
  <1>1. None \notin ToSet(layout)
    BY NoneIsNoId, SetOf
  <1> QED BY <1>1 DEF Younger

\* A split may end at any time.
LEMMA IdleSuits ==
    ASSUME LInv, NEW w, Moves(w), Keeps(w), NEW c \in Slots, crossed => crossed'
    PROVE  Suits(w, c, NoClone)
  <1>1. NoClone \in CloneType /\ CloneReady(NoClone) /\ NoClone.found = None /\ NoClone.step = "idle"
    BY DEF NoClone, CloneType, MaybeId, CloneReady
  <1>2. CloneKnown(NoClone, IdsOf(w) \cup gone' \cup {None})
    BY DEF NoClone, CloneKnown
  <1>3. ASSUME ~crossed' PROVE Aged([clones EXCEPT ![c] = NoClone], w.layout, IdsOf(w))
    <2> DEFINE some == IdsOf(w) \ IdsOf(window)
    <2>1. some \cap Waiting = {} /\ IdsOf(w) \subseteq IdsOf(window) \cup some /\ ~crossed
      BY <1>3 DEF Moves
    <2>2. w.layout \in Seq(TabIds)
      BY DEF Moves, WindowOK, WindowType
    <2>3. \A older : Younger(Renewed(older, some), NoClone, w.layout, IdsOf(w))
      BY <1>1, <2>2, NothingFound
    <2> HIDE DEF some
    <2> QED BY <2>1, <2>3, OneYounger
  <1> QED BY <1>1, <1>2, <1>3 DEF Suits

\* The steps of a split: it begins, has a tab or fails, and puts its panes into the layout.
LEMMA CloneStep ==
    ASSUME LInv, NEW c \in Slots, NEW id \in TabIds, NEW split \in BOOLEAN, Clone(c, id, split)
    PROVE  LInv'
  <1>1. Given
    BY WhatIsGiven
  <1>2. PICK i \in DOMAIN window.tabs :
        /\ window.tabs[i].id = id /\ window.tabs[i].kind # "typed"
        /\ clones' = [clones EXCEPT ![c] =
              [ step |-> "opening", source |-> id, kind |-> window.tabs[i].kind,
                previous |-> window.active, split |-> split, found |-> None,
                before |-> IF window.tabs[i].kind = "local" THEN {} ELSE IdsOf(window) ]]
        /\ Becomes([window EXCEPT !.home = @ /\ window.tabs[i].kind = "local"])
    BY DEF Clone
  <1> DEFINE home  == window.home /\ window.tabs[i].kind = "local"
             w     == [window EXCEPT !.home = home]
             before == IF window.tabs[i].kind = "local" THEN {} ELSE IdsOf(window)
             clone == [ step |-> "opening", source |-> id, kind |-> window.tabs[i].kind,
                        previous |-> window.active, split |-> split, found |-> None,
                        before |-> before ]
  <1>3. Becomes(w) /\ clones' = [clones EXCEPT ![c] = clone]
    BY <1>2
  <1>4. home \in BOOLEAN
    OBVIOUS
  <1> HIDE DEF home
  <1>5. Alters(window, w) /\ w.active = window.active /\ w.maximized = window.maximized
    BY <1>1, <1>4 DEF Given, WindowType, Alters
  <1> HIDE DEF w
  <1>6. counters' = counters /\ restore' = restore /\ crossed' = crossed /\ rare' \in 0..MaxRare
    BY <1>1 DEF Clone, Rare, Given
  <1>7. Moves(w) /\ Keeps(w)
    BY <1>1, <1>3, <1>5, <1>6, AlterMoves DEF Given, Sound, Known
  <1>8. IdsOf(w) = IdsOf(window) /\ id \in IdsOf(window) /\ window.tabs # <<>>
    <2>1. IdsOf(w) = IdsOf(window)
      BY <1>1, <1>5, AlterFacts DEF Given
    <2>2. id \in IdsOf(window)
      BY <1>2 DEF IdsOf
    <2>3. window.tabs # <<>>
      BY <1>1, <1>2 DEF Given
    <2> QED BY <2>1, <2>2, <2>3
  <1>9. window.tabs[i] \in TabType
    BY <1>1 DEF Given
  <1>10. /\ window.tabs[i].kind \in {"local", "profile"} /\ before \subseteq TabIds
         /\ (window.tabs[i].kind = "profile" => before = IdsOf(window))
    BY <1>1, <1>2, <1>9 DEF TabType, AllKinds, Given
  <1> HIDE DEF before
  <1>11. clone \in CloneType
    BY <1>1, <1>10 DEF CloneType, MaybeId, Given
  <1>12. CloneReady(clone)
    BY <1>1, <1>8, NoneIsNoId DEF CloneReady, Given, Sound
  <1>13. CloneKnown(clone, IdsOf(w) \cup gone' \cup {None})
    <2>1. window.active \in IdsOf(w) \cup gone' \cup {None}
      BY <1>1, <1>3, <1>8 DEF Given, Sound, Becomes, Changes
    <2> QED BY <1>8, <2>1 DEF CloneKnown
  <1>14. ASSUME ~crossed PROVE Aged([clones EXCEPT ![c] = clone], w.layout, IdsOf(w))
    <2>1. w.layout \in Seq(TabIds)
      BY <1>7 DEF Moves, WindowOK, WindowType
    <2>2. \A older : Younger(Renewed(older, {}), clone, w.layout, IdsOf(w))
      <3>1. clone.found = None /\ clone.step = "opening" /\ clone.kind = window.tabs[i].kind
            /\ clone.before = before
        OBVIOUS
      <3> HIDE DEF clone
      <3> QED BY <1>8, <1>10, <2>1, <3>1, NothingFound
    <2>3. IdsOf(w) \subseteq IdsOf(window) \cup {}
      BY <1>8
    <2> HIDE DEF clone
    <2> QED BY <1>7, <1>14, <2>2, <2>3, OneYounger
  <1>15. Suits(w, c, clone)
    BY <1>6, <1>11, <1>12, <1>13, <1>14 DEF Suits
  <1> HIDE DEF clone
  <1> QED BY <1>1, <1>3, <1>6, <1>7, <1>15, CloneFacts DEF Given

\* The ids that a clone holds.
LEMMA HeldFacts ==
    ASSUME LInv, NEW c \in Slots
    PROVE  /\ clones[c].step = "opening" => clones[c].previous \in Known \ {None}
           /\ {clones[c].source, clones[c].previous, clones[c].found} \subseteq Known
           /\ clones[c].step # "idle" => clones[c].source \in TabIds
           /\ clones[c].step = "syncing" => clones[c].found \in TabIds
  <1>1. Given /\ clones[c] \in CloneType
    BY WhatIsGiven DEF Given
  <1>2. /\ {clones[c].source, clones[c].previous, clones[c].found} \subseteq Known
        /\ CloneReady(clones[c])
    BY DEF LInv, HeldKnown, CloneKnown, ClonesReady
  <1> QED BY <1>1, <1>2 DEF CloneReady, CloneType, MaybeId

\* What cloneTab leaves of a clone: some are the ids that may be new.
LEMMA FoundSuits ==
    ASSUME LInv, NEW w, Moves(w), Keeps(w), NEW c \in Slots, NEW id \in IdsOf(w) \cup {None},
           clones[c].step = "opening", crossed => crossed',
           NEW some, crossed' \/ some \cap Waiting = {},
           IdsOf(w) \subseteq IdsOf(window) \cup some,
           \/ id = None \/ id \in some
           \/ clones[c].kind = "profile" /\ id \in IdsOf(window) \ clones[c].before,
           crossed' \/ id = None \/ id \notin Taken
    PROVE  Suits(w, c, Found(clones[c], id))
  <1> DEFINE clone == [clones[c] EXCEPT !.step = "syncing", !.found = id, !.kind = "local",
                                        !.before = {}]
  <1>1. CASE clones[c].split /\ id # None
    <2>1. Given /\ Moved(w)
      BY WhatIsGiven, MoveFacts
    <2>2. Found(clones[c], id) = clone
      BY <1>1 DEF Found
    <2>3. clones[c] \in CloneType /\ id \in MaybeId /\ id \in TabIds
      <3>1. IdsOf(w) \subseteq TabIds
        BY IdsAre DEF Moves
      <3> QED BY <1>1, <2>1, <3>1 DEF Given, MaybeId
    <2>4. /\ clone \in CloneType /\ clone.step = "syncing" /\ clone.found = id
          /\ clone.source = clones[c].source /\ clone.previous = clones[c].previous
      BY <2>3 DEF CloneType
    <2> HIDE DEF clone
    <2>5. CloneReady(clones[c])
      BY DEF LInv, ClonesReady
    <2>6. CloneReady(clone)
      BY <1>1, <2>4, <2>5 DEF CloneReady
    <2>7. {clones[c].source, clones[c].previous} \subseteq Known \cap Held
      BY DEF LInv, HeldKnown, CloneKnown, Held
    <2>8. CloneKnown(clone, IdsOf(w) \cup gone' \cup {None})
      BY <1>1, <2>1, <2>4, <2>7 DEF Moved, CloneKnown
    <2>9. \/ crossed'
          \/ /\ \A d \in Slots \ {c} : clones[d].found # clone.found
             /\ clone.found \notin Range(restore.mapping)
      BY <1>1, <2>4 DEF Taken
    <2>10. ASSUME ~crossed' PROVE Aged([clones EXCEPT ![c] = clone], w.layout, IdsOf(w))
      <3>1. some \cap Waiting = {} /\ id \notin ToSet(w.layout) /\ ~crossed
        BY <1>1, <2>10 DEF Taken, Keeps
      <3>2. clones[c].source \in TabIds /\ clones[c].source \notin some
        BY <3>1, HeldFacts DEF Waiting
      <3>3. ASSUME NEW older, Order(older),
                   Younger(older, clones[c], window.layout, IdsOf(window))
            PROVE  Younger(Renewed(older, some), clone, w.layout, IdsOf(w))
        <4>1. id \in some \/ clones[c].source \in older[id]
          BY <1>1, <3>3 DEF Younger
        <4>2. clones[c].source \in Renewed(older, some)[id]
          BY <2>3, <3>2, <4>1 DEF Renewed
        <4> QED BY <2>4, <3>1, <4>2 DEF Younger
      <3> QED BY <3>1, <3>3, OneYounger
    <2> QED BY <2>2, <2>4, <2>6, <2>8, <2>9, <2>10 DEF Suits, clone
  <1>2. CASE ~(clones[c].split /\ id # None)
    <2>1. Found(clones[c], id) = NoClone
      BY <1>2 DEF Found
    <2> QED BY <2>1, IdleSuits
  <1> QED BY <1>1, <1>2

\* The local session of a clone is open: its id is of nobody else, or the ways have crossed.
LEMMA CloneOpensLocalStep == ASSUME LInv, NEW c \in Slots, CloneOpensLocal(c) PROVE LInv'
  <1> DEFINE v == Opened(window, "local")
             w == [v EXCEPT !.active = clones[c].previous, !.home = window.home]
             x == NewId("local")
  <1>1. /\ Given /\ Allocates("local") /\ "local" \in AllKinds
        /\ clones[c].step = "opening" /\ Becomes(w)
        /\ clones' = [clones EXCEPT ![c] = Found(clones[c], x)]
        /\ Crosses(x, x) /\ restore' = restore /\ rare' = rare
    BY WhatIsGiven DEF CloneOpensLocal, AllKinds
  <1>2. x \in TabIds /\ x # None
    BY <1>1, AllocateFacts
  <1>3. OpensTo(window, x, v)
    BY <1>1, <1>2, OpenedFacts DEF Given
  <1>4. /\ crossed' \in BOOLEAN /\ (crossed => crossed')
        /\ (crossed' \/ x \notin Waiting) /\ (crossed' \/ x \notin Taken)
    BY <1>1, <1>2, CrossFacts
  <1> HIDE DEF v, x
  <1>5. clones[c].previous \in Known \ {None}
    BY <1>1, HeldFacts
  <1>6. Alters(v, w) /\ w.active = clones[c].previous /\ w.maximized = window.maximized
    BY <1>1, <1>3, <1>5 DEF OpensTo, WindowOK, WindowType, Alters, Given
  <1> HIDE DEF w
  <1>7. Grows(w, x)
    BY <1>1, <1>4, <1>5, <1>6, GrowFacts DEF v, x
  <1>8. Suits(w, c, Found(clones[c], x))
    <2>1. /\ Moves(w) /\ Keeps(w) /\ x \in IdsOf(w) \cup {None} /\ x \in {x}
          /\ IdsOf(w) \subseteq IdsOf(window) \cup {x} /\ (crossed' \/ {x} \cap Waiting = {})
      BY <1>4, <1>7 DEF Grows
    <2> QED BY <1>1, <1>4, <2>1, FoundSuits
  <1> QED BY <1>1, <1>4, <1>7, <1>8, CloneFacts DEF Grows, Given

\* The local session of a clone does not open.
LEMMA CloneFailsStep == ASSUME LInv, NEW c \in Slots, CloneFails(c) PROVE LInv'
  <1> DEFINE w == [window EXCEPT !.active = clones[c].previous]
  <1>1. /\ Given /\ Becomes(w) /\ clones' = [clones EXCEPT ![c] = NoClone]
        /\ clones[c].step = "opening" /\ UNCHANGED <<restore, counters, rare, crossed>>
    BY WhatIsGiven DEF CloneFails
  <1>2. clones[c].previous \in Known \ {None}
    BY <1>1, HeldFacts
  <1>3. Alters(window, w) /\ w.active = clones[c].previous /\ w.maximized = window.maximized
    BY <1>1, <1>2 DEF Given, WindowType, Alters
  <1> HIDE DEF w
  <1>4. Moves(w) /\ Keeps(w)
    BY <1>1, <1>2, <1>3, AlterMoves DEF Given, Sound, Known
  <1>5. Suits(w, c, NoClone)
    BY <1>1, <1>4, IdleSuits
  <1> QED BY <1>1, <1>4, <1>5, CloneFacts DEF Given

\* connectHost has ended: what is found is younger than the source, as it was not there before.
LEMMA CloneConnectedStep == ASSUME LInv, NEW c \in Slots, CloneConnected(c) PROVE LInv'
  <1>1. Given /\ clones[c].step = "opening" /\ clones[c].kind = "profile"
    BY WhatIsGiven DEF CloneConnected
  <1>2. PICK opened \in BOOLEAN :
        LET w     == IF opened THEN Opened(window, "profile") ELSE window
            found == NewTab(w, clones[c].before, "profile")
        IN  /\ IF opened THEN Allocates("profile") ELSE UNCHANGED counters
            /\ Becomes([w EXCEPT !.active = clones[c].previous, !.home = FALSE])
            /\ clones' = [clones EXCEPT ![c] = Found(@, found)]
            /\ Crosses(IF opened THEN NewId("profile") ELSE None, found)
    BY DEF CloneConnected
  <1> DEFINE v     == IF opened THEN Opened(window, "profile") ELSE window
             found == NewTab(v, clones[c].before, "profile")
             w     == [v EXCEPT !.active = clones[c].previous, !.home = FALSE]
             x     == NewId("profile")
             given == IF opened THEN x ELSE None
             some  == IF opened THEN {x} ELSE {}
  <1>3. /\ IF opened THEN Allocates("profile") ELSE UNCHANGED counters
        /\ Becomes(w) /\ clones' = [clones EXCEPT ![c] = Found(clones[c], found)]
        /\ Crosses(given, found) /\ restore' = restore /\ rare' = rare
    BY <1>2 DEF CloneConnected
  <1>4. clones[c].previous \in Known \ {None} /\ clones[c].previous \in MaybeId
    BY <1>1, HeldFacts DEF Given
  <1>5. ASSUME opened
        PROVE  /\ x \in TabIds /\ x # None /\ "profile" \in AllKinds /\ Allocates("profile")
               /\ v = Opened(window, "profile") /\ OpensTo(window, x, v)
    <2>1. "profile" \in AllKinds /\ Allocates("profile")
      BY <1>3, <1>5 DEF AllKinds
    <2>2. x \in TabIds /\ x # None
      BY <2>1, AllocateFacts
    <2> QED BY <1>1, <1>5, <2>1, <2>2, OpenedFacts DEF Given
  <1>6. /\ crossed' \in BOOLEAN /\ (crossed => crossed')
        /\ (crossed' \/ some \cap Waiting = {})
        /\ (crossed' \/ found = None \/ found \notin Taken)
    <2>1. /\ crossed' \in BOOLEAN /\ (crossed => crossed')
          /\ crossed' \/ given = None \/ given \notin Waiting
          /\ crossed' \/ found = None \/ found \notin Taken
      BY <1>3, CrossFacts
    <2>2. some = {} \/ (some = {given} /\ given # None)
      BY <1>5
    <2> QED BY <2>1, <2>2
  <1> HIDE DEF x
  <1>7. /\ WindowOK(v) /\ v.maximized = window.maximized
        /\ IdsOf(v) \subseteq IdsOf(window) \cup some
    <2>1. CASE opened
      BY <1>5, <2>1 DEF OpensTo
    <2>2. CASE ~opened
      BY <1>1, <2>2 DEF Given
    <2> QED BY <2>1, <2>2
  <1> HIDE DEF found
  <1>8. Alters(v, w) /\ w.active = clones[c].previous /\ w.maximized = window.maximized
    <2> HIDE DEF v
    <2> QED BY <1>4, <1>7 DEF WindowOK, WindowType, Alters
  <1>9. v = window \/ opened
    OBVIOUS
  <1> HIDE DEF w, v
  <1>10. Moves(w) /\ Keeps(w)
    <2>1. CASE opened
      <3>1. crossed' \/ x \notin Waiting
        BY <1>6, <2>1
      <3>2. Grows(w, x)
        BY <1>3, <1>4, <1>5, <1>8, <2>1, <3>1, GrowFacts DEF x
      <3> QED BY <3>2 DEF Grows
    <2>2. CASE ~opened
      <3>1. w.maximized \in Known /\ counters' = counters
        BY <1>1, <1>3, <1>8, <2>2 DEF Given, Sound, Known
      <3> QED BY <1>3, <1>4, <1>8, <1>9, <2>2, <3>1, AlterMoves
    <2> QED BY <2>1, <2>2
  <1>11. IdsOf(w) = IdsOf(v)
    BY <1>7, <1>8, AlterFacts
  <1>12. found \in (IdsOf(w) \ clones[c].before) \cup {None}
    BY <1>7, <1>11, NewTabFacts DEF found
  <1>13. \/ found = None \/ found \in some
         \/ clones[c].kind = "profile" /\ found \in IdsOf(window) \ clones[c].before
    BY <1>1, <1>7, <1>11, <1>12
  <1> HIDE DEF some
  <1>14. Suits(w, c, Found(clones[c], found))
    BY <1>1, <1>6, <1>7, <1>10, <1>11, <1>12, <1>13, FoundSuits
  <1> QED BY <1>1, <1>3, <1>6, <1>10, <1>14, CloneFacts DEF Given

\* The rest of splitTab: where the pane goes, and which ids it makes known.
LEMMA CloneEndsStep == ASSUME LInv, NEW c \in Slots, CloneEnds(c) PROVE LInv'
  <1> DEFINE source == clones[c].source
             found  == clones[c].found
             s == IF window.layout # <<>> /\ source \notin ToSet(window.layout)
                  THEN CloseSplit(window) ELSE window
             layout == Insert(s.layout, source, found)
             j == [s EXCEPT !.layout = layout]
             i == Sync(j)
             m == [i EXCEPT !.maximized = None]
             p == Persist(m)
             w == [p EXCEPT !.active = source]
  <1>1. /\ Given /\ clones[c].step = "syncing" /\ Becomes(w)
        /\ clones' = [clones EXCEPT ![c] = NoClone]
        /\ UNCHANGED <<restore, counters, rare, crossed>>
    BY WhatIsGiven DEF CloneEnds
  <1>2. /\ source \in Known \ {None} /\ found \in Known \ {None}
        /\ source \in TabIds /\ found \in TabIds /\ source \in Held /\ found \in Held
    <2>1. source \in Known /\ found \in Known /\ source \in TabIds /\ found \in TabIds
      BY <1>1, HeldFacts
    <2>2. source \in Held /\ found \in Held
      BY DEF Held
    <2> QED BY <2>1, <2>2, NoneIsNoId
  <1> HIDE DEF source, found
  <1>3. /\ Lessens(window, s) /\ Sound(s, gone, gone)
        /\ s.layout = <<>> \/ (s = window /\ source \in ToSet(s.layout))
    <2>1. CASE window.layout # <<>> /\ source \notin ToSet(window.layout)
      <3>1. s = CloseSplit(window)
        BY <2>1
      <3> HIDE DEF s
      <3>2. SplitsTo(window, gone, s)
        BY <1>1, <3>1, CloseSplitFacts DEF Given
      <3> QED BY <3>2, BareIsSound DEF SplitsTo, Bare
    <2>2. CASE ~(window.layout # <<>> /\ source \notin ToSet(window.layout))
      BY <1>1, <2>2, LessensSelf DEF Given
    <2> QED BY <2>1, <2>2
  <1> HIDE DEF s
  <1>4. /\ s \in WindowType /\ WindowOK(s) /\ s.layout \in Seq(TabIds)
        /\ ToSet(s.layout) \subseteq ToSet(window.layout)
    BY <1>3 DEF Lessens, WindowOK, WindowType
  <1>5. /\ layout \in Seq(TabIds) /\ ToSet(layout) = ToSet(s.layout) \cup {source, found}
        /\ source # found /\ IsInjective(s.layout) /\ found \notin ToSet(s.layout)
              => IsInjective(layout)
    <2>1. s.layout = <<>> \/ source \in ToSet(s.layout)
      BY <1>3
    <2> QED BY <1>2, <1>4, <2>1, InsertFacts
  <1> HIDE DEF layout
  <1>6. /\ j \in WindowType /\ j.tabs = s.tabs /\ j.active = s.active /\ j.layout = layout
        /\ j.maximized = s.maximized
    BY <1>4, <1>5 DEF WindowType
  <1>7. i = [j EXCEPT !.panes = LayoutPanes(j)]
    BY DEF Sync
  <1> HIDE DEF i, j
  <1>8. IdsOf(j) = IdsOf(s)
    BY <1>6 DEF IdsOf
  <1> DEFINE panes == LayoutPanes(j)
  <1>9. panes \in Seq(TabIds) /\ ToSet(panes) = ToSet(layout) \cap IdsOf(s)
    BY <1>5, <1>6, <1>8, OnlyFacts DEF LayoutPanes
  <1> HIDE DEF panes
  <1>10. i \in WindowType /\ i.tabs = s.tabs /\ i.layout = layout /\ i.panes = panes
    BY <1>6, <1>7, <1>9 DEF WindowType, panes
  <1>11. m \in WindowType /\ m.tabs = s.tabs /\ m.layout = layout /\ m.panes = panes
         /\ m.maximized = None
    BY <1>10 DEF WindowType, MaybeId
  <1> HIDE DEF m
  <1>12. PersistsTo(m, p)
    BY <1>11, PersistFacts
  <1> HIDE DEF p
  <1>13. /\ p \in WindowType /\ p.tabs = s.tabs /\ p.layout = layout /\ p.panes = panes
         /\ p.maximized = None /\ p.saved.layout \in {layout, <<>>} /\ Current(p)
    BY <1>11, <1>12 DEF PersistsTo
  <1>14. /\ w \in WindowType /\ w.tabs = s.tabs /\ w.layout = layout /\ w.panes = panes
         /\ w.maximized = None /\ w.saved = p.saved /\ w.active = source
    BY <1>2, <1>13 DEF WindowType, MaybeId
  <1> HIDE DEF w
  <1>15. WindowOK(w) /\ IdsOf(w) = IdsOf(s) /\ Current(w)
    BY <1>4, <1>13, <1>14 DEF WindowOK, IdsOf, Current
  <1>16. /\ gone' = gone \cup ((IdsOf(window) \cap Held) \ IdsOf(w))
         /\ IdsOf(w) \subseteq IdsOf(window)
    BY <1>1, <1>3, <1>15 DEF Becomes, Changes, Lessens
  <1>17. source \in IdsOf(w) \cup gone' /\ found \in IdsOf(w) \cup gone'
    BY <1>2, <1>16 DEF Known
  <1>18. Sound(w, gone', gone')
    <2>1. ToSet(s.layout) \subseteq IdsOf(w) \cup gone
      BY <1>3, <1>15 DEF Sound
    <2>2. ToSet(w.layout) \subseteq IdsOf(w) \cup gone'
      BY <1>5, <1>14, <1>16, <1>17, <2>1
    <2>3. ToSet(w.layout) \cap IdsOf(w) \subseteq ToSet(w.panes)
      BY <1>9, <1>14, <1>15
    <2> QED BY <1>2, <1>14, <1>17, <2>2, <2>3 DEF Sound
  <1>19. Moves(w)
    BY <1>1, <1>15, <1>16, <1>18 DEF Moves, Becomes, Changes, Given
  <1>20. NoClone \in CloneType /\ CloneReady(NoClone) /\ NoClone.found = None /\ NoClone.step = "idle"
    BY DEF NoClone, CloneType, MaybeId, CloneReady
  <1>21. /\ clones' \in [Slots -> CloneType]
         /\ \A d \in Slots : clones'[d] = IF d = c THEN NoClone ELSE clones[d]
    BY <1>1, <1>20 DEF Given
  <1>22. ASSUME ~crossed
         PROVE  /\ Ordered(w) /\ RestoreOrdered(restore)
                /\ FoundsApart(clones', restore.mapping) /\ Aged(clones', w.layout, IdsOf(w))
    <2>1. /\ Ordered(window) /\ RestoreOrdered(restore) /\ FoundsApart(clones, restore.mapping)
          /\ Aged(clones, window.layout, IdsOf(window))
      BY <1>22 DEF LInv, Tidy
    <2>2. IsInjective(s.layout)
      BY <1>3, <2>1 DEF Lessens, Ordered
    <2>3. PICK older :
            /\ Order(older)
            /\ \A d \in Slots : Younger(older, clones[d], window.layout, IdsOf(window))
      BY <2>1 DEF Aged
    <2>4. source \in older[found] /\ source # found /\ older[source] \subseteq older[found]
      <3>1. source \in older[found]
        BY <1>1, <2>3 DEF Younger, source, found
      <3> QED BY <1>2, <2>3, <3>1 DEF Order
    <2>5. found \notin ToSet(s.layout)
      <3>1. CASE s.layout = <<>>
        BY <3>1 DEF ToSet
      <3>2. CASE s = window /\ source \in ToSet(s.layout)
        <4>1. found \in ToSet(window.layout) => source = found \/ found \in older[source]
          BY <2>3, <3>2 DEF Younger, found
        <4>2. found \notin older[found]
          BY <1>2, <2>3 DEF Order
        <4> QED BY <2>4, <3>2, <4>1, <4>2
      <3> QED BY <1>3, <3>1, <3>2
    <2>6. Ordered(w)
      <3>1. IsInjective(<<>>)
        BY DEF IsInjective
      <3> QED BY <1>5, <1>13, <1>14, <2>2, <2>4, <2>5, <3>1 DEF Ordered
    <2>7. None \notin ToSet(w.layout) /\ None \notin Range(restore.mapping)
      <3>1. Range(restore.mapping) \subseteq TabIds
        BY <1>1 DEF Given, RestoreType, Range
      <3>2. ToSet(w.layout) \subseteq TabIds
        BY <1>5, <1>14, SetOf
      <3> QED BY <3>1, <3>2, NoneIsNoId
    <2>8. ASSUME NEW d \in Slots, d # c, clones[d].found \in ToSet(w.layout),
                 NEW leaf \in ToSet(w.layout)
          PROVE  leaf = clones[d].found \/ clones[d].found \in older[leaf]
      <3> DEFINE other == clones[d].found
      <3>1. other # found /\ other \in ToSet(s.layout) \cup {source, found}
            /\ leaf \in ToSet(s.layout) \cup {source, found}
        <4>1. found # None
          BY <1>2
        <4> QED BY <1>5, <1>14, <2>1, <2>8, <4>1 DEF FoundsApart, found
      <3>2. other \in ToSet(window.layout)
               => \A x \in ToSet(window.layout) : x = other \/ other \in older[x]
        BY <2>3 DEF Younger
      <3> HIDE DEF other
      <3>3. CASE s.layout = <<>>
        <4>1. ToSet(s.layout) = {}
          BY <3>3 DEF ToSet
        <4> QED BY <2>4, <3>1, <4>1 DEF other
      <3>4. CASE s = window /\ source \in ToSet(s.layout)
        BY <2>4, <3>1, <3>2, <3>4 DEF other
      <3> QED BY <1>3, <3>3, <3>4
    <2>9. ASSUME NEW d \in Slots PROVE Younger(older, clones'[d], w.layout, IdsOf(w))
      <3>1. CASE d = c
        BY <1>20, <1>21, <2>7, <3>1 DEF Younger
      <3>2. CASE d # c
        <4>1. clones'[d] = clones[d] /\ Younger(older, clones[d], window.layout, IdsOf(window))
          BY <1>21, <2>3, <3>2
        <4>2. clones[d].found \in ToSet(w.layout) =>
                 \A leaf \in ToSet(w.layout) : leaf = clones[d].found \/ clones[d].found \in older[leaf]
          BY <2>8, <3>2
        <4> QED BY <1>16, <4>1, <4>2 DEF Younger
      <3> QED BY <3>1, <3>2
    <2>10. Aged(clones', w.layout, IdsOf(w))
      BY <2>3, <2>9 DEF Aged
    <2>11. FoundsApart(clones', restore.mapping)
      <3>1. \A a, b \in Slots : clones'[a].found = clones'[b].found
                                => a = b \/ clones'[a].found = None
        BY <1>20, <1>21, <2>1 DEF FoundsApart
      <3>2. \A d \in Slots : clones'[d].found \notin Range(restore.mapping)
        BY <1>20, <1>21, <2>1, <2>7 DEF FoundsApart
      <3> QED BY <3>1, <3>2 DEF FoundsApart
    <2> QED BY <2>1, <2>6, <2>10, <2>11
  <1>23. \A d \in Slots : \/ clones'[d] = clones[d]
                          \/ /\ CloneReady(clones'[d])
                             /\ CloneKnown(clones'[d], IdsOf(w) \cup gone' \cup {None})
    <2>1. CloneKnown(NoClone, IdsOf(w) \cup gone' \cup {None})
      BY DEF CloneKnown, NoClone
    <2> QED BY <1>20, <1>21, <2>1
  <1>24. Follows(w)
    BY <1>1, <1>15, <1>19, <1>21, <1>22, <1>23 DEF Follows, Given
  <1> QED BY <1>24, StepFacts

---------------------------------------------------------------------------
(* Every action keeps the invariant: restart and restore.                   *)

\* Clones that do nothing have no tab that is old or young.
LEMMA NobodyIsOld ==
    ASSUME NEW cs, \A c \in Slots : cs[c].found = None /\ cs[c].step = "idle", NEW ids
    PROVE  Aged(cs, <<>>, ids)
  <1> DEFINE older == [id \in TabIds |-> {}]
  <1>1. Order(older)
    BY DEF Order
  <1>2. ToSet(<<>>) = {}
    BY DEF ToSet
  <1>3. \A c \in Slots : Younger(older, cs[c], <<>>, ids)
    BY <1>2 DEF Younger
  <1> QED BY <1>1, <1>3 DEF Aged

\* The window starts again: what waited is gone, and the record is as orderly as the layout was.
LEMMA RestartStep == ASSUME LInv, RestartWindow PROVE LInv'
  <1>1. /\ Given /\ window' = NewWindow(window.saved) /\ clones' = [c \in Slots |-> NoClone]
        /\ restore' = [NoRestore EXCEPT !.step = "loaded"] /\ gone' = {}
        /\ counters' = counters /\ crossed' = crossed /\ rare' \in 0..MaxRare
    BY WhatIsGiven DEF RestartWindow, Rare, Given
  <1>2. <<>> \in Seq(TabIds) /\ <<>> \in Seq(TabType) /\ <<>> \in Seq(EntryType)
    OBVIOUS
  <1>3. NoRecord \in RecordType /\ window.saved \in RecordType
    BY <1>1, <1>2 DEF NoRecord, RecordType, Given, WindowType
  <1>4. /\ window' \in WindowType /\ window'.tabs = <<>> /\ window'.layout = <<>>
        /\ window'.panes = <<>> /\ window'.maximized = None /\ window'.active = None
        /\ window'.saved = window.saved
    BY <1>1, <1>2, <1>3 DEF NewWindow, WindowType, MaybeId
  <1>5. WindowOK(window')
    BY <1>4 DEF WindowOK
  <1>6. NoClone \in CloneType /\ NoClone.found = None /\ NoClone.step = "idle"
    BY DEF NoClone, CloneType, MaybeId
  <1>7. /\ restore' \in RestoreType /\ restore'.step = "loaded" /\ restore'.layout = <<>>
        /\ restore'.record.layout = <<>> /\ restore'.mapping = <<>>
    <2>1. <<>> \in [{} -> TabIds] /\ {} \subseteq TabIds
      OBVIOUS
    <2> DEFINE maps == UNION {[olds -> TabIds] : olds \in SUBSET TabIds}
    <2>2. <<>> \in maps
      BY <2>1
    <2> HIDE DEF maps
    <2> QED BY <1>1, <1>2, <1>3, <2>2 DEF NoRestore, NoRecord, RestoreType, maps
  <1>8. LayoutTypeOK'
    <2>1. clones' \in [Slots -> CloneType]
      BY <1>1, <1>6
    <2> QED BY <1>1, <1>5, <1>7, <2>1 DEF LayoutTypeOK, WindowOK, Given
  <1>9. IdsOf(window') = {} /\ ToSet(window'.layout) = {} /\ ToSet(<<>>) = {}
    BY <1>4 DEF IdsOf, ToSet
  <1>10. Sound(window', gone', gone') /\ RestoreReady(restore')
    BY <1>1, <1>4, <1>7, <1>9 DEF Sound, RestoreReady
  <1>11. Range(restore'.mapping) = {}
    BY <1>7 DEF Range
  <1>12. HeldKnown' /\ ClonesReady'
    <2>1. \A c \in Slots : clones'[c] = NoClone
      BY <1>1
    <2>2. /\ CloneReady(NoClone)
          /\ CloneKnown(NoClone, IdsOf(window') \cup gone' \cup {None})
      BY DEF CloneReady, CloneKnown, NoClone
    <2> QED BY <1>11, <2>1, <2>2 DEF HeldKnown, Known, ClonesReady
  <1>13. Tidy'
    <2> SUFFICES ASSUME ~crossed'
                 PROVE  /\ Ordered(window') /\ RestoreOrdered(restore')
                        /\ FoundsApart(clones', restore'.mapping)
                        /\ Aged(clones', window'.layout, IdsOf(window'))
      BY DEF Tidy
    <2>1. IsInjective(<<>>)
      BY DEF IsInjective
    <2>2. Ordered(window)
      BY <1>1 DEF LInv, Tidy
    <2>3. Ordered(window') /\ RestoreOrdered(restore')
      BY <1>4, <1>7, <2>1, <2>2 DEF Ordered, RestoreOrdered
    <2>4. \A c \in Slots : clones'[c].found = None /\ clones'[c].step = "idle"
      BY <1>1, <1>6
    <2>5. FoundsApart(clones', restore'.mapping)
      BY <1>11, <2>4 DEF FoundsApart
    <2>6. Aged(clones', window'.layout, IdsOf(window'))
      BY <1>4, <2>4, NobodyIsOld
    <2> QED BY <2>3, <2>5, <2>6
  <1>14. RecordIsCurrent'
    BY <1>4, <1>7 DEF RecordIsCurrent
  <1> QED BY <1>8, <1>10, <1>12, <1>13, <1>14 DEF LInv

\* A step of the restore. What it takes is of nobody, or the ways have crossed.
LEMMA RestoreFacts ==
    ASSUME LInv, NEW w, Moves(w), Keeps(w), clones' = clones, rare' = rare,
           restore' \in RestoreType, RestoreReady(restore'), crossed' \in BOOLEAN,
           Range(restore'.mapping) \subseteq Range(restore.mapping) \cup IdsOf(w),
           Current(w) \/ restore'.step # "idle",
           \/ crossed'
           \/ /\ ~crossed /\ (RestoreOrdered(restore) /\ Ordered(window) => RestoreOrdered(restore'))
              /\ \A c \in Slots : clones[c].found \notin Range(restore'.mapping)
    PROVE  LInv'
  <1>1. Given
    BY WhatIsGiven
  <1>2. Current(w) \/ (restore'.step # "idle" /\ w.tabs = <<>>)
    BY StillCurrent
  <1>3. ASSUME ~crossed'
        PROVE  /\ Ordered(w) /\ RestoreOrdered(restore')
               /\ FoundsApart(clones', restore'.mapping) /\ Aged(clones', w.layout, IdsOf(w))
    <2>1. /\ Ordered(w) /\ RestoreOrdered(restore) /\ FoundsApart(clones, restore.mapping)
          /\ Aged(clones, w.layout, IdsOf(w))
      BY <1>3, StillTidy
    <2>2. Ordered(window)
      BY <1>3 DEF LInv, Tidy
    <2> QED BY <1>3, <2>1, <2>2 DEF FoundsApart
  <1>4. Follows(w)
    BY <1>1, <1>2, <1>3 DEF Follows, Given
  <1> QED BY <1>4, StepFacts

\* A step of the restore that takes no tab.
LEMMA RestoreGoesOn ==
    ASSUME LInv, NEW w, Moves(w), Keeps(w), UNCHANGED <<clones, rare>>,
           crossed' \in BOOLEAN, crossed => crossed', restore' \in RestoreType, RestoreReady(restore'),
           Range(restore'.mapping) \subseteq Range(restore.mapping),
           Current(w) \/ restore'.step # "idle",
           RestoreOrdered(restore) /\ Ordered(window) => RestoreOrdered(restore')
    PROVE  LInv'
  <1>1. Given
    BY WhatIsGiven
  <1>2. crossed \/ \A c \in Slots : clones[c].found \notin Range(restore'.mapping)
    BY DEF LInv, Tidy, FoundsApart
  <1> QED BY <1>1, <1>2, RestoreFacts DEF Given

\* The steps of the restore.
LEMMA ReadRecordStep == ASSUME LInv, ReadRecord PROVE LInv'
  <1>1. /\ Given /\ restore.step = "loaded" /\ UNCHANGED <<window, clones, counters, rare, gone, crossed>>
        /\ restore' = IF window.saved = NoRecord THEN NoRestore
                      ELSE [restore EXCEPT !.step = "reading", !.record = window.saved]
    BY WhatIsGiven DEF ReadRecord
  <1>2. Moves(window) /\ Keeps(window)
    BY <1>1 DEF Given, Moves, Keeps
  <1>3. CASE window.saved = NoRecord
    <2>1. <<>> \in Seq(TabIds) /\ <<>> \in Seq(EntryType) /\ IsInjective(<<>>)
      BY DEF IsInjective
    <2>2. NoRecord \in RecordType /\ NoRecord.layout = <<>> /\ NoRecord.tabs = <<>>
      BY <2>1 DEF NoRecord, RecordType
    <2>3. <<>> \in UNION {[olds -> TabIds] : olds \in SUBSET TabIds}
      <3>1. <<>> \in [{} -> TabIds] /\ {} \subseteq TabIds
        OBVIOUS
      <3> QED BY <3>1
    <2>4. restore' = NoRestore
      BY <1>1, <1>3
    <2> DEFINE maps == UNION {[olds -> TabIds] : olds \in SUBSET TabIds}
    <2> HIDE DEF maps
    <2>5. /\ restore' \in RestoreType /\ restore'.step = "idle" /\ restore'.mapping = <<>>
          /\ restore'.layout = <<>> /\ restore'.record = NoRecord
      BY <2>1, <2>2, <2>3, <2>4 DEF NoRestore, RestoreType, maps
    <2>6. RestoreReady(restore') /\ RestoreOrdered(restore')
      BY <2>1, <2>2, <2>5 DEF RestoreReady, RestoreOrdered
    <2>7. Range(restore'.mapping) = {}
      BY <2>5 DEF Range
    <2>8. Current(window)
      <3>1. CASE window.tabs = <<>>
        BY <1>3, <2>2, <3>1 DEF Current
      <3>2. CASE window.tabs # <<>>
        BY <3>2 DEF LInv, RecordIsCurrent, Current
      <3> QED BY <3>1, <3>2
    <2> QED BY <1>1, <1>2, <2>5, <2>6, <2>7, <2>8, RestoreGoesOn DEF Given
  <1>4. CASE window.saved # NoRecord
    <2>1. window.saved \in RecordType
      BY <1>1 DEF Given, WindowType
    <2>2. /\ restore' \in RestoreType /\ restore'.step = "reading"
          /\ restore'.record = window.saved /\ restore'.layout = restore.layout
          /\ restore'.mapping = restore.mapping
      <3>1. restore' = [restore EXCEPT !.step = "reading", !.record = window.saved]
        BY <1>1, <1>4
      <3> QED BY <1>1, <2>1, <3>1 DEF Given, RestoreType
    <2>3. RestoreReady(restore') /\ (RestoreOrdered(restore) /\ Ordered(window) => RestoreOrdered(restore'))
      BY <2>2 DEF RestoreReady, RestoreOrdered, Ordered
    <2> QED BY <1>1, <1>2, <2>2, <2>3, RestoreGoesOn DEF Given
  <1> QED BY <1>3, <1>4

\* The layout of the window is put aside with the one of the record.
LEMMA BeginRestoreStep == ASSUME LInv, BeginRestore PROVE LInv'
  <1> DEFINE w == [window EXCEPT !.layout = <<>>, !.panes = <<>>]
             layout == IF restore.record.layout # <<>> THEN restore.record.layout
                       ELSE window.layout
  <1>1. /\ Given /\ Becomes(w) /\ UNCHANGED <<clones, counters, rare, crossed>>
        /\ restore' = [restore EXCEPT !.step = "opening", !.todo = restore.record.tabs,
                          !.before = IdsOf(window), !.record = NoRecord, !.layout = layout]
    BY WhatIsGiven DEF BeginRestore
  <1>2. <<>> \in Seq(TabIds) /\ <<>> \in Seq(EntryType) /\ IsInjective(<<>>) /\ ToSet(<<>>) = {}
    BY DEF IsInjective, ToSet
  <1>3. /\ w \in WindowType /\ w.tabs = window.tabs /\ w.layout = <<>> /\ w.saved = window.saved
        /\ w.active = window.active /\ w.maximized = window.maximized
    BY <1>1, <1>2 DEF Given, WindowType
  <1> HIDE DEF w
  <1>4. IdsOf(w) = IdsOf(window) /\ WindowOK(w) /\ (Current(window) => Current(w))
    BY <1>1, <1>3 DEF IdsOf, WindowOK, Current, Given
  <1>5. Lessens(window, w) /\ Sound(w, gone, gone)
    BY <1>1, <1>2, <1>3, <1>4 DEF Lessens, Ordered, Sound, Given
  <1>6. Moves(w) /\ Keeps(w)
    BY <1>1, <1>5, LessMoves
  <1>7. /\ restore.record \in RecordType /\ layout \in {restore.record.layout, window.layout}
        /\ layout \in Seq(TabIds) /\ restore.record.tabs \in Seq(EntryType)
        /\ NoRecord \in RecordType /\ NoRecord.layout = <<>>
    BY <1>1, <1>2 DEF Given, RestoreType, RecordType, NoRecord
  <1> HIDE DEF layout
  <1>8. /\ restore' \in RestoreType /\ restore'.step = "opening" /\ restore'.layout = layout
        /\ restore'.mapping = restore.mapping /\ restore'.record = NoRecord
    BY <1>1, <1>7 DEF Given, RestoreType
  <1>9. RestoreReady(restore') /\ (RestoreOrdered(restore) /\ Ordered(window) => RestoreOrdered(restore'))
    BY <1>2, <1>7, <1>8 DEF RestoreReady, RestoreOrdered, Ordered
  <1> QED BY <1>1, <1>6, <1>8, <1>9, RestoreGoesOn DEF Given

\* The next tab of the record.
LEMMA NextEntryFacts ==
    ASSUME LInv, NEW w, Moves(w), Keeps(w), clones' = clones, rare' = rare,
           restore.todo # <<>>, NEW given, NEW found \in IdsOf(w) \cup {None},
           NextEntry(w, given, found)
    PROVE  LInv'
  <1> DEFINE old     == Head(restore.todo).old
             mapping == restore.mapping
             more    == [x \in DOMAIN mapping \cup {old} |->
                            IF x = old THEN found ELSE mapping[x]]
             after   == IF found = None THEN mapping ELSE more
             maps    == UNION {[olds -> TabIds] : olds \in SUBSET TabIds}
  <1>1. /\ Given /\ Crosses(given, found)
        /\ restore' = [restore EXCEPT !.step = "opening", !.todo = Tail(@),
                           !.before = IdsOf(w), !.mapping = after]
    BY WhatIsGiven DEF NextEntry
  <1>2. IdsOf(w) \subseteq TabIds /\ None \notin TabIds
    BY IdsAre, NoneIsNoId DEF Moves
  <1>3. restore.todo \in Seq(EntryType) /\ mapping \in maps
    BY <1>1 DEF Given, RestoreType
  <1>4. old \in TabIds /\ Tail(restore.todo) \in Seq(EntryType)
    <2>1. Head(restore.todo) \in EntryType /\ Tail(restore.todo) \in Seq(EntryType)
      BY <1>3
    <2> QED BY <2>1 DEF EntryType
  <1>5. PICK olds \in SUBSET TabIds : mapping \in [olds -> TabIds]
    BY <1>3
  <1>6. /\ after \in maps
        /\ Range(after) \subseteq Range(mapping) \cup IdsOf(w)
        /\ Range(after) \subseteq Range(mapping) \cup {found} /\ None \notin Range(after)
        /\ IsInjective(mapping) /\ found \notin Range(mapping) => IsInjective(after)
    <2>1. CASE found = None
      <3>1. after = mapping /\ None \notin Range(mapping)
        BY <1>2, <1>5, <2>1 DEF Range
      <3>2. Range(mapping) \subseteq Range(mapping) \cup IdsOf(w)
        OBVIOUS
      <3> QED BY <1>3, <3>1, <3>2
    <2>2. CASE found # None
      <3>1. after = more /\ found \in TabIds /\ found \in IdsOf(w)
        BY <1>2, <2>2
      <3>2. more \in [olds \cup {old} -> TabIds] /\ olds \cup {old} \in SUBSET TabIds
        BY <1>4, <1>5, <3>1
      <3>3. more \in maps
        BY <3>2
      <3>4. \A x \in olds \cup {old} : more[x] = IF x = old THEN found ELSE mapping[x]
        BY <1>5
      <3> HIDE DEF more, maps, after
      <3>5. DOMAIN more = olds \cup {old} /\ DOMAIN mapping = olds
        BY <1>5, <3>2
      <3>6. Range(more) \subseteq Range(mapping) \cup {found} /\ None \notin Range(more)
        BY <1>2, <1>5, <3>1, <3>2, <3>4, <3>5 DEF Range
      <3>7. ASSUME IsInjective(mapping), found \notin Range(mapping) PROVE IsInjective(more)
        BY <3>4, <3>5, <3>7 DEF IsInjective, Range
      <3> QED BY <3>1, <3>3, <3>6, <3>7
    <2> QED BY <2>1, <2>2
  <1> HIDE DEF after, mapping
  <1>7. /\ restore' \in RestoreType /\ restore'.step = "opening"
        /\ restore'.layout = restore.layout /\ restore'.record = restore.record
        /\ restore'.mapping = after
    <2>1. IdsOf(w) \in SUBSET TabIds
      BY <1>2
    <2> HIDE DEF maps
    <2> QED BY <1>1, <1>4, <1>6, <2>1 DEF Given, RestoreType, maps
  <1>8. crossed' \in BOOLEAN /\ RestoreReady(restore')
    BY <1>1, <1>7, CrossFacts DEF RestoreReady
  <1>9. ASSUME ~crossed'
        PROVE  /\ ~crossed /\ (RestoreOrdered(restore) /\ Ordered(window) => RestoreOrdered(restore'))
               /\ \A c \in Slots : clones[c].found \notin Range(restore'.mapping)
    <2>1. ~crossed /\ (found = None \/ found \notin Taken)
      BY <1>1, <1>9, CrossFacts
    <2>2. found \notin Range(mapping) \/ found = None
      BY <2>1 DEF Taken, mapping
    <2>3. None \notin Range(mapping)
      BY <1>2, <1>5 DEF Range
    <2>4. RestoreOrdered(restore) => RestoreOrdered(restore')
      BY <1>6, <1>7, <2>2, <2>3 DEF RestoreOrdered, mapping
    <2>5. \A c \in Slots : clones[c].found \notin Range(mapping)
      BY <2>1 DEF LInv, Tidy, FoundsApart, mapping
    <2>6. \A c \in Slots : clones[c].found = found => found = None
      BY <2>1 DEF Taken
    <2>7. \A c \in Slots : clones[c].found \notin Range(after)
      BY <1>6, <2>5, <2>6
    <2> QED BY <1>7, <2>1, <2>4, <2>7
  <1>10. Range(restore'.mapping) \subseteq Range(restore.mapping) \cup IdsOf(w)
    BY <1>6, <1>7 DEF mapping
  <1> QED BY <1>7, <1>8, <1>9, <1>10, RestoreFacts

\* A step that leaves the window as it is.
LEMMA StayMoves ==
    ASSUME LInv, UNCHANGED <<window, counters, gone>>
    PROVE  Moves(window) /\ Keeps(window)
  <1>1. Given
    BY WhatIsGiven
  <1> QED BY <1>1 DEF Given, Moves, Keeps

\* A local tab of the record: its session opens, or not.
LEMMA RestoreLocalStep == ASSUME LInv, RestoreLocal PROVE LInv'
  <1>1. /\ Given /\ restore.step = "opening" /\ restore.todo # <<>> /\ clones' = clones
        /\ rare' = rare
    BY WhatIsGiven DEF RestoreLocal
  <1> DEFINE w     == Opened(window, "local")
             x     == NewId("local")
             found == NewTab(window, restore.before, "local")
  <1>2. CASE /\ Allocates("local") /\ Becomes(w) /\ Crosses(x, None)
             /\ restore' = [restore EXCEPT !.step = "syncing"]
    <2>1. "local" \in AllKinds /\ x \in TabIds /\ x # None
      <3>1. "local" \in AllKinds
        BY DEF AllKinds
      <3> QED BY <1>2, <3>1, AllocateFacts
    <2>2. OpensTo(window, x, w)
      BY <1>1, <2>1, OpenedFacts DEF Given
    <2>3. crossed' \in BOOLEAN /\ (crossed => crossed') /\ (crossed' \/ x \notin Waiting)
      BY <1>2, <2>1, CrossFacts
    <2> HIDE DEF w, x
    <2>4. Alters(Opened(window, "local"), w) /\ w.active = x /\ w.maximized = window.maximized
      BY <2>2 DEF OpensTo, WindowOK, Alters, w
    <2>5. Grows(w, x)
      BY <1>2, <2>1, <2>3, <2>4, GrowFacts DEF x
    <2>6. /\ restore' \in RestoreType /\ restore'.step = "syncing" /\ restore'.todo = restore.todo
          /\ restore'.mapping = restore.mapping /\ restore'.layout = restore.layout
          /\ restore'.record = restore.record
      BY <1>1, <1>2 DEF Given, RestoreType
    <2>7. RestoreReady(restore') /\ (RestoreOrdered(restore) => RestoreOrdered(restore'))
      BY <1>1, <2>6 DEF RestoreReady, RestoreOrdered
    <2> QED BY <1>1, <2>3, <2>5, <2>6, <2>7, RestoreGoesOn DEF Grows
  <1>3. CASE NextEntry(window, None, found) /\ UNCHANGED <<window, counters, gone>>
    <2>1. found \in IdsOf(window) \cup {None}
      BY <1>1, NewTabFacts DEF Given
    <2> QED BY <1>1, <1>3, <2>1, StayMoves, NextEntryFacts
  <1> QED BY <1>2, <1>3 DEF RestoreLocal

\* The state is synchronised after it.
LEMMA RestoredLocalStep == ASSUME LInv, RestoredLocal PROVE LInv'
  <1> DEFINE found == NewTab(window, restore.before, "local")
  <1>1. /\ Given /\ NextEntry(window, None, found) /\ restore.step = "syncing"
        /\ UNCHANGED <<window, clones, counters, rare, gone>>
    BY WhatIsGiven DEF RestoredLocal
  <1>2. restore.todo # <<>> /\ found \in IdsOf(window) \cup {None}
    BY <1>1, NewTabFacts DEF Given, RestoreReady
  <1> QED BY <1>1, <1>2, StayMoves, NextEntryFacts

\* An SSH tab of the record is passed over, or connected.
LEMMA RestoreProfileStep == ASSUME LInv, RestoreProfile PROVE LInv'
  <1>1. Given /\ restore.todo # <<>> /\ clones' = clones /\ rare' = rare
    BY WhatIsGiven DEF RestoreProfile
  <1>2. CASE NextEntry(window, None, None) /\ UNCHANGED <<window, counters, gone>>
    BY <1>1, <1>2, StayMoves, NextEntryFacts
  <1>3. ASSUME NEW opened \in BOOLEAN,
            LET w == IF opened THEN Opened(window, "profile") ELSE [window EXCEPT !.home = FALSE]
            IN  /\ IF opened THEN Allocates("profile") ELSE UNCHANGED counters
                /\ NextEntry(w, IF opened THEN NewId("profile") ELSE None,
                             NewTab(w, restore.before, "profile"))
                /\ Becomes(w)
        PROVE LInv'
    <2> DEFINE w == IF opened THEN Opened(window, "profile") ELSE [window EXCEPT !.home = FALSE]
               x == NewId("profile")
               given == IF opened THEN x ELSE None
               found == NewTab(w, restore.before, "profile")
    <2>1. /\ IF opened THEN Allocates("profile") ELSE UNCHANGED counters
          /\ NextEntry(w, given, found) /\ Becomes(w)
      BY <1>3
    <2>2. Moves(w) /\ Keeps(w)
      <3>1. CASE opened
        <4>1. /\ w = Opened(window, "profile") /\ Allocates("profile") /\ "profile" \in AllKinds
              /\ Crosses(x, found)
          BY <2>1, <3>1 DEF AllKinds, NextEntry
        <4>2. x \in TabIds /\ x # None
          BY <4>1, AllocateFacts
        <4>3. crossed' \/ x \notin Waiting
          BY <4>1, <4>2, CrossFacts
        <4> HIDE DEF w, x
        <4>4. OpensTo(window, x, w)
          BY <1>1, <4>1, <4>2, OpenedFacts DEF Given, x
        <4>5. /\ Alters(Opened(window, "profile"), w) /\ w.active = x
              /\ w.maximized = window.maximized
          BY <4>1, <4>4 DEF OpensTo, WindowOK, Alters
        <4>6. Grows(w, x)
          BY <2>1, <4>1, <4>2, <4>3, <4>5, GrowFacts DEF x
        <4> QED BY <4>6 DEF Grows
      <3>2. CASE ~opened
        <4>1. w = [window EXCEPT !.home = FALSE] /\ counters' = counters
          BY <2>1, <3>2
        <4> HIDE DEF w
        <4>2. Alters(window, w) /\ w.active = window.active /\ w.maximized = window.maximized
          BY <1>1, <4>1 DEF Given, WindowType, Alters
        <4> QED BY <1>1, <2>1, <4>1, <4>2, AlterMoves DEF Given, Sound, Known
      <3> QED BY <3>1, <3>2
    <2>3. found \in IdsOf(w) \cup {None}
      <3> HIDE DEF w
      <3> QED BY <2>2, NewTabFacts DEF Moves
    <2> HIDE DEF w, x, given, found
    <2> QED BY <1>1, <2>1, <2>2, <2>3, NextEntryFacts
  <1> QED BY <1>2, <1>3 DEF RestoreProfile

\* The layout is made of the tabs that were found; no clone waits for one of them.
LEMMA EndRestoreStep == ASSUME LInv, EndRestore PROVE LInv'
  <1> DEFINE layout == Remap(restore.layout, restore.mapping)
             v == [window EXCEPT !.layout = layout]
             m == IF v.layout = <<>> THEN v ELSE Sync(v)
             w == Persist(m)
  <1>1. /\ Given /\ Becomes(w) /\ restore' = NoRestore /\ UNCHANGED <<clones, counters, rare, crossed>>
    BY WhatIsGiven DEF EndRestore
  <1>2. restore.layout \in Seq(TabIds)
    BY <1>1 DEF Given, RestoreType
  <1>3. PICK olds \in SUBSET TabIds : restore.mapping \in [olds -> TabIds]
    BY <1>1 DEF Given, RestoreType
  <1>4. /\ layout \in Seq(TabIds) /\ ToSet(layout) \subseteq Range(restore.mapping)
        /\ IsInjective(restore.layout) /\ IsInjective(restore.mapping) => IsInjective(layout)
    BY <1>2, <1>3, RemapFacts
  <1> HIDE DEF layout
  <1>5. /\ v \in WindowType /\ v.tabs = window.tabs /\ v.layout = layout /\ v.active = window.active
        /\ v.maximized = window.maximized
    BY <1>1, <1>4 DEF Given, WindowType
  <1>6. IdsOf(v) = IdsOf(window)
    BY <1>5 DEF IdsOf
  <1> HIDE DEF v
  <1>7. /\ m \in WindowType /\ m.tabs = window.tabs /\ m.layout = layout
        /\ m.active = window.active /\ m.maximized = window.maximized
        /\ ToSet(layout) \cap IdsOf(window) \subseteq ToSet(m.panes)
    <2>1. CASE layout = <<>>
      <3>1. m = v /\ ToSet(layout) = {}
        BY <1>5, <2>1 DEF ToSet
      <3> QED BY <1>5, <3>1
    <2>2. CASE layout # <<>>
      <3> DEFINE panes == LayoutPanes(v)
      <3>1. m = [v EXCEPT !.panes = panes]
        BY <1>5, <2>2 DEF Sync
      <3>2. panes \in Seq(TabIds) /\ ToSet(panes) = ToSet(layout) \cap IdsOf(window)
        BY <1>4, <1>5, <1>6, OnlyFacts DEF LayoutPanes
      <3> HIDE DEF panes, m
      <3> QED BY <1>5, <3>1, <3>2 DEF WindowType
    <2> QED BY <2>1, <2>2
  <1> HIDE DEF m
  <1>8. PersistsTo(m, w)
    BY <1>7, PersistFacts
  <1> HIDE DEF w
  <1>9. /\ w \in WindowType /\ w.tabs = window.tabs /\ w.layout = layout
        /\ w.active = window.active /\ w.maximized = window.maximized /\ w.panes = m.panes
        /\ w.saved.layout \in {layout, <<>>} /\ Current(w)
    BY <1>7, <1>8 DEF PersistsTo
  <1>10. WindowOK(w) /\ IdsOf(w) = IdsOf(window)
    BY <1>1, <1>9 DEF WindowOK, IdsOf, Given
  <1>11. gone' = gone
    BY <1>1, <1>10 DEF Becomes, Changes
  <1>12. Range(restore.mapping) \subseteq IdsOf(window) \cup gone
    <2>1. Range(restore.mapping) \subseteq Known
      BY DEF LInv, HeldKnown
    <2>2. None \notin Range(restore.mapping)
      <3>1. Range(restore.mapping) \subseteq TabIds
        BY <1>3 DEF Range
      <3> QED BY <3>1, NoneIsNoId
    <2> QED BY <2>1, <2>2 DEF Known
  <1>13. Sound(w, gone, gone)
    <2>1. ToSet(w.layout) \subseteq IdsOf(w) \cup gone
      BY <1>4, <1>9, <1>10, <1>12
    <2>2. ToSet(w.layout) \cap IdsOf(w) \subseteq ToSet(w.panes)
      BY <1>7, <1>9, <1>10
    <2> QED BY <1>1, <1>9, <1>10, <2>1, <2>2 DEF Sound, Given
  <1>14. Moves(w)
    BY <1>1, <1>10, <1>11, <1>13 DEF Moves, Becomes, Changes, Given
  <1>15. <<>> \in Seq(TabIds) /\ <<>> \in Seq(EntryType) /\ IsInjective(<<>>)
    BY DEF IsInjective
  <1>16. NoRecord \in RecordType /\ NoRecord.layout = <<>>
    BY <1>15 DEF NoRecord, RecordType
  <1>17. <<>> \in UNION {[domain -> TabIds] : domain \in SUBSET TabIds}
    <2>1. <<>> \in [{} -> TabIds] /\ {} \subseteq TabIds
      OBVIOUS
    <2> QED BY <2>1
  <1> DEFINE maps == UNION {[domain -> TabIds] : domain \in SUBSET TabIds}
  <1> HIDE DEF maps
  <1>18. /\ restore' \in RestoreType /\ restore'.step = "idle" /\ restore'.mapping = <<>>
         /\ restore'.layout = <<>> /\ restore'.record = NoRecord
    BY <1>1, <1>15, <1>16, <1>17 DEF NoRestore, RestoreType, maps
  <1>19. Range(restore'.mapping) = {} /\ RestoreReady(restore') /\ RestoreOrdered(restore')
    BY <1>15, <1>16, <1>18 DEF Range, RestoreReady, RestoreOrdered
  <1>20. ASSUME ~crossed
         PROVE  /\ Ordered(w) /\ FoundsApart(clones, restore'.mapping)
                /\ Aged(clones, w.layout, IdsOf(w))
    <2>1. /\ RestoreOrdered(restore) /\ FoundsApart(clones, restore.mapping)
          /\ Aged(clones, window.layout, IdsOf(window))
      BY <1>20 DEF LInv, Tidy
    <2>2. Ordered(w)
      BY <1>4, <1>9, <1>15, <2>1 DEF Ordered, RestoreOrdered
    <2>3. \A c \in Slots : clones[c].found \notin ToSet(w.layout)
      BY <1>4, <1>9, <2>1 DEF FoundsApart
    <2>4. FoundsApart(clones, restore'.mapping)
      BY <1>19, <2>1 DEF FoundsApart
    <2>5. PICK older : /\ Order(older)
                       /\ \A c \in Slots : Younger(older, clones[c], window.layout, IdsOf(window))
      BY <2>1 DEF Aged
    <2>6. \A c \in Slots : Younger(older, clones[c], w.layout, IdsOf(w))
      BY <1>10, <2>3, <2>5 DEF Younger
    <2> QED BY <2>2, <2>4, <2>5, <2>6 DEF Aged
  <1>21. Follows(w)
    BY <1>1, <1>9, <1>14, <1>18, <1>19, <1>20 DEF Follows, Given
  <1> QED BY <1>21, StepFacts

---------------------------------------------------------------------------
(* The theorems.                                                            *)

\* The invariant holds at the beginning, is kept by every step, and so always holds.
LEMMA LayoutInitOK == LayoutInit => LInv
  <1> SUFFICES ASSUME LayoutInit PROVE LInv
    OBVIOUS
  <1>1. /\ window = NewWindow(NoRecord) /\ clones = [c \in Slots |-> NoClone]
        /\ restore = NoRestore /\ counters = [family \in {"local", "ssh"} |-> 1]
        /\ rare = 0 /\ gone = {} /\ crossed = FALSE
    BY DEF LayoutInit
  <1>2. <<>> \in Seq(TabIds) /\ <<>> \in Seq(TabType) /\ <<>> \in Seq(EntryType)
    OBVIOUS
  <1>3. NoRecord \in RecordType /\ NoRecord.layout = <<>> /\ NoRecord.tabs = <<>>
    BY <1>2 DEF NoRecord, RecordType
  <1>4. /\ window \in WindowType /\ window.tabs = <<>> /\ window.layout = <<>>
        /\ window.panes = <<>> /\ window.maximized = None /\ window.active = None
        /\ window.saved = NoRecord
    BY <1>1, <1>2, <1>3 DEF NewWindow, WindowType, MaybeId
  <1>5. NoClone \in CloneType /\ NoClone.found = None /\ NoClone.step = "idle"
    BY DEF NoClone, CloneType, MaybeId
  <1>6. <<>> \in UNION {[olds -> TabIds] : olds \in SUBSET TabIds}
    <2>1. <<>> \in [{} -> TabIds] /\ {} \subseteq TabIds
      OBVIOUS
    <2> QED BY <2>1
  <1> DEFINE maps == UNION {[olds -> TabIds] : olds \in SUBSET TabIds}
  <1> HIDE DEF maps
  <1>7. /\ restore \in RestoreType /\ restore.step = "idle" /\ restore.layout = <<>>
        /\ restore.record = NoRecord /\ restore.mapping = <<>>
    BY <1>1, <1>2, <1>3, <1>6 DEF NoRestore, RestoreType, maps
  <1>8. LayoutTypeOK
    <2>1. counters \in [{"local", "ssh"} -> 1..(MaxId + 1)] /\ rare \in 0..MaxRare
      BY <1>1, BoundsAssumption
    <2>2. clones \in [Slots -> CloneType]
      BY <1>1, <1>5
    <2> QED BY <1>1, <1>4, <1>7, <2>1, <2>2 DEF LayoutTypeOK
  <1>9. IdsOf(window) = {} /\ ToSet(window.layout) = {} /\ Range(restore.mapping) = {}
    BY <1>4, <1>7 DEF IdsOf, ToSet, Range
  <1>10. Sound(window, gone, gone) /\ RestoreReady(restore)
    BY <1>1, <1>4, <1>7, <1>9 DEF Sound, RestoreReady
  <1>11. HeldKnown /\ ClonesReady
    <2>1. \A c \in Slots : clones[c] = NoClone
      BY <1>1
    <2>2. CloneReady(NoClone) /\ CloneKnown(NoClone, Known)
      BY DEF CloneReady, CloneKnown, NoClone, Known
    <2> QED BY <1>9, <2>1, <2>2 DEF HeldKnown, ClonesReady
  <1>12. Tidy
    <2>1. IsInjective(<<>>)
      BY DEF IsInjective
    <2>2. \A c \in Slots : clones[c].found = None /\ clones[c].step = "idle"
      BY <1>1, <1>5
    <2>3. FoundsApart(clones, restore.mapping)
      BY <1>9, <2>2 DEF FoundsApart
    <2>4. Aged(clones, window.layout, IdsOf(window))
      BY <1>4, <2>2, NobodyIsOld
    <2> QED BY <1>3, <1>4, <1>7, <2>1, <2>3, <2>4 DEF Tidy, Ordered, RestoreOrdered
  <1>13. RecordIsCurrent
    BY <1>3, <1>4 DEF RecordIsCurrent
  <1> QED BY <1>8, <1>10, <1>11, <1>12, <1>13 DEF LInv

\* Every action by its lemma.
LEMMA LayoutNextOK == LInv /\ [LayoutNext]_layoutVars => LInv'
  <1> SUFFICES ASSUME LInv, [LayoutNext]_layoutVars PROVE LInv'
    OBVIOUS
  <1>1. ASSUME NEW kind \in Kinds, OpenTab(kind) PROVE LInv'
    BY <1>1, OpenTabStep
  <1>2. ASSUME NEW home \in BOOLEAN, ShowHome(home) PROVE LInv'
    BY <1>2, ShowHomeStep
  <1>3. ASSUME NEW back \in BOOLEAN, Navigate(back) PROVE LInv'
    BY <1>3, NavigateStep
  <1>4. ASSUME NEW id \in TabIds, Click(id) \/ Close(id) \/ Exits(id) PROVE LInv'
    BY <1>4, ClickStep, CloseStep
  <1>5. ASSUME NEW i \in DOMAIN window.tabs,
               Reconnect(i) \/ \E old \in TabIds : LateAnswer(i, old)
        PROVE  LInv'
    BY <1>5, ReconnectStep, LateAnswerStep
  <1>6. CASE Maximize \/ CancelSplit \/ RuntimeRestarts
    BY <1>6, MaximizeStep, CancelSplitStep, RuntimeRestartsStep
  <1>7. ASSUME NEW c \in Slots, NEW id \in TabIds, NEW split \in BOOLEAN, Clone(c, id, split)
        PROVE  LInv'
    BY <1>7, CloneStep
  <1>8. ASSUME NEW c \in Slots,
               CloneOpensLocal(c) \/ CloneFails(c) \/ CloneConnected(c) \/ CloneEnds(c)
        PROVE  LInv'
    BY <1>8, CloneOpensLocalStep, CloneFailsStep, CloneConnectedStep, CloneEndsStep
  <1>9. CASE RestartWindow \/ ReadRecord \/ BeginRestore
    BY <1>9, RestartStep, ReadRecordStep, BeginRestoreStep
  <1>10. CASE RestoreLocal \/ RestoredLocal \/ RestoreProfile \/ EndRestore
    BY <1>10, RestoreLocalStep, RestoredLocalStep, RestoreProfileStep, EndRestoreStep
  <1>11. CASE UNCHANGED layoutVars
    <2>1. UNCHANGED <<window, clones, restore, counters, rare, gone, crossed>>
      BY <1>11 DEF layoutVars
    <2> QED BY <2>1, WhatIsGiven, StayMoves, QuietFacts DEF Given
  <1> QED BY <1>1, <1>2, <1>3, <1>4, <1>5, <1>6, <1>7, <1>8, <1>9, <1>10, <1>11 DEF LayoutNext

\* So the invariant always holds.
LEMMA LayoutInvariant == LayoutSpec => []LInv
  BY LayoutInitOK, LayoutNextOK, PTL DEF LayoutSpec

\* Every variable has its type, whatever restarts and answers too late.
THEOREM LayoutTypeCorrect == LayoutSpec => []LayoutTypeOK
  <1>1. LInv => LayoutTypeOK
    BY DEF LInv
  <1> QED BY <1>1, LayoutInvariant, PTL

\* The panes are tabs and no session has two, but for the exceptions the property names.
THEOREM PanesAlwaysTabs == LayoutSpec => []PanesAreTabs
  <1>1. LInv => PanesAreTabs
    BY DEF LInv, PanesAreTabs, Sound, Tidy, Ordered
  <1> QED BY <1>1, LayoutInvariant, PTL

\* A terminal is on the screen as long as there is a tab.
THEOREM SomethingAlwaysShown == LayoutSpec => []SomethingIsShown
  <1>1. LInv => SomethingIsShown
    <2> SUFFICES ASSUME LInv, window.tabs # <<>>
                 PROVE  Visible(window) \cap IdsOf(window) # {} \/ Visible(window) \subseteq gone
      BY DEF SomethingIsShown
    <2>1. Given
      BY WhatIsGiven
    <2>2. CASE window.maximized # None
      BY <2>1, <2>2 DEF Given, Sound, Visible
    <2>3. CASE window.maximized = None /\ HasSplit(window)
      <3> DEFINE panes == LayoutPanes(window)
      <3>1. panes \in Seq(TabIds) /\ ToSet(panes) = ToSet(window.layout) \cap IdsOf(window)
        BY <2>1, OnlyFacts DEF LayoutPanes, Given
      <3>2. Len(panes) > 1 /\ Visible(window) = ToSet(panes)
        BY <2>3 DEF HasSplit, Visible
      <3> HIDE DEF panes
      <3>3. panes[1] \in ToSet(panes)
        BY <3>1, <3>2 DEF ToSet
      <3> QED BY <3>1, <3>2, <3>3
    <2>4. CASE window.maximized = None /\ ~HasSplit(window)
      BY <2>1, <2>4 DEF Given, Sound, Visible
    <2> QED BY <2>2, <2>3, <2>4
  <1> QED BY <1>1, LayoutInvariant, PTL

\* The stored record is that of the tabs that are open, until a restore has opened one.
THEOREM RecordAlwaysCurrent == LayoutSpec => []RecordIsCurrent
  <1>1. LInv => RecordIsCurrent
    BY DEF LInv
  <1> QED BY <1>1, LayoutInvariant, PTL
=============================================================================
