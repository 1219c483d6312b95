-------------------------- MODULE AutocompleteProofs --------------------------
(* Proofs about Autocomplete, for any chunks of input, settings and bounds: its  *)
(* type invariant, that secrets stay local, that the panel is that of the        *)
(* newest fetch, and that predictions follow the last command.                   *)
EXTENDS Autocomplete, SequenceTheorems, WellFoundedInduction, TLAPS

\* Nothing that is typed while a secret is asked for gets into a line, so that no line,
\* and nothing read from the screen, has one in it.
Clear == UNION {[1..n -> {"c"}] : n \in 0..MaxLine}
PrefetchType == [step: {"idle", "context", "ai"}, of: Commands, current: BOOLEAN]
ClearFetch == [step: Steps, kind: Kinds, partial: Clear, editor: BOOLEAN, ai: BOOLEAN,
               found: BOOLEAN, current: BOOLEAN]

\* The fetches, each started with a text that is long enough.
Table(fs) ==
    /\ fs \in [Slots -> ClearFetch]
    /\ \A f \in Slots : fs[f] # Idle => Len(fs[f].partial) >= MinLength

TypeInv ==
    /\ editor \in BOOLEAN /\ matched \in BOOLEAN /\ latched \in BOOLEAN /\ wasSensitive \in BOOLEAN
    /\ shown \in BOOLEAN /\ aiLoading \in BOOLEAN /\ fits \in BOOLEAN /\ armed \in BOOLEAN
    /\ booted \in BOOLEAN /\ completed \in BOOLEAN
    /\ asking \in {"no", "asked", "answering", "missed"}
    /\ line \in Clear /\ lastPartial \in Clear
    /\ Table(fetches)
    /\ pending \in Commands /\ predicted \in Commands /\ prefetch \in PrefetchType
    /\ accepting \in {"none", "insert", "execute"}
    /\ kept \subseteq {"c"} /\ keys \in 0..MaxKeys

\* Once a key of the answer has found the prompt among the lines looked at, the input is latched.
PromptIsKnown == asking = "answering" => latched

\* One fetch counts, it is past the bootstrap, and it is the one the panel was reset for.
OneIsCurrent ==
    /\ \A f, g \in Slots : fetches[f].current /\ fetches[g].current => f = g
    /\ \A f \in Slots : fetches[f].current =>
          /\ fetches[f].step \in {"remote", "context", "ai", "aborted"}
          /\ fetches[f].partial = lastPartial

\* What may still be offered was asked for after the last command.
PredictionsAreNew ==
    /\ pending # "older" /\ predicted # "older"
    /\ prefetch.current => prefetch.of # "older"

IInv == TypeInv /\ PromptIsKnown /\ OneIsCurrent /\ PanelIsOfNewestFetch /\ PredictionsAreNew

---------------------------------------------------------------------------
(* The characters of one event.                                             *)

\* Numbers are well-founded: a set of them has a least one.
LEMMA LeastIsThere ==
    ASSUME NEW S, S \subseteq Nat, S # {}
    PROVE  \E x \in S : \A y \in S : x <= y
<1> DEFINE R == {ss \in Nat \X Nat : ss[1] < ss[2]}
<1>1. IsWellFoundedOn(R, Nat)
  BY NatLessThanWellFounded DEF OpToRel
<1>2. PICK x \in S : \A y \in S : <<y, x>> \notin R
  BY <1>1, WFMin, Zenon
<1>3. \A y \in S : x \in Nat /\ y \in Nat /\ ~ (y < x)
  <2> SUFFICES ASSUME NEW y \in S PROVE x \in Nat /\ y \in Nat /\ ~ (y < x)
    OBVIOUS
  <2>1. x \in Nat /\ y \in Nat /\ <<y, x>> \in Nat \X Nat
    OBVIOUS
  <2> QED
    BY <1>2, <2>1
<1> QED
  BY <1>3

\* The states of the loop over chunk, up to its n-th character.
LoopTo(chunk, n, st) ==
    st = [i \in 0..n |-> IF i = 0 THEN Start ELSE Typed(st[i - 1], chunk[i])]

\* The loop has a result: no prefix of the chunk is the first without one.
LEMMA LoopEnds ==
    ASSUME NEW chunk \in Seq({"char", "backspace", "enter"})
    PROVE  \E st : LoopTo(chunk, Len(chunk), st) /\ AllTyped(chunk) = st[Len(chunk)]
<1> DEFINE Bad == {n \in 0..Len(chunk) : ~ \E st : LoopTo(chunk, n, st)}
<1>1. Bad = {}
  <2> SUFFICES ASSUME Bad # {} PROVE FALSE
    OBVIOUS
  <2>a. Bad \subseteq Nat
    OBVIOUS
  <2>1. PICK n \in Bad : \A m \in Bad : n <= m
    BY <2>a, LeastIsThere
  <2>2. n # 0
    <3> DEFINE st == [i \in 0..0 |-> Start]
    <3>1. \A i \in 0..0 : i = 0
      OBVIOUS
    <3>2. st = [i \in 0..0 |-> IF i = 0 THEN Start ELSE Typed(st[i - 1], chunk[i])]
      BY <3>1
    <3>3. LoopTo(chunk, 0, st)
      BY <3>2 DEF LoopTo
    <3> HIDE DEF st
    <3> QED
      BY <3>3
  <2>3. n \in Nat /\ n - 1 \in 0..Len(chunk) /\ ~(n <= n - 1)
    BY <2>2
  <2>4. PICK st : LoopTo(chunk, n - 1, st)
    BY <2>1, <2>3
  <2> DEFINE longer == [i \in 0..n |-> IF i = n THEN Typed(st[n - 1], chunk[n]) ELSE st[i]]
  <2>5. \A i \in 0..n : longer[i] = IF i = 0 THEN Start ELSE Typed(longer[i - 1], chunk[i])
    <3> SUFFICES ASSUME NEW i \in 0..n
                 PROVE  longer[i] = IF i = 0 THEN Start ELSE Typed(longer[i - 1], chunk[i])
      OBVIOUS
    <3>1. i # 0 => longer[i - 1] = st[i - 1]
      BY <2>3
    <3>2. CASE i = n
      BY <2>2, <3>1, <3>2
    <3>3. CASE i # n
      <4>1. i \in 0..(n - 1) /\ longer[i] = st[i]
        BY <2>3, <3>3
      <4>2. st[i] = IF i = 0 THEN Start ELSE Typed(st[i - 1], chunk[i])
        BY <2>4, <4>1 DEF LoopTo
      <4> QED
        BY <3>1, <4>1, <4>2
    <3> QED
      BY <3>2, <3>3
  <2>6. longer = [i \in 0..n |-> IF i = 0 THEN Start ELSE Typed(longer[i - 1], chunk[i])]
    BY <2>5
  <2>7. LoopTo(chunk, n, longer)
    BY <2>6 DEF LoopTo
  <2> HIDE DEF longer
  <2> QED
    BY <2>1, <2>7
<1>2. Len(chunk) \in 0..Len(chunk)
  OBVIOUS
<1>3. \E st : LoopTo(chunk, Len(chunk), st)
  BY <1>1, <1>2
<1> DEFINE st == CHOOSE st : LoopTo(chunk, Len(chunk), st)
<1>4. LoopTo(chunk, Len(chunk), st)
  BY <1>3
<1>5. AllTyped(chunk) = st[Len(chunk)]
  BY Zenon DEF AllTyped, LoopTo
<1> HIDE DEF st
<1> QED
  BY <1>4, <1>5

LoopType == [line: Seq({"c"}), sensitive: BOOLEAN, was: BOOLEAN, latched: BOOLEAN,
             kept: SUBSET {"c"}, entered: BOOLEAN, submitted: BOOLEAN]
\* What the loop keeps to: while a secret is typed it leaves the line empty and latches.
InLoop(st) == st \in LoopType /\ st.sensitive = Sensitive /\ (Sensitive => st.latched \/ st.entered)

\* Lines without secrets: all that are short enough, and what a screen shows.
LEMMA ClearLine ==
    /\ Clear \subseteq Seq({"c"})
    /\ \A s \in Seq({"c"}) : Len(s) <= MaxLine => s \in Clear
    /\ << >> \in Clear /\ <<"c">> \in Clear /\ Screen \subseteq Clear
<1>1. Clear \subseteq Seq({"c"})
  BY SeqDef DEF Clear
<1>2. ASSUME NEW s \in Seq({"c"}), Len(s) <= MaxLine PROVE s \in Clear
  <2>1. Len(s) \in 0..MaxLine /\ s \in [1..Len(s) -> {"c"}]
    BY <1>2, LengthAssumption
  <2> QED
    BY <2>1 DEF Clear
<1>3. << >> \in Seq({"c"}) /\ Len(<< >>) = 0 /\ <<"c">> \in Seq({"c"}) /\ Len(<<"c">>) = 1
  OBVIOUS
<1>4. 0 <= MaxLine /\ 1 <= MaxLine
  BY LengthAssumption
<1> QED
  BY <1>1, <1>2, <1>3, <1>4 DEF Screen

\* The loop of handleInput keeps to InLoop: before the first character,
LEMMA StartInLoop ==
    ASSUME TypeInv
    PROVE  InLoop(Start)
  BY ClearLine DEF InLoop, LoopType, Start, TypeInv, Sensitive

\* with each of them,
LEMMA TypedInLoop ==
    ASSUME TypeInv, PromptIsKnown, NEW st, InLoop(st), NEW char \in {"char", "backspace", "enter"}
    PROVE  InLoop(Typed(st, char))
<1>1. st.line \in Seq({"c"}) /\ ToSet(st.line) \subseteq {"c"}
  BY DEF InLoop, LoopType, ToSet
<1>2. CASE char = "enter"
  BY <1>1, <1>2, ClearLine DEF InLoop, LoopType, Typed
<1>3. CASE char = "backspace"
  <2>1. st.line # << >> => Front(st.line) \in Seq({"c"})
    BY <1>1 DEF Front
  <2> QED
    BY <1>1, <1>3, <2>1 DEF InLoop, LoopType, Typed
<1>4. CASE char = "char"
  <2>1. CASE st.sensitive
    BY <1>4, <2>1 DEF Typed
  <2>2. CASE ~st.sensitive
    <3>1. Answering(st.entered) # "answering"
      BY <2>2 DEF InLoop, PromptIsKnown, Sensitive, Answering
    <3>2. Typed(st, char) = [st EXCEPT !.line = Append(@, "c")]
      BY <1>4, <2>2, <3>1 DEF Typed
    <3>3. Append(st.line, "c") \in Seq({"c"})
      BY <1>1, AppendProperties
    <3> QED
      BY <3>2, <3>3 DEF InLoop, LoopType
  <2> QED
    BY <2>1, <2>2
<1> QED
  BY <1>2, <1>3, <1>4

\* and so for a whole event.
LEMMA AllTypedInLoop ==
    ASSUME TypeInv, PromptIsKnown, NEW chunk \in Chunks
    PROVE  InLoop(AllTyped(chunk))
<1>1. chunk \in Seq({"char", "backspace", "enter"})
  BY LengthAssumption
<1>2. PICK st : LoopTo(chunk, Len(chunk), st) /\ AllTyped(chunk) = st[Len(chunk)]
  BY <1>1, LoopEnds
<1> DEFINE Bad == {n \in 0..Len(chunk) : ~InLoop(st[n])}
<1>3. Bad = {}
  <2> SUFFICES ASSUME Bad # {} PROVE FALSE
    OBVIOUS
  <2>1. Bad \subseteq Nat
    OBVIOUS
  <2>2. PICK n \in Bad : \A m \in Bad : n <= m
    BY <2>1, LeastIsThere
  <2>3. \A i \in 0..Len(chunk) : st[i] = IF i = 0 THEN Start ELSE Typed(st[i - 1], chunk[i])
    BY <1>2 DEF LoopTo
  <2>4. n # 0
    BY <2>3, StartInLoop
  <2>5. n \in Nat /\ n - 1 \in 0..Len(chunk) /\ ~(n <= n - 1) /\ n \in 1..Len(chunk)
    BY <1>1, <2>4
  <2>6. InLoop(st[n - 1])
    BY <2>2, <2>5
  <2>7. chunk[n] \in {"char", "backspace", "enter"}
    BY <1>1, <2>5
  <2>8. InLoop(Typed(st[n - 1], chunk[n]))
    BY <2>6, <2>7, TypedInLoop
  <2> QED
    BY <2>2, <2>3, <2>4, <2>8
<1>4. Len(chunk) \in 0..Len(chunk)
  BY <1>1
<1> QED
  BY <1>2, <1>3, <1>4

---------------------------------------------------------------------------
(* Types.                                                                   *)

\* A place without a fetch, and no prefetch, have the types of one.
LEMMA IdleType == Idle \in ClearFetch /\ NoPrefetch \in PrefetchType
  BY ClearLine DEF Idle, ClearFetch, Steps, Kinds, NoPrefetch, PrefetchType, Commands

\* A superseded fetch stays what it is, but is not the newest.
LEMMA DroppedTable ==
    ASSUME NEW fs, Table(fs)
    PROVE  /\ Table(Dropped(fs))
           /\ \A f \in Slots : ~Dropped(fs)[f].current
<1>1. ASSUME NEW f \in Slots
      PROVE  /\ Dropped(fs)[f] \in ClearFetch
             /\ Dropped(fs)[f] # Idle => fs[f] # Idle /\ Dropped(fs)[f].partial = fs[f].partial
             /\ ~Dropped(fs)[f].current
  <2>1. fs[f] \in ClearFetch
    BY DEF Table
  <2> QED
    BY <2>1, IdleType DEF Dropped, Idle, ClearFetch
<1>2. Dropped(fs) \in [Slots -> ClearFetch]
  BY <1>1 DEF Dropped
<1> QED
  BY <1>1, <1>2 DEF Table

\* One fetch moves on with its text, or is over.
LEMMA MovedTable ==
    ASSUME NEW fs, Table(fs), NEW f \in Slots, NEW fetch \in ClearFetch,
           fetch = Idle \/ (fs[f] # Idle /\ fetch.partial = fs[f].partial)
    PROVE  Table([fs EXCEPT ![f] = fetch])
  BY DEF Table

\* The lemmas up to InsertedType: what the helpers of the controller leave has its type.
LEMMA UnrequestedType == prefetch \in PrefetchType => Unrequested \in PrefetchType
  BY IdleType DEF Unrequested

LEMMA HideType ==
    ASSUME TypeInv, Hide
    PROVE  shown' \in BOOLEAN /\ aiLoading' \in BOOLEAN /\ fits' \in BOOLEAN /\ Table(fetches')
  BY DroppedTable DEF Hide, TypeInv

LEMMA StartNextType ==
    ASSUME TypeInv, NEW submitted, StartNext(submitted)
    PROVE  pending' \in Commands /\ predicted' \in Commands /\ prefetch' \in PrefetchType
<1>1. Unrequested \in PrefetchType
  BY UnrequestedType DEF TypeInv
<1> QED
  BY <1>1, IdleType DEF StartNext, Commands, PrefetchType

LEMMA FetchesType ==
    ASSUME TypeInv, NEW fs, Table(fs), NEW kind \in Kinds, NEW open \in BOOLEAN,
           line' \in Clear, completed' \in BOOLEAN, Fetches(fs, kind, open)
    PROVE  /\ shown' \in BOOLEAN /\ aiLoading' \in BOOLEAN /\ fits' \in BOOLEAN
           /\ lastPartial' \in Clear /\ Table(fetches')
<1>1. CASE FetchRefused(fs)
  BY <1>1, ClearLine, DroppedTable DEF FetchRefused, TypeInv
<1>2. ASSUME NEW partial \in Partials(line'), ~(Len(partial) < MinLength),
             FetchBegins(fs, kind, partial, open)
      PROVE  /\ shown' \in BOOLEAN /\ aiLoading' \in BOOLEAN /\ fits' \in BOOLEAN
             /\ lastPartial' \in Clear /\ Table(fetches')
  <2>1. partial \in Clear /\ Len(partial) >= MinLength
    <3>1. partial \in Clear
      BY <1>2, ClearLine DEF Partials
    <3>2. Len(partial) \in Nat /\ MinLength \in Nat
      BY <3>1, ClearLine, LengthAssumption
    <3> QED
      BY <1>2, <3>1, <3>2
  <2> PICK f \in Slots, step \in {"agent", "yes", "no"} :
        /\ fs[f] = Idle
        /\ fetches' = [fs EXCEPT ![f] =
              [Idle EXCEPT !.step = step, !.kind = kind, !.partial = partial,
                           !.editor = editor, !.ai = AI /\ (editor \/ completed')]]
    BY <1>2 DEF FetchBegins
  <2> DEFINE fetch == [Idle EXCEPT !.step = step, !.kind = kind, !.partial = partial,
                           !.editor = editor, !.ai = AI /\ (editor \/ completed')]
  <2>2. fetch \in ClearFetch /\ fetch.partial = partial
    <3>1. (AI /\ (editor \/ completed')) \in BOOLEAN /\ editor \in BOOLEAN
      BY DEF TypeInv
    <3> QED
      BY <2>1, <3>1 DEF Idle, ClearFetch, Steps
  <2>3. Table(fetches')
    BY <2>1, <2>2 DEF Table
  <2> QED
    BY <1>2, <2>3 DEF FetchBegins, TypeInv
<1> QED
  BY <1>1, <1>2 DEF Fetches

LEMMA ListsType ==
    ASSUME TypeInv, NEW f \in Slots, NEW fs, Table(fs), NEW fetch \in ClearFetch,
           fs[f] # Idle, fetch.partial = fs[f].partial, Lists(f, fs, fetch)
    PROVE  shown' \in BOOLEAN /\ aiLoading' \in BOOLEAN /\ fits' \in BOOLEAN /\ Table(fetches')
<1>1. PICK match \in BOOLEAN, other \in BOOLEAN :
        LET found == match \/ other
            asks  == /\ fetch.kind # "typed" /\ fetch.ai
                     /\ fetch.kind = "forced" \/ fetch.editor \/ ~match
        IN  /\ shown' = (found \/ asks) /\ aiLoading' = asks
            /\ fits' = (fetch.partial = lastPartial')
            /\ fetches' = [fs EXCEPT ![f] =
                 IF asks THEN [fetch EXCEPT !.step = "context", !.found = found] ELSE Idle]
  BY DEF Lists
<1> DEFINE next == [fetch EXCEPT !.step = "context", !.found = match \/ other]
<1>2. next \in ClearFetch /\ next.partial = fetch.partial
  BY DEF ClearFetch, Steps
<1>3. Table([fs EXCEPT ![f] = next]) /\ Table([fs EXCEPT ![f] = Idle])
  BY <1>2, IdleType, MovedTable
<1>4. (fetch.kind # "typed" /\ fetch.ai /\ (fetch.kind = "forced" \/ fetch.editor \/ ~match)) \in BOOLEAN
  BY DEF ClearFetch
<1> HIDE DEF next
<1>5. fetches' = [fs EXCEPT ![f] = next] \/ fetches' = [fs EXCEPT ![f] = Idle]
  BY <1>1 DEF next
<1> QED
  BY <1>1, <1>3, <1>4, <1>5

\* What fetchAutocomplete does after an await.
LEMMA FetchStepsType ==
    ASSUME TypeInv, NEW f \in Slots, FetchSteps(f)
    PROVE  TypeInv'
<1>1. Table(fetches) /\ fetches[f] \in ClearFetch
  BY DEF TypeInv, Table
<1>2. ASSUME NEW fetch \in ClearFetch, fetches[f] # Idle, fetch.partial = fetches[f].partial
      PROVE  Table([fetches EXCEPT ![f] = fetch])
  BY <1>1, <1>2, MovedTable
<1>3. Table([fetches EXCEPT ![f] = Idle])
  BY <1>1, IdleType, MovedTable
<1>4. fetches[f].step # "idle" => fetches[f] # Idle
  BY DEF Idle
<1>5. CASE AgentActive(f)
  <2>1. Table([Dropped(fetches) EXCEPT ![f] = Idle])
    BY <1>1, DroppedTable, IdleType, MovedTable
  <2> QED
    BY ZenonT(40), <1>5, <2>1, ClearLine, UnrequestedType
    DEF AgentActive, TypeInv, Shell, Line, Commands
<1>6. CASE NoAgent(f)
  <2>1. [fetches[f] EXCEPT !.step = "boot"] \in ClearFetch
    BY <1>1 DEF ClearFetch, Steps
  <2>2. Table([fetches EXCEPT ![f] = [fetches[f] EXCEPT !.step = "boot"]])
    BY <1>1, <1>2, <1>4, <1>6, <2>1 DEF NoAgent, ClearFetch
  <2>3. Table(fetches')
    BY <1>6, <2>2 DEF NoAgent, Becomes
  <2>4. prefetch' \in PrefetchType /\ pending' \in Commands /\ predicted' \in Commands
    <3>1. \/ UNCHANGED <<pending, predicted, prefetch>>
          \/ /\ prefetch' = [step |-> "context", of |-> pending, current |-> TRUE]
             /\ pending' = "none" /\ UNCHANGED predicted
      BY <1>6 DEF NoAgent, Next_
    <3>2. pending \in Commands /\ predicted \in Commands /\ prefetch \in PrefetchType
      BY DEF TypeInv
    <3>3. [step |-> "context", of |-> pending, current |-> TRUE] \in PrefetchType /\ "none" \in Commands
      BY <3>2 DEF PrefetchType, Commands
    <3> QED
      BY <3>1, <3>2, <3>3
  <2> QED
    BY <1>6, <2>3, <2>4 DEF NoAgent, TypeInv, Shell, Line, Panel
<1>7. CASE Proceed(f)
  <2> DEFINE fetch == [fetches[f] EXCEPT !.current = TRUE]
             fs    == [g \in Slots |-> [fetches[g] EXCEPT !.current = FALSE]]
  <2>1. fetch \in ClearFetch /\ fetch.partial = fetches[f].partial /\ fetch.partial \in Clear
    BY <1>1 DEF ClearFetch
  <2>2. Table(fs) /\ fs[f] # Idle /\ fs[f].partial = fetch.partial
    <3>1. ASSUME NEW g \in Slots
          PROVE  /\ fs[g] \in ClearFetch /\ fs[g].partial = fetches[g].partial
                 /\ fs[g] # Idle => fetches[g] # Idle
      <4>1. fetches[g] \in ClearFetch
        BY <1>1 DEF Table
      <4>2. fs[g] = [fetches[g] EXCEPT !.current = FALSE]
        OBVIOUS
      <4>3. [Idle EXCEPT !.current = FALSE] = Idle
        BY IdleType DEF Idle, ClearFetch
      <4> HIDE DEF fs
      <4>4. fetches[g] = Idle => fs[g] = Idle
        BY <4>2, <4>3
      <4> QED
        BY <4>1, <4>2, <4>4 DEF ClearFetch
    <3>2. fs[f].step = "boot"
      BY <1>1, <1>7 DEF Proceed, ClearFetch
    <3>3. fs[f] # Idle
      BY <3>2 DEF Idle
    <3> HIDE DEF fetch
    <3>4. fs \in [Slots -> ClearFetch]
      BY <3>1
    <3> HIDE DEF fs
    <3> QED
      BY <1>1, <2>1, <3>1, <3>3, <3>4 DEF Table
  <2>3. lastPartial' = fetch.partial
    BY <1>7 DEF Proceed
  <2>4. CASE Lists(f, fs, fetch)
    <3>1. shown' \in BOOLEAN /\ aiLoading' \in BOOLEAN /\ fits' \in BOOLEAN /\ Table(fetches')
      <4> HIDE DEF fetch, fs
      <4> QED
        BY <2>1, <2>2, <2>4, ListsType
    <3> QED
      BY <1>7, <2>1, <2>3, <3>1 DEF Proceed, TypeInv, Shell, Line, Next_
  <2>5. CASE ~Lists(f, fs, fetch)
    <3>1. /\ fetches' = [fs EXCEPT ![f] = [fetch EXCEPT !.step = "remote"]]
          /\ aiLoading' = FALSE /\ fits' = (fits /\ fetch.partial = lastPartial)
          /\ UNCHANGED shown
      BY <1>7, <2>5 DEF Proceed
    <3>2. [fetch EXCEPT !.step = "remote"] \in ClearFetch
          /\ [fetch EXCEPT !.step = "remote"].partial = fetch.partial
      BY <2>1 DEF ClearFetch, Steps
    <3> HIDE DEF fetch, fs
    <3>3. Table(fetches')
      BY <2>1, <2>2, <3>1, <3>2, MovedTable
    <3> QED
      BY <1>7, <2>1, <2>3, <3>1, <3>3 DEF Proceed, TypeInv, Shell, Line, Next_
  <2> QED
    BY <2>4, <2>5
<1>8. CASE RemoteListed(f)
  <2>1. CASE fetches[f].current
    <3>1. Lists(f, fetches, fetches[f]) /\ UNCHANGED lastPartial
      BY <1>8, <2>1 DEF RemoteListed
    <3>2. shown' \in BOOLEAN /\ aiLoading' \in BOOLEAN /\ fits' \in BOOLEAN /\ Table(fetches')
      BY <1>1, <1>4, <1>8, <3>1, ListsType DEF RemoteListed
    <3> QED
      BY <1>8, <3>1, <3>2 DEF RemoteListed, TypeInv, Shell, Line, Next_
  <2>2. CASE ~fetches[f].current
    <3>1. /\ fetches' = [fetches EXCEPT ![f] = Idle]
          /\ UNCHANGED <<Shell, Line, Panel, armed, booted, completed, Next_, accepting, kept, keys>>
      BY <1>8, <2>2 DEF RemoteListed, Becomes
    <3> QED
      BY <1>3, <3>1 DEF TypeInv, Shell, Line, Panel, Next_
  <2> QED
    BY <2>1, <2>2
<1>9. CASE AsksAI(f)
  <2>1. ASSUME NEW g \in Slots
        PROVE  /\ fetches'[g] \in ClearFetch /\ fetches'[g].partial = fetches[g].partial
               /\ fetches'[g] # Idle => fetches[g] # Idle
    <3>1. fetches[g] \in ClearFetch
      BY <1>1 DEF Table
    <3>2. \/ fetches'[g] = fetches[g]
          \/ \E step \in {"ai", "aborted"} : 
                fetches'[g] = [fetches[g] EXCEPT !.step = step] /\ fetches[g].step # "idle"
      BY <1>9 DEF AsksAI
    <3> QED
      BY <3>1, <3>2 DEF ClearFetch, Steps, Idle
  <2>2. Table(fetches')
    <3>1. fetches' \in [Slots -> ClearFetch]
      BY <1>9, <2>1 DEF AsksAI
    <3> QED
      BY <1>1, <2>1, <3>1 DEF Table
  <2>3. kept' \subseteq {"c"}
    <3>1. fetches[f].partial \in Seq({"c"})
      BY <1>1, ClearLine DEF ClearFetch
    <3> QED
      BY <1>9, <3>1 DEF AsksAI, TypeInv, ToSet
  <2> QED
    BY <1>9, <2>2, <2>3 DEF AsksAI, TypeInv, Shell, Line, Panel, Next_
<1>10. CASE AIAnswers(f)
  BY ZenonT(40), <1>1, <1>3, <1>10
  DEF AIAnswers, Finish, Becomes, Heard, TypeInv, Shell, Line, Next_, ClearFetch
<1>11. CASE AIFails(f)
  BY <1>1, <1>3, <1>11
  DEF AIFails, Finish, Becomes, Heard, TypeInv, Shell, Line, Next_, ClearFetch
<1> QED
  BY <1>5, <1>6, <1>7, <1>8, <1>9, <1>10, <1>11 DEF FetchSteps

LEMMA KeysType == TypeInv /\ keys < MaxKeys /\ keys' = keys + 1 => keys' \in 0..MaxKeys
  BY LengthAssumption DEF TypeInv

\* What handleInput does to the panel at its end.
LEMMA InputPanelType ==
    ASSUME TypeInv, NEW chunk \in Chunks, Input(chunk), line' \in Clear, completed' \in BOOLEAN
    PROVE  /\ shown' \in BOOLEAN /\ aiLoading' \in BOOLEAN /\ fits' \in BOOLEAN
           /\ lastPartial' \in Clear /\ Table(fetches') /\ armed' \in BOOLEAN
<1> DEFINE st   == AllTyped(chunk)
           hide == st.sensitive \/ st.entered
<1>1. CASE st.sensitive \/ chunk = <<"enter">>
  <2>1. /\ IF hide THEN Hide ELSE UNCHANGED <<shown, aiLoading, fits, fetches>>
        /\ lastPartial' = IF st.sensitive THEN <<>> ELSE lastPartial
        /\ UNCHANGED armed
    BY <1>1 DEF Input
  <2> HIDE DEF st
  <2> QED
    BY <2>1, ClearLine, HideType DEF TypeInv
<1>2. CASE ~(st.sensitive \/ chunk = <<"enter">>)
  <2>1. /\ Fetches(IF hide THEN Dropped(fetches) ELSE fetches, "typed", ~hide)
        /\ armed' = TRUE
    BY <1>2 DEF Input
  <2> DEFINE fs == IF hide THEN Dropped(fetches) ELSE fetches
             open == ~hide
  <2>2. Table(fs) /\ open \in BOOLEAN /\ "typed" \in Kinds
    <3>1. Table(fetches) /\ Table(Dropped(fetches))
      BY DroppedTable DEF TypeInv
    <3> QED
      BY <3>1 DEF Kinds
  <2>3. Fetches(fs, "typed", open)
    BY <2>1
  <2> HIDE DEF fs, open
  <2> QED
    BY <2>1, <2>2, <2>3, FetchesType
<1> QED
  BY <1>1, <1>2

LEMMA InputType ==
    ASSUME TypeInv, PromptIsKnown, NEW chunk \in Chunks, Input(chunk)
    PROVE  TypeInv'
<1> DEFINE st == AllTyped(chunk)
<1>1. InLoop(st)
  BY AllTypedInLoop
<1>2. /\ line' = st.line /\ Len(st.line) <= MaxLine /\ latched' = st.latched
      /\ wasSensitive' = st.was /\ asking' = Answering(st.entered) /\ kept' = kept \cup st.kept
      /\ completed' = (completed \/ st.submitted)
      /\ keys < MaxKeys /\ keys' = keys + 1 /\ UNCHANGED <<editor, matched, booted, accepting>>
  BY DEF Input, Key
<1>3. pending' \in Commands /\ predicted' \in Commands /\ prefetch' \in PrefetchType
  <2>1. \/ StartNext(st.submitted)
        \/ prefetch' \in {Unrequested, prefetch} /\ UNCHANGED <<pending, predicted>>
    BY DEF Input
  <2> HIDE DEF st
  <2> QED
    BY <2>1, StartNextType, UnrequestedType DEF TypeInv
<1> HIDE DEF st
<1>4. line' \in Clear /\ completed' \in BOOLEAN
  BY <1>1, <1>2, ClearLine DEF InLoop, LoopType, TypeInv
<1>5. /\ shown' \in BOOLEAN /\ aiLoading' \in BOOLEAN /\ fits' \in BOOLEAN
      /\ lastPartial' \in Clear /\ Table(fetches') /\ armed' \in BOOLEAN
  BY <1>4, InputPanelType
<1>6. asking' \in {"no", "asked", "answering", "missed"}
  BY <1>2 DEF Answering
<1> QED
  BY <1>1, <1>2, <1>3, <1>4, <1>5, <1>6, KeysType DEF TypeInv, InLoop, LoopType

LEMMA InsertedType ==
    ASSUME TypeInv, NEW execute \in BOOLEAN, Inserted(execute), UNCHANGED keys \/ Key,
           accepting' \in {accepting, "none"}
    PROVE  TypeInv'
<1>1. line' \in Clear /\ pending' \in Commands /\ predicted' \in Commands /\ prefetch' \in PrefetchType
  BY ClearLine, StartNextType DEF Inserted, TypeInv, Next_
<1>2. keys' \in 0..MaxKeys
  BY KeysType DEF Key, TypeInv
<1>3. shown' \in BOOLEAN /\ aiLoading' \in BOOLEAN /\ fits' \in BOOLEAN /\ Table(fetches')
  BY HideType DEF Inserted
<1> QED
  BY <1>1, <1>2, <1>3 DEF Inserted, TypeInv

\* Every step keeps the types and the clear lines,
LEMMA TypeStep == TypeInv /\ PromptIsKnown /\ [Next]_vars => TypeInv'
<1> SUFFICES ASSUME TypeInv, PromptIsKnown, [Next]_vars PROVE TypeInv'
  OBVIOUS
<1> USE DEF Shell, Line, Panel, Next_
<1>1. Table(fetches) /\ Table(Dropped(fetches)) /\ Unrequested \in PrefetchType
  BY DroppedTable, UnrequestedType DEF TypeInv
<1>2. CASE UNCHANGED vars
  BY <1>2 DEF vars, TypeInv
<1>3. ASSUME NEW f \in Slots, FetchSteps(f) PROVE TypeInv'
  BY <1>3, FetchStepsType
<1>4. CASE AgentChecked
  <2>1. PICK answer \in {"yes", "no"} :
            fetches' = [f \in Slots |-> IF fetches[f].step # "agent" THEN fetches[f]
                                        ELSE [fetches[f] EXCEPT !.step = answer]]
    BY <1>4 DEF AgentChecked
  <2>2. ASSUME NEW f \in Slots
        PROVE  /\ fetches'[f] \in ClearFetch /\ fetches'[f].partial = fetches[f].partial
               /\ fetches'[f] # Idle => fetches[f] # Idle
    <3>1. fetches[f] \in ClearFetch
      BY <1>1 DEF Table
    <3>2. CASE fetches[f].step # "agent"
      BY <2>1, <3>1, <3>2
    <3>3. CASE fetches[f].step = "agent"
      <4>1. fetches[f] # Idle
        BY <3>3 DEF Idle
      <4>2. fetches'[f] = [fetches[f] EXCEPT !.step = answer]
        BY <2>1, <3>3
      <4> QED
        BY <3>1, <4>1, <4>2 DEF ClearFetch, Steps
    <3> QED
      BY <3>2, <3>3
  <2>3. Table(fetches')
    <3>1. fetches' \in [Slots -> ClearFetch]
      BY <2>1, <2>2
    <3> QED
      BY <1>1, <2>2, <3>1 DEF Table
  <2> QED
    BY <1>4, <2>3 DEF AgentChecked, TypeInv
<1>5. CASE Bootstrapped
  BY <1>5 DEF Bootstrapped, TypeInv
<1>6. CASE PrefetchAsks
  BY <1>6, IdleType DEF PrefetchAsks, TypeInv, PrefetchType
<1>7. CASE PrefetchAnswers
  <2>1. predicted' \in Commands
    BY <1>7 DEF PrefetchAnswers, TypeInv, PrefetchType, Commands
  <2>2. shown' \in BOOLEAN /\ aiLoading' \in BOOLEAN /\ fits' \in BOOLEAN /\ lastPartial' \in Clear
    BY <1>7 DEF PrefetchAnswers, TypeInv
  <2> QED
    BY <1>7, <2>1, <2>2, IdleType DEF PrefetchAnswers, TypeInv
<1>8. CASE PrefetchFails
  BY <1>8, IdleType DEF PrefetchFails, TypeInv
<1>9. ASSUME NEW chunk \in Chunks, Input(chunk) PROVE TypeInv'
  BY <1>9, InputType
<1>10. CASE InputEscape
  <2>1. line' \in Clear /\ asking' \in {"no", "asked", "answering", "missed"} /\ prefetch' \in PrefetchType
        /\ latched' \in BOOLEAN /\ wasSensitive' \in BOOLEAN
    BY <1>1, <1>10, ClearLine DEF InputEscape, Answering, TypeInv, Sensitive
  <2>2. \/ Hide /\ lastPartial' \in {<< >>, lastPartial}
        \/ Fetches(fetches, "typed", TRUE)
    BY <1>10 DEF InputEscape
  <2>3. "typed" \in Kinds /\ TRUE \in BOOLEAN /\ completed' \in BOOLEAN
    BY <1>10 DEF Kinds, InputEscape, TypeInv
  <2>4. /\ shown' \in BOOLEAN /\ aiLoading' \in BOOLEAN /\ fits' \in BOOLEAN
        /\ lastPartial' \in Clear /\ Table(fetches')
    <3>1. CASE Hide /\ lastPartial' \in {<< >>, lastPartial}
      BY <3>1, HideType, ClearLine DEF TypeInv
    <3>2. CASE Fetches(fetches, "typed", TRUE)
      BY <1>1, <2>1, <2>3, <3>2, FetchesType
    <3> QED
      BY <2>2, <3>1, <3>2
  <2>5. armed' \in BOOLEAN
    BY <1>10 DEF InputEscape, TypeInv
  <2> QED
    BY <1>10, <2>1, <2>4, <2>5, KeysType DEF InputEscape, TypeInv, Key
<1>11. CASE InputInEditor
  <2>1. line' \in Clear /\ asking' \in {"no", "asked", "answering", "missed"} /\ prefetch' \in PrefetchType
        /\ latched' \in BOOLEAN /\ wasSensitive' \in BOOLEAN /\ armed' \in BOOLEAN
        /\ lastPartial' \in Clear
    BY <1>1, <1>11, ClearLine DEF InputInEditor, Answering, TypeInv, Sensitive
  <2>2. shown' \in BOOLEAN /\ aiLoading' \in BOOLEAN /\ fits' \in BOOLEAN /\ Table(fetches')
    BY <1>11, HideType DEF InputInEditor, TypeInv
  <2> QED
    BY <1>11, <2>1, <2>2, KeysType DEF InputInEditor, TypeInv, Key
<1>12. CASE DebounceFires
  <2>1. "debounced" \in Kinds /\ TRUE \in BOOLEAN /\ line' \in Clear /\ completed' \in BOOLEAN
    BY <1>12 DEF Kinds, DebounceFires, TypeInv
  <2> QED
    BY <1>1, <1>12, <2>1, FetchesType DEF DebounceFires, TypeInv
<1>13. CASE Trigger
  <2>1. "forced" \in Kinds /\ TRUE \in BOOLEAN /\ line' \in Clear /\ completed' \in BOOLEAN
    BY <1>13 DEF Kinds, Trigger, TypeInv
  <2>2. /\ shown' \in BOOLEAN /\ aiLoading' \in BOOLEAN /\ fits' \in BOOLEAN
        /\ lastPartial' \in Clear /\ Table(fetches')
    <3>1. CASE Hide /\ UNCHANGED lastPartial
      BY <3>1, HideType DEF TypeInv
    <3>2. CASE Fetches(fetches, "forced", TRUE)
      BY <1>1, <2>1, <3>2, FetchesType
    <3> QED
      BY <1>13, <3>1, <3>2 DEF Trigger
  <2> QED
    BY <1>13, <2>2, KeysType DEF Trigger, TypeInv, Key
<1>14. CASE Dismiss
  BY <1>14, HideType, KeysType DEF Dismiss, TypeInv, Key
<1>15. CASE Accept
  <2>1. CASE editor
    BY <1>15, <2>1, HideType, KeysType DEF Accept, TypeInv, Key
  <2>2. CASE ~editor
    <3> PICK how \in {"insert", "execute"} :
            \/ Inserted(how = "execute") /\ UNCHANGED accepting
            \/ /\ accepting' = how
               /\ UNCHANGED <<Shell, Line, Panel, fetches, armed, booted, completed, Next_, kept>>
      BY <1>15, <2>2 DEF Accept
    <3>1. CASE Inserted(how = "execute") /\ UNCHANGED accepting
      <4>1. Key /\ (how = "execute") \in BOOLEAN
        BY <1>15 DEF Accept
      <4> QED
        BY <3>1, <4>1, InsertedType
    <3>2. CASE /\ accepting' = how
               /\ UNCHANGED <<Shell, Line, Panel, fetches, armed, booted, completed, Next_, kept>>
      BY <1>15, <3>2, KeysType DEF Accept, TypeInv, Key
    <3> QED
      BY <3>1, <3>2
  <2> QED
    BY <2>1, <2>2
<1>16. CASE DialogAnswered
  <2>1. CASE Inserted(accepting = "execute")
    <3>1. (accepting = "execute") \in BOOLEAN /\ UNCHANGED keys /\ accepting' \in {accepting, "none"}
      BY <1>16 DEF DialogAnswered
    <3> QED
      BY <2>1, <3>1, InsertedType
  <2>2. CASE ~Inserted(accepting = "execute")
    BY ZenonT(40), <1>16, <2>2 DEF DialogAnswered, TypeInv
  <2> QED
    BY <2>1, <2>2
<1>17. CASE SessionChanges
  <2>1. prefetch' \in PrefetchType
    BY <1>1, <1>17 DEF SessionChanges, PrefetchType
  <2> QED
    BY <1>17, <2>1, ClearLine, HideType, KeysType DEF SessionChanges, TypeInv, Commands
<1>18. CASE ScreenSwitches
  BY <1>18, ClearLine, HideType, KeysType DEF ScreenSwitches, TypeInv
<1>19. CASE ShellWrites
  <2>1. matched' \in BOOLEAN /\ asking' \in {"no", "asked", "answering", "missed"}
    BY <1>19 DEF ShellWrites, TypeInv
  <2> QED
    BY <1>19, <2>1 DEF ShellWrites, TypeInv
<1> QED
  BY <1>2, <1>3, <1>4, <1>5, <1>6, <1>7, <1>8, <1>9, <1>10, <1>11, <1>12, <1>13, <1>14, <1>15,
     <1>16, <1>17, <1>18, <1>19 DEF Next

---------------------------------------------------------------------------
(* Secrets, and predictions.                                                *)

\* the latch while a prompt is out of sight,
LEMMA PromptStep == TypeInv /\ PromptIsKnown /\ [Next]_vars => PromptIsKnown'
<1> SUFFICES ASSUME TypeInv, PromptIsKnown, [Next]_vars PROVE PromptIsKnown'
  OBVIOUS
<1> USE DEF Shell, Line
<1>1. CASE UNCHANGED <<asking, matched, latched>>
  BY <1>1 DEF PromptIsKnown
<1>2. ASSUME NEW chunk \in Chunks, Input(chunk) PROVE PromptIsKnown'
  <2> DEFINE st == AllTyped(chunk)
  <2>1. InLoop(st)
    BY AllTypedInLoop
  <2>2. latched' = st.latched /\ asking' = Answering(st.entered)
    BY <1>2 DEF Input
  <2>3. asking = "answering" => Sensitive
    BY DEF PromptIsKnown, Sensitive
  <2> HIDE DEF st
  <2>4. asking' = "answering" => Sensitive /\ ~st.entered
    <3>1. st.entered \in BOOLEAN /\ Sensitive \in BOOLEAN
      BY <2>1 DEF InLoop, LoopType, Sensitive, TypeInv
    <3> QED
      BY <2>2, <2>3, <3>1 DEF Answering
  <2> QED
    BY <2>1, <2>2, <2>4 DEF InLoop, LoopType, PromptIsKnown
<1>3. CASE InputEscape \/ InputInEditor
  <2>1. latched' = Sensitive
    BY <1>3 DEF InputEscape, InputInEditor
  <2>2. \E entered \in BOOLEAN : asking' = Answering(entered)
    BY <1>3 DEF InputEscape, InputInEditor
  <2> QED
    BY <2>1, <2>2 DEF Answering, PromptIsKnown, Sensitive
<1>4. ASSUME NEW execute \in BOOLEAN, Inserted(execute) PROVE PromptIsKnown'
  BY <1>4 DEF Inserted, PromptIsKnown
<1>5. CASE SessionChanges
  BY <1>5 DEF SessionChanges, PromptIsKnown
<1>6. CASE ShellWrites
  BY <1>6 DEF ShellWrites, PromptIsKnown
<1>7. CASE Accept \/ DialogAnswered
  <2>1. UNCHANGED <<asking, matched, latched>> \/ \E execute \in BOOLEAN : Inserted(execute)
    BY <1>7 DEF Accept, DialogAnswered
  <2> QED
    BY <1>1, <1>4, <2>1
<1>8. ASSUME NEW f \in Slots, FetchSteps(f) PROVE UNCHANGED <<asking, matched, latched>>
  BY <1>8 DEF FetchSteps, AgentActive, NoAgent, Proceed, RemoteListed, AsksAI, AIAnswers, AIFails
<1>9. CASE \/ AgentChecked \/ Bootstrapped \/ PrefetchAsks \/ PrefetchAnswers \/ PrefetchFails
           \/ DebounceFires \/ Trigger \/ Dismiss \/ ScreenSwitches \/ UNCHANGED vars
  <2>1. UNCHANGED <<asking, matched, latched>>
    BY <1>9
    DEF AgentChecked, Bootstrapped, PrefetchAsks, PrefetchAnswers, PrefetchFails, DebounceFires,
        Trigger, Dismiss, ScreenSwitches, vars
  <2> QED
    BY <1>1, <2>1
<1> QED
  BY <1>1, <1>2, <1>3, <1>5, <1>6, <1>7, <1>8, <1>9 DEF Next

\* A prediction is asked for only for the command just entered,
LEMMA StartNextIsNew ==
    ASSUME TypeInv, PredictionsAreNew, NEW submitted, StartNext(submitted)
    PROVE  PredictionsAreNew'
  BY UnrequestedType DEF StartNext, PredictionsAreNew, NoPrefetch, PrefetchType, TypeInv

\* so that every step keeps the predictions new.
LEMMA PredictionsStep == TypeInv /\ PredictionsAreNew /\ [Next]_vars => PredictionsAreNew'
<1> SUFFICES ASSUME TypeInv, PredictionsAreNew, [Next]_vars PROVE PredictionsAreNew'
  OBVIOUS
<1> USE DEF Next_
<1>1. CASE UNCHANGED <<pending, predicted, prefetch>>
  BY <1>1 DEF PredictionsAreNew
<1>2. CASE UNCHANGED <<pending, predicted>> /\ prefetch' \in {Unrequested, NoPrefetch, prefetch}
  BY <1>2 DEF PredictionsAreNew, Unrequested, NoPrefetch
<1>3. ASSUME NEW submitted, StartNext(submitted) PROVE PredictionsAreNew'
  BY <1>3, StartNextIsNew
<1>4. ASSUME NEW f \in Slots, FetchSteps(f) PROVE PredictionsAreNew'
  <2>1. CASE AgentActive(f)
    BY <2>1 DEF AgentActive, PredictionsAreNew, Unrequested, NoPrefetch
  <2>2. CASE NoAgent(f)
    BY <2>2 DEF NoAgent, PredictionsAreNew
  <2>3. CASE Proceed(f) \/ RemoteListed(f) \/ AsksAI(f) \/ AIAnswers(f) \/ AIFails(f)
    BY <1>1, <2>3 DEF Proceed, RemoteListed, AsksAI, AIAnswers, AIFails
  <2> QED
    BY <1>4, <2>1, <2>2, <2>3 DEF FetchSteps
<1>5. CASE PrefetchAsks
  BY <1>5 DEF PrefetchAsks, PredictionsAreNew, NoPrefetch, TypeInv, PrefetchType
<1>6. CASE PrefetchAnswers
  BY <1>6 DEF PrefetchAnswers, PredictionsAreNew, NoPrefetch
<1>7. CASE PrefetchFails
  BY <1>2, <1>7 DEF PrefetchFails
<1>8. ASSUME NEW chunk \in Chunks, Input(chunk) PROVE PredictionsAreNew'
  <2> DEFINE st == AllTyped(chunk)
  <2>1. \/ StartNext(st.submitted)
        \/ prefetch' \in {Unrequested, prefetch} /\ UNCHANGED <<pending, predicted>>
    BY <1>8 DEF Input
  <2> HIDE DEF st
  <2> QED
    BY <1>2, <1>3, <2>1
<1>9. CASE InputEscape \/ InputInEditor
  BY <1>2, <1>9 DEF InputEscape, InputInEditor
<1>10. ASSUME NEW execute \in BOOLEAN, Inserted(execute) PROVE PredictionsAreNew'
  BY <1>1, <1>3, <1>10 DEF Inserted
<1>11. CASE Accept \/ DialogAnswered
  <2>1. UNCHANGED <<pending, predicted, prefetch>> \/ \E execute \in BOOLEAN : Inserted(execute)
    BY <1>11 DEF Accept, DialogAnswered
  <2> QED
    BY <1>1, <1>10, <2>1
<1>12. CASE SessionChanges
  <2>1. prefetch'.current = FALSE
    BY <1>12, UnrequestedType DEF SessionChanges, TypeInv, PrefetchType
  <2> QED
    BY <1>12, <2>1 DEF SessionChanges, PredictionsAreNew
<1>13. CASE \/ AgentChecked \/ Bootstrapped \/ DebounceFires \/ Trigger \/ Dismiss
            \/ ScreenSwitches \/ ShellWrites \/ UNCHANGED vars
  <2>1. UNCHANGED <<pending, predicted, prefetch>>
    BY <1>13
    DEF AgentChecked, Bootstrapped, DebounceFires, Trigger, Dismiss, ScreenSwitches, ShellWrites,
        vars
  <2> QED
    BY <1>1, <2>1
<1> QED
  BY <1>4, <1>5, <1>6, <1>7, <1>8, <1>9, <1>11, <1>12, <1>13 DEF Next

---------------------------------------------------------------------------
(* The panel.                                                               *)

Beyond  == {"remote", "context", "ai", "aborted"}
PanelOk == OneIsCurrent /\ PanelIsOfNewestFetch

\* The ways in which a step leaves the panel right: it is hidden and nothing counts,
LEMMA Hidden ==
    ASSUME \A f \in Slots : ~fetches'[f].current, shown' = FALSE, aiLoading' = FALSE
    PROVE  PanelOk'
  BY DEF PanelOk, OneIsCurrent, PanelIsOfNewestFetch

\* or what counts goes on counting and waits for the same,
LEMMA SamePanel ==
    ASSUME PanelOk, UNCHANGED <<lastPartial, aiLoading>>,
           shown' => shown \/ fits', fits => fits',
           \A f \in Slots :
              /\ fetches'[f].current <=> fetches[f].current
              /\ fetches'[f].current =>
                    /\ fetches'[f].partial = fetches[f].partial
                    /\ fetches'[f].step \in Beyond
                    /\ fetches'[f].step = "remote" <=> fetches[f].step = "remote"
    PROVE  PanelOk'
<1>1. OneIsCurrent'
  BY DEF PanelOk, OneIsCurrent, Beyond
<1>2. \A f \in Slots : fetches[f].current /\ fetches[f].step \in {"context", "ai", "aborted"}
                   <=> fetches'[f].current /\ fetches'[f].step \in {"context", "ai", "aborted"}
  BY DEF PanelOk, OneIsCurrent, Beyond
<1>3. \A f \in Slots : fetches[f].current /\ fetches[f].step = "remote"
                   <=> fetches'[f].current /\ fetches'[f].step = "remote"
  OBVIOUS
<1> QED
  BY <1>1, <1>2, <1>3 DEF PanelOk, PanelIsOfNewestFetch

\* or the fetch that counts draws its list,
LEMMA ListsPanel ==
    ASSUME NEW f \in Slots, NEW fs \in [Slots -> ClearFetch], NEW fetch \in ClearFetch,
           \A g \in Slots : fs[g].current => g = f,
           fetch.current, fetch.partial = lastPartial', Lists(f, fs, fetch)
    PROVE  PanelOk'
<1>1. PICK match \in BOOLEAN, other \in BOOLEAN :
        LET found == match \/ other
            asks  == /\ fetch.kind # "typed" /\ fetch.ai
                     /\ fetch.kind = "forced" \/ fetch.editor \/ ~match
        IN  /\ shown' = (found \/ asks) /\ aiLoading' = asks
            /\ fits' = (fetch.partial = lastPartial')
            /\ fetches' = [fs EXCEPT ![f] =
                 IF asks THEN [fetch EXCEPT !.step = "context", !.found = found] ELSE Idle]
  BY DEF Lists
<1> DEFINE asks == /\ fetch.kind # "typed" /\ fetch.ai
                   /\ fetch.kind = "forced" \/ fetch.editor \/ ~match
           next == [fetch EXCEPT !.step = "context", !.found = match \/ other]
<1>2. next.current /\ next.step = "context" /\ next.partial = fetch.partial
  BY DEF ClearFetch
<1>3. /\ aiLoading' = asks /\ fits' = TRUE
      /\ fetches' = [fs EXCEPT ![f] = IF asks THEN next ELSE Idle]
  BY <1>1
<1> HIDE DEF asks, next
<1>4. \A g \in Slots : g # f => ~fetches'[g].current
  BY <1>3
<1>5. fetches'[f] = IF asks THEN next ELSE Idle
  BY <1>3
<1>6. ~Idle.current
  BY DEF Idle
<1> QED
  BY <1>2, <1>3, <1>4, <1>5, <1>6 DEF PanelOk, OneIsCurrent, PanelIsOfNewestFetch

\* or a fetch is over that waited for the LLM.
LEMMA FinishPanel ==
    ASSUME TypeInv, PanelOk, NEW f \in Slots, fetches[f].step \in {"context", "ai", "aborted"},
           Finish(f), UNCHANGED lastPartial, shown' => shown,
           UNCHANGED fits \/ (Heard(f) /\ fits' = (fetches[f].partial = lastPartial))
    PROVE  PanelOk'
<1>1. /\ aiLoading' = (aiLoading /\ ~fetches[f].current)
      /\ fetches' = [fetches EXCEPT ![f] = Idle] /\ ~Idle.current
  BY DEF Finish, Becomes, Idle
<1>2. fetches'[f] = Idle /\ \A g \in Slots : g # f => fetches'[g] = fetches[g]
  BY <1>1 DEF TypeInv, Table
<1>3. CASE fetches[f].current
  <2>1. \A g \in Slots : fetches[g].current => g = f
    BY <1>3 DEF PanelOk, OneIsCurrent
  <2>2. \A g \in Slots : ~fetches'[g].current
    BY <1>1, <1>2, <2>1
  <2>3. shown' => fits'
    BY <1>3, <2>1 DEF PanelOk, OneIsCurrent, PanelIsOfNewestFetch
  <2> QED
    BY <1>1, <1>3, <2>2, <2>3 DEF PanelOk, OneIsCurrent, PanelIsOfNewestFetch
<1>4. CASE ~fetches[f].current
  <2>1. aiLoading \in BOOLEAN /\ UNCHANGED fits
    BY <1>4 DEF TypeInv, Heard
  <2>2. \A g \in Slots : /\ fetches'[g].current <=> fetches[g].current
                         /\ fetches'[g].current => fetches'[g] = fetches[g]
    BY <1>1, <1>2, <1>4
  <2>3. UNCHANGED aiLoading
    BY <1>1, <1>4, <2>1
  <2>4. \A g \in Slots : fetches[g].current => fetches[g].step \in Beyond
    BY DEF PanelOk, OneIsCurrent, Beyond
  <2> QED
    BY <2>1, <2>2, <2>3, <2>4, SamePanel
<1> QED
  BY <1>3, <1>4

\* Hiding the panel, and fetching for it anew, leave it right.
LEMMA HidePanel ==
    ASSUME TypeInv, Hide
    PROVE  PanelOk'
<1>1. \A f \in Slots : ~fetches'[f].current
  BY DroppedTable DEF Hide, TypeInv
<1> QED
  BY <1>1, Hidden DEF Hide

LEMMA FetchesPanel ==
    ASSUME TypeInv, PanelOk, NEW kind \in Kinds, NEW open \in BOOLEAN, NEW fs,
           IF open THEN fs = fetches ELSE fs = Dropped(fetches),
           Fetches(fs, kind, open)
    PROVE  PanelOk'
<1>1. Table(fs)
  BY DroppedTable DEF TypeInv
<1>2. CASE FetchRefused(fs)
  <2>1. \A f \in Slots : ~fetches'[f].current
    BY <1>1, <1>2, DroppedTable DEF FetchRefused
  <2> QED
    BY <1>2, <2>1, Hidden DEF FetchRefused
<1>3. ASSUME NEW partial, FetchBegins(fs, kind, partial, open) PROVE PanelOk'
  <2> PICK f \in Slots, step \in {"agent", "yes", "no"} :
        /\ fs[f] = Idle
        /\ fetches' = [fs EXCEPT ![f] =
              [Idle EXCEPT !.step = step, !.kind = kind, !.partial = partial,
                           !.editor = editor, !.ai = AI /\ (editor \/ completed')]]
    BY <1>3 DEF FetchBegins
  <2>1. ~fetches'[f].current /\ ~fs[f].current
        /\ \A g \in Slots : g # f => fetches'[g] = fs[g]
    BY <1>1 DEF Idle, Table
  <2>2. CASE open
    <3>1. UNCHANGED <<lastPartial, fits>> /\ UNCHANGED shown /\ UNCHANGED aiLoading
      BY <1>3, <2>2 DEF FetchBegins, TypeInv
    <3>2. \A g \in Slots : fetches[g].current => fetches[g].step \in Beyond
      BY DEF PanelOk, OneIsCurrent, Beyond
    <3>3. \A g \in Slots : /\ fetches'[g].current <=> fetches[g].current
                           /\ fetches'[g].current => fetches'[g] = fetches[g]
      BY <2>1, <2>2
    <3> QED
      BY <3>1, <3>2, <3>3, SamePanel
  <2>3. CASE ~open
    <3>1. \A g \in Slots : ~fs[g].current
      BY <2>3, DroppedTable DEF TypeInv
    <3>2. \A g \in Slots : ~fetches'[g].current
      BY <2>1, <3>1
    <3> QED
      BY <1>3, <2>3, <3>2, Hidden DEF FetchBegins
  <2> QED
    BY <2>2, <2>3
<1> QED
  BY <1>2, <1>3 DEF Fetches

\* What fetchAutocomplete does after an await.
LEMMA FetchStepsPanel ==
    ASSUME TypeInv, PanelOk, NEW f \in Slots, FetchSteps(f)
    PROVE  PanelOk'
<1> USE DEF Panel
<1>1. fetches[f] \in ClearFetch /\ Table(fetches)
  BY DEF TypeInv, Table
<1>2. \A g \in Slots : fetches[g].current => fetches[g].step \in Beyond
  BY DEF PanelOk, OneIsCurrent, Beyond
<1>3. CASE AgentActive(f)
  <2>1. \A g \in Slots : ~fetches'[g].current
    BY <1>1, <1>3, DroppedTable DEF AgentActive, Idle, Table
  <2> QED
    BY <1>3, <2>1, Hidden DEF AgentActive
<1>4. CASE NoAgent(f)
  <2>1. ~fetches[f].current /\ fetches' = [fetches EXCEPT ![f] = [fetches[f] EXCEPT !.step = "boot"]]
    BY <1>2, <1>4 DEF NoAgent, Becomes, Beyond
  <2>2. ~[fetches[f] EXCEPT !.step = "boot"].current
    BY <1>1, <2>1 DEF ClearFetch
  <2>3. \A g \in Slots : /\ fetches'[g].current <=> fetches[g].current
                         /\ fetches'[g].current => fetches'[g] = fetches[g]
    BY <1>1, <2>1, <2>2 DEF Table
  <2> QED
    BY <1>2, <1>4, <2>3, SamePanel DEF NoAgent
<1>5. CASE Proceed(f)
  <2> DEFINE fetch == [fetches[f] EXCEPT !.current = TRUE]
             fs    == [g \in Slots |-> [fetches[g] EXCEPT !.current = FALSE]]
  <2>1. fetch \in ClearFetch /\ fetch.current /\ lastPartial' = fetch.partial
    BY <1>1, <1>5 DEF ClearFetch, Proceed
  <2>2. \A g \in Slots : fs[g] \in ClearFetch /\ ~fs[g].current
    <3> SUFFICES ASSUME NEW g \in Slots PROVE fs[g] \in ClearFetch /\ ~fs[g].current
      OBVIOUS
    <3>1. fetches[g] \in ClearFetch
      BY <1>1 DEF Table
    <3> QED
      BY <3>1 DEF ClearFetch
  <2>3. fs \in [Slots -> ClearFetch]
    <3> HIDE DEF fs
    <3>1. DOMAIN fs = Slots /\ fs = [g \in Slots |-> fs[g]]
      BY DEF fs
    <3> QED
      BY <2>2, <3>1
  <2>4. CASE Lists(f, fs, fetch)
    <3> HIDE DEF fs, fetch
    <3> QED
      BY <2>1, <2>2, <2>3, <2>4, ListsPanel
  <2>5. CASE ~Lists(f, fs, fetch)
    <3>1. /\ fetches' = [fs EXCEPT ![f] = [fetch EXCEPT !.step = "remote"]]
          /\ aiLoading' = FALSE
      BY <1>5, <2>5 DEF Proceed
    <3>2. [fetch EXCEPT !.step = "remote"].current
          /\ [fetch EXCEPT !.step = "remote"].step = "remote"
          /\ [fetch EXCEPT !.step = "remote"].partial = fetch.partial
      BY <2>1 DEF ClearFetch
    <3> HIDE DEF fs, fetch
    <3>3. /\ \A g \in Slots : g # f => ~fetches'[g].current
          /\ fetches'[f] = [fetch EXCEPT !.step = "remote"]
      BY <2>2, <2>3, <3>1
    <3> QED
      BY <2>1, <3>1, <3>2, <3>3 DEF PanelOk, OneIsCurrent, PanelIsOfNewestFetch
  <2> QED
    BY <2>4, <2>5
<1>6. CASE RemoteListed(f)
  <2>1. CASE fetches[f].current
    <3>1. Lists(f, fetches, fetches[f]) /\ fetches[f].partial = lastPartial'
      BY <1>6, <2>1 DEF RemoteListed, PanelOk, OneIsCurrent
    <3>2. \A g \in Slots : fetches[g].current => g = f
      BY <2>1 DEF PanelOk, OneIsCurrent
    <3> QED
      BY <1>1, <2>1, <3>1, <3>2, ListsPanel DEF Table
  <2>2. CASE ~fetches[f].current
    <3>1. \A g \in Slots : /\ fetches'[g].current <=> fetches[g].current
                           /\ fetches'[g].current => fetches'[g] = fetches[g]
      BY <1>1, <1>6, <2>2 DEF RemoteListed, Becomes, Table, Idle
    <3> QED
      BY <1>2, <1>6, <2>2, <3>1, SamePanel DEF RemoteListed
  <2> QED
    BY <2>1, <2>2
<1>7. CASE AsksAI(f)
  <2>1. ASSUME NEW g \in Slots
        PROVE  /\ fetches'[g].current <=> fetches[g].current
               /\ fetches'[g].partial = fetches[g].partial
               /\ fetches'[g].step = fetches[g].step \/
                  (fetches[g].step \in {"context", "ai"} /\ fetches'[g].step \in {"ai", "aborted"})
    <3>1. fetches[g] \in ClearFetch
      BY <1>1 DEF Table
    <3>2. \/ fetches'[g] = fetches[g]
          \/ \E step \in {"ai", "aborted"} :
                /\ fetches'[g] = [fetches[g] EXCEPT !.step = step]
                /\ fetches[g].step \in {"context", "ai"}
      BY <1>7 DEF AsksAI
    <3> QED
      BY <3>1, <3>2 DEF ClearFetch
  <2>2. \A g \in Slots : fetches'[g].current =>
            /\ fetches'[g].step \in Beyond
            /\ fetches'[g].step = "remote" <=> fetches[g].step = "remote"
    BY <1>2, <2>1 DEF Beyond
  <2> QED
    BY <1>7, <2>1, <2>2, SamePanel DEF AsksAI
<1>8. CASE AIAnswers(f)
  <2>1. fetches[f].step \in {"context", "ai", "aborted"} /\ Finish(f) /\ UNCHANGED lastPartial
    BY <1>8 DEF AIAnswers
  <2>2. shown' => shown
    BY <1>8 DEF AIAnswers
  <2>3. UNCHANGED fits \/ (Heard(f) /\ fits' = (fetches[f].partial = lastPartial))
    BY <1>8 DEF AIAnswers
  <2> QED
    BY <2>1, <2>2, <2>3, FinishPanel
<1>9. CASE AIFails(f)
  BY <1>9, FinishPanel DEF AIFails
<1> QED
  BY <1>3, <1>4, <1>5, <1>6, <1>7, <1>8, <1>9 DEF FetchSteps

\* So does every other step.
LEMMA PanelStep == TypeInv /\ PanelOk /\ [Next]_vars => PanelOk'
<1> SUFFICES ASSUME TypeInv, PanelOk, [Next]_vars PROVE PanelOk'
  OBVIOUS
<1> USE DEF Panel
<1>1. CASE UNCHANGED <<Panel, fetches>>
  BY <1>1 DEF PanelOk, OneIsCurrent, PanelIsOfNewestFetch
<1>2. CASE Hide
  BY <1>2, HidePanel
<1>3. \A kind \in {"typed", "debounced", "forced"} : kind \in Kinds
  BY DEF Kinds
<1>4. ASSUME NEW f \in Slots, FetchSteps(f) PROVE PanelOk'
  BY <1>4, FetchStepsPanel
<1>5. CASE AgentChecked
  <2>1. PICK answer \in {"yes", "no"} :
            fetches' = [f \in Slots |-> IF fetches[f].step # "agent" THEN fetches[f]
                                        ELSE [fetches[f] EXCEPT !.step = answer]]
    BY <1>5 DEF AgentChecked
  <2>2. \A f \in Slots : fetches[f].current => fetches[f].step \in Beyond
    BY DEF PanelOk, OneIsCurrent, Beyond
  <2>3. ASSUME NEW f \in Slots
        PROVE  /\ fetches'[f].current <=> fetches[f].current
               /\ fetches'[f].current => fetches'[f] = fetches[f]
    <3>1. fetches[f] \in ClearFetch
      BY DEF TypeInv, Table
    <3> QED
      BY <2>1, <2>2, <3>1 DEF Beyond, ClearFetch
  <2> QED
    BY <1>5, <2>2, <2>3, SamePanel DEF AgentChecked
<1>6. CASE PrefetchAnswers
  <2>1. UNCHANGED <<lastPartial, aiLoading, fetches>> /\ (fits => fits') /\ (shown' => shown \/ fits')
    BY <1>6 DEF PrefetchAnswers
  <2>2. \A f \in Slots : fetches[f].current => fetches[f].step \in Beyond
    BY DEF PanelOk, OneIsCurrent, Beyond
  <2> QED
    BY <2>1, <2>2, SamePanel
<1>7. ASSUME NEW chunk \in Chunks, Input(chunk) PROVE PanelOk'
  <2> DEFINE st   == AllTyped(chunk)
             hide == st.sensitive \/ st.entered
             open == ~hide
             fs   == IF hide THEN Dropped(fetches) ELSE fetches
  <2>1. \/ /\ IF hide THEN Hide ELSE UNCHANGED <<shown, aiLoading, fits, fetches>>
           /\ lastPartial' = IF st.sensitive THEN <<>> ELSE lastPartial
        \/ Fetches(fs, "typed", open)
    BY <1>7 DEF Input
  <2>2. open \in BOOLEAN /\ (IF open THEN fs = fetches ELSE fs = Dropped(fetches))
        /\ (st.sensitive => hide)
    OBVIOUS
  <2>3. CASE Fetches(fs, "typed", open)
    <3> HIDE DEF fs, open
    <3> QED
      BY <1>3, <2>2, <2>3, FetchesPanel
  <2> HIDE DEF st, hide, open, fs
  <2> QED
    BY <1>1, <1>2, <2>1, <2>2, <2>3
<1>8. CASE InputEscape
  <2>1. Hide \/ Fetches(fetches, "typed", TRUE)
    BY <1>8 DEF InputEscape
  <2> QED
    BY <1>2, <1>3, <2>1, FetchesPanel
<1>9. CASE InputInEditor
  <2>1. Hide \/ UNCHANGED <<Panel, fetches>>
    BY <1>9 DEF InputInEditor
  <2> QED
    BY <1>1, <1>2, <2>1
<1>10. CASE DebounceFires
  BY <1>3, <1>10, FetchesPanel DEF DebounceFires
<1>11. CASE Trigger
  <2>1. Hide \/ Fetches(fetches, "forced", TRUE)
    BY <1>11 DEF Trigger
  <2> QED
    BY <1>2, <1>3, <2>1, FetchesPanel
<1>12. CASE Dismiss \/ Accept \/ DialogAnswered \/ SessionChanges \/ ScreenSwitches
  <2>1. Hide \/ UNCHANGED <<Panel, fetches>>
    BY <1>12 DEF Dismiss, Accept, DialogAnswered, Inserted, SessionChanges, ScreenSwitches
  <2> QED
    BY <1>1, <1>2, <2>1
<1>13. CASE Bootstrapped \/ PrefetchAsks \/ PrefetchFails \/ ShellWrites \/ UNCHANGED vars
  <2>1. UNCHANGED <<Panel, fetches>>
    BY <1>13 DEF Bootstrapped, PrefetchAsks, PrefetchFails, ShellWrites, vars
  <2> QED
    BY <1>1, <2>1
<1> QED
  BY <1>4, <1>5, <1>6, <1>7, <1>8, <1>9, <1>10, <1>11, <1>12, <1>13 DEF Next

---------------------------------------------------------------------------

\* The invariant holds at the beginning and so, by the steps above, always.
LEMMA InitInv == Init => IInv
<1> SUFFICES ASSUME Init PROVE IInv
  OBVIOUS
<1>1. fetches = [f \in Slots |-> Idle] /\ Idle \in ClearFetch /\ ~Idle.current
  BY IdleType DEF Init, Idle
<1>2. Table(fetches) /\ \A f \in Slots : ~fetches[f].current
  BY <1>1 DEF Table
<1>3. TypeInv
  <2>1. 0 \in 0..MaxKeys /\ "none" \in Commands
    BY LengthAssumption DEF Commands
  <2> QED
    BY <1>2, <2>1, ClearLine, IdleType DEF Init, TypeInv
<1>4. OneIsCurrent /\ PanelIsOfNewestFetch
  BY <1>2 DEF Init, OneIsCurrent, PanelIsOfNewestFetch
<1> QED
  BY <1>3, <1>4 DEF Init, IInv, PromptIsKnown, PredictionsAreNew, NoPrefetch

LEMMA Invariance == Spec => []IInv
<1>1. IInv /\ [Next]_vars => IInv'
  BY TypeStep, PromptStep, PredictionsStep, PanelStep DEF IInv, PanelOk
<1> QED
  BY InitInv, <1>1, PTL DEF Spec

\* Every variable keeps its type, and no fetch is made for a text that is too short.
THEOREM TypeCorrect == Spec => []TypeOK
<1>1. IInv => TypeOK
  <2> SUFFICES ASSUME IInv PROVE TypeOK
    OBVIOUS
  <2>1. Clear \subseteq Lines /\ ClearFetch \subseteq Fetch
    <3>1. Clear \subseteq Lines
      BY DEF Clear, Lines, Chars
    <3> QED
      BY <3>1 DEF ClearFetch, Fetch
  <2>2. TypeInv
    BY DEF IInv
  <2>3. fetches \in [Slots -> Fetch]
    BY <2>1, <2>2 DEF TypeInv, Table
  <2>4. prefetch \in [step: {"idle", "context", "ai"}, of: Commands, current: BOOLEAN]
    BY <2>2 DEF TypeInv, PrefetchType
  <2> QED
    BY <2>1, <2>2, <2>3, <2>4 DEF TypeInv, Table, TypeOK, Chars
<1> QED
  BY Invariance, <1>1, PTL

\* No character typed in answer to a prompt for a secret, from the first key on that finds the
\* prompt among the lines looked at, gets into the history or to the LLM, whatever scrolls the
\* prompt away from then on (handleInput, sensitiveInputLatched).
THEOREM SecretsAlwaysStay == Spec => []SecretsStayLocal
<1>1. IInv => SecretsStayLocal
  BY DEF IInv, TypeInv, SecretsStayLocal
<1> QED
  BY Invariance, <1>1, PTL

\* The panel waits, and shows, for the newest fetch only, in whatever order the agent
\* check, the bootstrap, the host and the LLM answer (fetchAutocomplete, fetchGeneration).
THEOREM PanelAlwaysNewest == Spec => []PanelIsOfNewestFetch
<1>1. IInv => PanelIsOfNewestFetch
  BY DEF IInv
<1> QED
  BY Invariance, <1>1, PTL

\* A prediction for an earlier command is never offered after a later one
\* (prefetchNextCommands, predictionGeneration).
THEOREM PredictionsAlwaysNew == Spec => []PredictionsFollowLastCommand
<1>1. IInv => PredictionsFollowLastCommand
  BY DEF IInv, PredictionsAreNew, PredictionsFollowLastCommand
<1> QED
  BY Invariance, <1>1, PTL

=============================================================================
