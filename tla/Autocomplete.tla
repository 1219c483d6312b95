---------------------------- MODULE Autocomplete ----------------------------
(* Command completion in one terminal (tabLLMController.ts). Keys, the output of *)
(* the shell, timers and answers arrive in any order; fetchAutocomplete and      *)
(* prefetchNextCommands look at a generation after some of their awaits. What is *)
(* typed is told apart only by whether it answers a prompt for a secret.         *)
(* Bounds: a line of MaxLine characters, MaxFetches fetches at a time, MaxKeys   *)
(* things done by the user, a pasted text of one line end (Chunks).              *)
EXTENDS Naturals, Sequences, SequencesExt

CONSTANTS
    MinLength,      \* minTriggerLength
    MaxLine, MaxFetches, MaxKeys,
    Chunks,         \* what arrives in one event of input$
    AI, EditorAI,   \* isAIEnabledForCommands, isEditorAutocompleteEnabled
    RemoteHistory   \* usesRemoteHistory: an SSH tab

ASSUME LengthAssumption ==
    /\ MinLength \in 1..MaxLine /\ MaxLine \in Nat
    /\ MaxFetches \in Nat \ {0} /\ MaxKeys \in Nat
    /\ Chunks \subseteq Seq({"char", "backspace", "enter"})
    /\ {AI, EditorAI, RemoteHistory} \subseteq BOOLEAN

VARIABLES
    editor,                     \* alternateScreenActive
    asking,                     \* for a secret: no, or asked, or a part of the answer was typed,
                                \* after its prompt was seen, or missed
    matched,                    \* a prompt is among the lines looked at
    line, latched, wasSensitive,\* lineBuffer, sensitiveInputLatched, inputWasSensitive
    shown, aiLoading,           \* showAutocomplete, aiLoading
    lastPartial, fits,          \* lastAutocompletePartial, and whether suggestions are for it
    fetches, armed, booted,     \* fetchAutocomplete's, its debounce, historyBootstrapPromise
    completed,                  \* completedCommandCount > 0
    pending, predicted,         \* pendingPredictionCommand, predictedNextCommands
    prefetch,                   \* prefetchNextCommands
    accepting,                  \* a suggestion in the danger dialog
    kept,                       \* characters put into the history or sent to the LLM
    keys                        \* (bound)

Shell  == <<editor, asking, matched>>
Line   == <<line, latched, wasSensitive>>
Panel  == <<shown, aiLoading, lastPartial, fits>>
Next_  == <<pending, predicted, prefetch>>
vars   == <<Shell, Line, Panel, fetches, armed, booted, completed, Next_, accepting, kept,
            keys>>

Slots    == 1..MaxFetches
Chars    == {"c", "s"}                  \* of a command, of a secret
Lines    == UNION {[1..n -> Chars] : n \in 0..MaxLine}
Kinds    == {"typed", "debounced", "forced"}
Steps    == {"idle", "agent", "yes", "no", "boot", "remote", "context", "ai", "aborted"}
\* Which command a prediction follows: the one submitted last or one before it.
Commands == {"none", "last", "older"}

Idle     == [step |-> "idle", kind |-> "typed", partial |-> <<>>, editor |-> FALSE,
             ai |-> FALSE, found |-> FALSE, current |-> FALSE]
Fetch    == [step: Steps, kind: Kinds, partial: Lines, editor: BOOLEAN, ai: BOOLEAN,
             found: BOOLEAN, current: BOOLEAN]
NoPrefetch == [step |-> "idle", of |-> "none", current |-> FALSE]

\* A promise that has settled: what waits for it runs before any other event.
Settled(f) == \/ fetches[f].step \in {"yes", "no", "aborted"}
              \/ fetches[f].step = "boot" /\ booted
Turn       == \A f \in Slots : ~Settled(f)
Key        == Turn /\ accepting = "none" /\ keys < MaxKeys /\ keys' = keys + 1
Becomes(f, fetch) == fetches' = [fetches EXCEPT ![f] = fetch]

Sensitive == latched \/ matched                          \* isSensitiveInputActive
\* What is read from the screen, and what getPartial returns for a line buffer.
Screen           == {<<>>, <<"c">>}
Partials(buffer) == IF editor \/ buffer = <<>> THEN Screen ELSE {buffer}

\* hideAutocomplete: a new generation, and the live request is cancelled.
Dropped(fs) == [f \in Slots |-> IF fs[f].step = "ai" THEN Idle
                                ELSE [fs[f] EXCEPT !.current = FALSE]]
Hide == /\ shown' = FALSE /\ aiLoading' = FALSE /\ UNCHANGED fits
        /\ fetches' = Dropped(fetches)
\* cancelAutocompleteRequests for the predictions of the tab.
Unrequested == IF prefetch.step = "ai" THEN NoPrefetch ELSE prefetch

\* Mutated form of StartNext: predictionGeneration stays.
StartNextSameGeneration(submitted) ==
    /\ predicted' = "none"
    /\ prefetch' = IF Unrequested.of = "none" THEN NoPrefetch
                   ELSE [Unrequested EXCEPT !.of = "older"]
    /\ \E agent \in BOOLEAN :
            pending' = IF submitted /\ AI /\ ~agent THEN "last" ELSE "none"
\* startNextCommandPrediction: what was under way is for an older command now.
StartNext(submitted) ==
    /\ predicted' = "none"
    /\ prefetch' = IF Unrequested.of = "none" THEN NoPrefetch
                   ELSE [Unrequested EXCEPT !.of = "older", !.current = FALSE]
    /\ \E agent \in BOOLEAN :
            pending' = IF submitted /\ AI /\ ~agent THEN "last" ELSE "none"

---------------------------------------------------------------------------
(* fetchAutocomplete, over the fetches fs; open tells that the caller has not    *)
(* hidden the panel just before.                                                 *)

\* No completion for a secret, nor in a full-screen program without the LLM.
Gated == Sensitive \/ (editor /\ ~(AI /\ EditorAI))

FetchRefused(fs) ==
    /\ lastPartial' = <<>>
    /\ shown' = FALSE /\ aiLoading' = FALSE /\ fits' = fits
    /\ fetches' = Dropped(fs)

FetchBegins(fs, kind, partial, open) ==
    /\ \E f \in Slots, step \in {"agent", "yes", "no"} :
        /\ fs[f] = Idle /\ \A g \in 1..(f - 1) : fs[g] # Idle
        /\ fetches' = [fs EXCEPT ![f] =
              [Idle EXCEPT !.step = step, !.kind = kind, !.partial = partial,
                           !.editor = editor, !.ai = AI /\ (editor \/ completed')]]
    /\ shown' = (shown /\ open) /\ aiLoading' = (aiLoading /\ open)
    /\ UNCHANGED <<lastPartial, fits>>

\* Mutated form of Fetches: shouldTriggerForPartial is not asked.
FetchesAny(fs, kind, open) ==
    \/ Gated /\ FetchRefused(fs)
    \/ ~Gated /\ \E partial \in Partials(line') : FetchBegins(fs, kind, partial, open)
Fetches(fs, kind, open) ==
    \/ Gated /\ FetchRefused(fs)
    \/ /\ ~Gated
       /\ \E partial \in Partials(line') :
            IF Len(partial) < MinLength THEN FetchRefused(fs)
            ELSE FetchBegins(fs, kind, partial, open)

\* The agent check says yes: nothing is completed for an agent's own prompt.
AgentActive(f) ==
    /\ fetches[f].step = "yes"
    /\ pending' = "none" /\ predicted' = "none" /\ prefetch' = Unrequested
    /\ lastPartial' = <<>>
    /\ shown' = FALSE /\ aiLoading' = FALSE /\ UNCHANGED fits
    /\ fetches' = [Dropped(fetches) EXCEPT ![f] = Idle]
    /\ UNCHANGED <<Shell, Line, armed, booted, completed, accepting, kept, keys>>

\* It says no. The same answer, in the cache, serves prefetchNextCommands.
NoAgent(f) ==
    /\ fetches[f].step = "no"
    /\ Becomes(f, [fetches[f] EXCEPT !.step = "boot"])
    /\ IF fetches[f].editor \/ pending = "none" THEN UNCHANGED Next_
       ELSE /\ prefetch' = [step |-> "context", of |-> pending, current |-> TRUE]
            /\ pending' = "none"
            /\ UNCHANGED predicted
    /\ UNCHANGED <<Shell, Line, Panel, armed, booted, completed, accepting, kept, keys>>

\* getChildProcesses: one call for all who wait.
AgentChecked ==
    /\ Turn /\ \E f \in Slots : fetches[f].step = "agent"
    /\ \E answer \in {"yes", "no"} :
            fetches' = [f \in Slots |-> IF fetches[f].step # "agent" THEN fetches[f]
                                        ELSE [fetches[f] EXCEPT !.step = answer]]
    /\ UNCHANGED <<Shell, Line, Panel, armed, booted, completed, Next_, accepting, kept, keys>>

Bootstrapped ==
    /\ Turn /\ ~booted /\ booted' = TRUE
    /\ UNCHANGED <<Shell, Line, Panel, fetches, armed, completed, Next_, accepting, kept, keys>>

\* The list of f from what is known locally, over the fetches fs.
Lists(f, fs, fetch) ==
    \E match, other \in BOOLEAN :
        /\ match => predicted # "none" /\ ~fetch.editor
        /\ other => ~fetch.editor
        /\ LET found == match \/ other
               asks  == /\ fetch.kind # "typed" /\ fetch.ai
                        /\ fetch.kind = "forced" \/ fetch.editor \/ ~match
           IN  /\ shown' = (found \/ asks) /\ aiLoading' = asks
               /\ fits' = (fetch.partial = lastPartial')
               /\ fetches' = [fs EXCEPT ![f] =
                    IF asks THEN [fetch EXCEPT !.step = "context", !.found = found] ELSE Idle]

\* The bootstrap is over: only here does a fetch take its generation.
Proceed(f) ==
    /\ fetches[f].step = "boot" /\ booted
    /\ LET fetch == [fetches[f] EXCEPT !.current = TRUE]
           fs    == [g \in Slots |-> [fetches[g] EXCEPT !.current = FALSE]]
       IN  /\ lastPartial' = fetch.partial
           /\ IF RemoteHistory /\ ~fetch.editor /\ fetch.kind # "typed"
              THEN /\ fetches' = [fs EXCEPT ![f] = [fetch EXCEPT !.step = "remote"]]
                   /\ aiLoading' = FALSE /\ fits' = (fits /\ fetch.partial = lastPartial)
                   /\ UNCHANGED shown
              ELSE Lists(f, fs, fetch)
    /\ UNCHANGED <<Shell, Line, armed, booted, completed, Next_, accepting, kept, keys>>

\* refreshRemoteHistory has answered, or failed inside.
RemoteListed(f) ==
    /\ Turn /\ fetches[f].step = "remote"
    /\ IF fetches[f].current THEN UNCHANGED lastPartial /\ Lists(f, fetches, fetches[f])
       ELSE Becomes(f, Idle) /\ UNCHANGED Panel
    /\ UNCHANGED <<Shell, Line, armed, booted, completed, Next_, accepting, kept, keys>>

\* collectContext has answered. The request goes out whatever the generation, and aborts
\* the live request before it.
AsksAI(f) ==
    /\ Turn /\ fetches[f].step = "context"
    /\ fetches' = [g \in Slots |->
            CASE g = f -> [fetches[g] EXCEPT !.step = "ai"]
              [] fetches[g].step = "ai" -> [fetches[g] EXCEPT !.step = "aborted"]
              [] OTHER -> fetches[g]]
    /\ kept' = kept \cup ToSet(fetches[f].partial)
    /\ UNCHANGED <<Shell, Line, Panel, armed, booted, completed, Next_, accepting, keys>>

\* Mutated form of Heard: an answer counts whatever was asked since.
HeardAlways(f) == TRUE
\* fetchGeneration === pendingFetchGeneration, where the suggestions are taken.
Heard(f) == fetches[f].current
\* The finally block: another look at the generation.
Finish(f) == /\ aiLoading' = (aiLoading /\ ~fetches[f].current)
             /\ Becomes(f, Idle)

AIAnswers(f) ==
    /\ Turn /\ fetches[f].step = "ai"
    /\ IF Heard(f)
       THEN /\ \E more \in BOOLEAN :
                shown' = (shown /\ (fetches[f].found \/ more \/ fetches[f].kind = "forced"))
            /\ fits' = (fetches[f].partial = lastPartial)
       ELSE UNCHANGED <<shown, fits>>
    /\ Finish(f)
    /\ UNCHANGED <<Shell, Line, lastPartial, armed, booted, completed, Next_, accepting, kept,
                   keys>>

\* An error, a timeout, or the request of another fetch that took the place of this one.
AIFails(f) ==
    /\ \/ fetches[f].step = "aborted"
       \/ Turn /\ fetches[f].step \in {"context", "ai"}
    /\ shown' = (shown /\ (~Heard(f) \/ fetches[f].found))
    /\ Finish(f)
    /\ UNCHANGED <<Shell, Line, lastPartial, fits, armed, booted, completed, Next_, accepting,
                   kept, keys>>

---------------------------------------------------------------------------
(* prefetchNextCommands                                                     *)

PrefetchAsks ==
    /\ Turn /\ prefetch.step = "context"
    /\ prefetch' = IF prefetch.current THEN [prefetch EXCEPT !.step = "ai"] ELSE NoPrefetch
    /\ UNCHANGED <<Shell, Line, Panel, fetches, armed, booted, completed, pending, predicted,
                   accepting, kept, keys>>

\* The answer, and mergeMatchingPredictionsIntoCurrentAutocomplete.
PrefetchAnswers ==
    /\ Turn /\ prefetch.step = "ai"
    /\ IF ~prefetch.current THEN UNCHANGED <<predicted, Panel>>
       ELSE /\ predicted' \in {"none", prefetch.of}
            /\ \/ UNCHANGED Panel
               \/ /\ predicted' # "none" /\ ~editor /\ ~Sensitive
                  /\ \E partial \in Partials(line) :
                        partial = lastPartial /\ Len(partial) >= MinLength
                  /\ shown' = TRUE /\ fits' = TRUE
                  /\ UNCHANGED <<aiLoading, lastPartial>>
    /\ prefetch' = NoPrefetch
    /\ UNCHANGED <<Shell, Line, fetches, armed, booted, completed, pending, accepting, kept,
                   keys>>

PrefetchFails ==
    /\ Turn /\ prefetch.step # "idle"
    /\ prefetch' = NoPrefetch
    /\ UNCHANGED <<Shell, Line, Panel, fetches, armed, booted, completed, pending, predicted,
                   accepting, kept, keys>>

---------------------------------------------------------------------------
(* handleInput                                                              *)

\* Mutated form of Start: the screen alone says whether a secret is typed.
StartUnlatched == [line |-> IF matched THEN <<>> ELSE line, sensitive |-> matched,
                   was |-> matched, latched |-> FALSE, kept |-> {}, entered |-> FALSE,
                   submitted |-> FALSE]
\* isSensitive is looked at once for all the characters of an event.
Start == [line |-> IF Sensitive THEN <<>> ELSE line, sensitive |-> Sensitive,
          was |-> wasSensitive \/ Sensitive, latched |-> Sensitive, kept |-> {},
          entered |-> FALSE, submitted |-> FALSE]

\* A key, or a line end, goes to the program that asks. Its prompt is missed as long as it is
\* not among the lines looked at when a key arrives.
Answering(entered) ==
    IF entered \/ asking = "no" THEN "no"
    ELSE IF asking = "answering" \/ Sensitive THEN "answering" ELSE "missed"
\* One character. What is typed before the line end answers the prompt, if there is one; the
\* answer to a missed prompt is a command for all that is known here.
Typed(st, char) ==
    CASE char = "enter" ->
            LET record == st.line # <<>> /\ ~st.was         \* shouldRecordInputHistory
            IN  [st EXCEPT !.kept = @ \cup (IF record THEN ToSet(st.line) ELSE {}),
                           !.submitted = record, !.entered = TRUE,
                           !.line = <<>>, !.was = FALSE, !.latched = FALSE]
      [] char = "backspace" ->
            [st EXCEPT !.line = IF @ = <<>> THEN <<>> ELSE Front(@)]
      [] char = "char" ->
            IF st.sensitive THEN st
            ELSE [st EXCEPT !.line =
                     Append(@, IF Answering(st.entered) = "answering" THEN "s" ELSE "c")]

\* The characters of an event, one after the other.
AllTyped(chunk) ==
    LET st[n \in 0..Len(chunk)] == IF n = 0 THEN Start ELSE Typed(st[n - 1], chunk[n])
    IN  st[Len(chunk)]

Input(chunk) ==
    /\ Key /\ ~editor
    /\ LET st   == AllTyped(chunk)
           hide == st.sensitive \/ st.entered
       IN  /\ Len(st.line) <= MaxLine
           /\ line' = st.line /\ latched' = st.latched /\ wasSensitive' = st.was
           /\ asking' = Answering(st.entered)
           /\ kept' = kept \cup st.kept
           /\ completed' = (completed \/ st.submitted)
           /\ IF st.entered THEN StartNext(st.submitted)
              ELSE /\ prefetch' = IF st.sensitive THEN Unrequested ELSE prefetch
                   /\ UNCHANGED <<pending, predicted>>
           /\ IF st.sensitive \/ chunk = <<"enter">>
              THEN /\ IF hide THEN Hide ELSE UNCHANGED <<shown, aiLoading, fits, fetches>>
                   /\ lastPartial' = IF st.sensitive THEN <<>> ELSE lastPartial
                   /\ UNCHANGED armed
              ELSE /\ Fetches(IF hide THEN Dropped(fetches) ELSE fetches, "typed", ~hide)
                   /\ armed' = TRUE
    /\ UNCHANGED <<editor, matched, booted, accepting>>

\* An escape sequence (an arrow): the line is read from the screen, a secret's too.
InputEscape ==
    /\ Key /\ ~editor
    /\ latched' = Sensitive /\ wasSensitive' = (wasSensitive \/ Sensitive)
    /\ prefetch' = IF Sensitive THEN Unrequested ELSE prefetch
    /\ line' \in Screen
    /\ asking' = Answering(FALSE)
    /\ UNCHANGED <<editor, matched, booted, completed, pending, predicted, accepting, kept>>
    /\ IF Sensitive
       THEN Hide /\ lastPartial' = <<>> /\ armed' = (armed \/ line' # <<>>)
       ELSE IF line' = <<>> THEN Hide /\ UNCHANGED <<lastPartial, armed>>
       ELSE Fetches(fetches, "typed", TRUE) /\ armed' = TRUE

\* In a full-screen program every key only arms the debounce.
InputInEditor ==
    /\ Key /\ editor
    /\ line' = <<>>
    /\ latched' = Sensitive /\ wasSensitive' = (wasSensitive \/ Sensitive)
    /\ prefetch' = IF Sensitive THEN Unrequested ELSE prefetch
    /\ lastPartial' = IF Sensitive THEN <<>> ELSE lastPartial
    /\ \E enter \in BOOLEAN :
        /\ IF Sensitive \/ enter THEN Hide ELSE UNCHANGED <<shown, aiLoading, fits, fetches>>
        /\ armed' = (armed \/ (~Sensitive /\ ~enter /\ AI /\ EditorAI))
        /\ asking' = Answering(enter)
    /\ UNCHANGED <<editor, matched, booted, completed, pending, predicted, accepting, kept>>

---------------------------------------------------------------------------
(* Hotkeys, the panel, the debounce, and the terminal                       *)

DebounceFires ==
    /\ Turn /\ armed /\ armed' = FALSE
    /\ UNCHANGED <<Shell, Line, booted, completed, Next_, accepting, kept, keys>>
    /\ Fetches(fetches, "debounced", TRUE)

\* triggerAutocomplete looks whether a secret is typed, then waits for the bootstrap, and
\* fetches: a hotkey that is not refused counts from there.
Trigger ==
    /\ Key
    /\ UNCHANGED <<Shell, Line, armed, booted, completed, Next_, accepting, kept>>
    /\ \/ Sensitive /\ Hide /\ UNCHANGED lastPartial
       \/ booted /\ Fetches(fetches, "forced", TRUE)

Dismiss ==
    /\ Key /\ shown /\ Hide
    /\ UNCHANGED <<Shell, Line, lastPartial, armed, booted, completed, Next_, accepting, kept>>

\* acceptSuggestion of a command, or of a piece of text in a full-screen program.
Inserted(execute) ==
    /\ Hide
    /\ latched' = (latched /\ ~execute) /\ wasSensitive' = (wasSensitive /\ ~execute)
    /\ asking' = IF execute THEN "no" ELSE asking
    /\ completed' = (completed \/ execute)
    /\ IF execute THEN line' = <<>> /\ StartNext(TRUE) ELSE line' = <<"c">> /\ UNCHANGED Next_
    /\ UNCHANGED <<editor, matched, lastPartial, armed, booted, kept>>

Accept ==
    /\ Key /\ shown
    /\ IF editor
       THEN Hide /\ UNCHANGED <<Shell, Line, lastPartial, armed, booted, completed, Next_, kept,
                                accepting>>
       ELSE \E how \in {"insert", "execute"} :
            \/ Inserted(how = "execute") /\ UNCHANGED accepting
            \/ /\ accepting' = how                          \* ensureCommandAllowed asks
               /\ UNCHANGED <<Shell, Line, Panel, fetches, armed, booted, completed, Next_, kept>>

DialogAnswered ==
    /\ Turn /\ accepting # "none" /\ accepting' = "none" /\ UNCHANGED keys
    /\ \/ Inserted(accepting = "execute")
       \/ UNCHANGED <<Shell, Line, Panel, fetches, armed, booted, completed, Next_, kept>>

SessionChanges ==
    /\ Turn /\ keys < MaxKeys /\ keys' = keys + 1
    /\ line' = <<>> /\ latched' = FALSE /\ wasSensitive' = FALSE /\ lastPartial' = <<>>
    /\ Hide
    /\ asking' = "no" /\ completed' = FALSE
    /\ pending' = "none" /\ predicted' = "none"
    /\ prefetch' = [Unrequested EXCEPT !.current = FALSE]
    /\ UNCHANGED <<editor, matched, armed, booted, accepting, kept>>

ScreenSwitches ==
    /\ Turn /\ keys < MaxKeys /\ keys' = keys + 1
    /\ editor' = ~editor
    /\ line' = <<>> /\ lastPartial' = <<>> /\ Hide
    /\ UNCHANGED <<asking, matched, latched, wasSensitive, armed, booted, completed, Next_,
                   accepting, kept>>

\* A program asks for a secret, gives up, or writes something else: the prompt leaves the
\* current and the last recent lines, or comes back, at any time.
ShellWrites ==
    /\ Turn
    /\ \/ asking = "no" /\ asking' = "asked" /\ matched' = TRUE
       \/ asking # "no" /\ asking' = "no" /\ UNCHANGED matched
       \/ UNCHANGED asking /\ matched' = ~matched
    /\ UNCHANGED <<editor, Line, Panel, fetches, armed, booted, completed, Next_, accepting,
                   kept, keys>>

Init ==
    /\ editor = FALSE /\ asking = "no" /\ matched = FALSE
    /\ line = <<>> /\ latched = FALSE /\ wasSensitive = FALSE
    /\ shown = FALSE /\ aiLoading = FALSE /\ lastPartial = <<>> /\ fits = FALSE
    /\ fetches = [f \in Slots |-> Idle] /\ armed = FALSE /\ booted = FALSE
    /\ completed = FALSE /\ pending = "none" /\ predicted = "none" /\ prefetch = NoPrefetch
    /\ accepting = "none" /\ kept = {} /\ keys = 0

FetchSteps(f) == \/ AgentActive(f) \/ NoAgent(f) \/ Proceed(f) \/ RemoteListed(f)
                 \/ AsksAI(f) \/ AIAnswers(f) \/ AIFails(f)

Next ==
    \/ \E f \in Slots : FetchSteps(f)
    \/ AgentChecked \/ Bootstrapped \/ PrefetchAsks \/ PrefetchAnswers \/ PrefetchFails
    \/ \E chunk \in Chunks : Input(chunk)
    \/ InputEscape \/ InputInEditor \/ DebounceFires \/ Trigger \/ Dismiss
    \/ Accept \/ DialogAnswered \/ SessionChanges \/ ScreenSwitches \/ ShellWrites

Spec == Init /\ [][Next]_vars

---------------------------------------------------------------------------

\* Every variable has its type, and the text that a fetch has been started with is long enough.
TypeOK ==
    /\ {editor, matched, latched, wasSensitive, shown, aiLoading, fits, armed, booted,
        completed} \subseteq BOOLEAN
    /\ asking \in {"no", "asked", "answering", "missed"}
    /\ {line, lastPartial} \subseteq Lines
    /\ fetches \in [Slots -> Fetch]
    /\ \A f \in Slots : fetches[f] # Idle => Len(fetches[f].partial) >= MinLength
    /\ {pending, predicted} \subseteq Commands
    /\ prefetch \in [step: {"idle", "context", "ai"}, of: Commands, current: BOOLEAN]
    /\ accepting \in {"none", "insert", "execute"}
    /\ kept \subseteq Chars /\ keys \in 0..MaxKeys

\* What is typed in answer to a prompt for a secret, from the first key on at which the prompt is
\* among the lines looked at, is never put into the history and never sent to the LLM, wherever the
\* prompt scrolls then (the gate of docs/backlog-plan.md 142, sensitiveInputLatched). An answer
\* whose prompt has scrolled away before its first key is not covered: the gate misses it.
SecretsStayLocal == "s" \notin kept

\* The panel is that of the newest fetch: it shows that it waits exactly as long as this one
\* waits for the LLM (a late end of an older one must not stop it, nothing must leave it on), and
\* the suggestions on the screen are for the text this one was made for, unless it still waits
\* for the history of the host.
PanelIsOfNewestFetch ==
    /\ aiLoading <=> \E f \in Slots : /\ fetches[f].current
                                      /\ fetches[f].step \in {"context", "ai", "aborted"}
    /\ shown => \/ fits
                \/ \E f \in Slots : fetches[f].current /\ fetches[f].step = "remote"

\* A prediction is offered after the command it was asked for, never after a later one,
\* however long the LLM took.
PredictionsFollowLastCommand == predicted # "older"

=============================================================================
