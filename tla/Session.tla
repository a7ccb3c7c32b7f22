------------------------------- MODULE Session -------------------------------
(***************************************************************************)
(* The page of the playground: Playground.Session, RunButtons and          *)
(* OutputIndicator of                                                      *)
(* src/compiler/crystal/tools/playground/public/session.js.  Every handler *)
(* of an event is one action; what the page shows carries the execution,   *)
(* a tag and a source, that produced it.                                   *)
(***************************************************************************)
EXTENDS PlaygroundSocket

CONSTANTS
  Setups,      \* the pages there are, and how much the user does there
  CodeLines,   \* the lines of a text that are not blank
  MaxInputs    \* bound on what the user does: edits, runs and stops

VARIABLES
  editor,      \* this.editor.getValue()
  page,        \* debounce: getRunDebounce() is finite; autorun: the option of
               \* bindRunButtons; demo: the page has other sessions; inputs:
               \* bound on what the user does there
  connectLostShown,  \* Playground.connectLostShown, of all sessions of the page
  button,      \* RunButtons: "disabled", "play" or "stop"
  runTag,      \* this.runTag
  runTimeout,  \* the timer of this._runTimeout is pending
  stdout,      \* this.stdoutRawContent
  indicator,   \* this.outputIndicator
  inspectors,  \* the messages of this.inspectors, by line
  errors,      \* this.currentErrors
  inputs,      \* what the user did so far
  ran          \* history: the last execution that was asked for

displayVars == <<stdout, indicator, inspectors, errors>>
runVars == <<runTag, ran, button, toServer, displayVars>>
pageVars == <<editor, page, connectLostShown, button, runTag, runTimeout,
              displayVars, inputs, ran>>
sessionVars == <<pageVars, ws, toServer>>

Line == UNION {1..LastLine[s] : s \in Source}

ASSUME SessionAssumption ==
  /\ CodeLines \in [Source -> SUBSET Nat]
  /\ \A s \in Source : CodeLines[s] \subseteq 1..LastLine[s]
  /\ MaxInputs \in Nat
  /\ Setups \subseteq [debounce : BOOLEAN, autorun : BOOLEAN, demo : BOOLEAN,
                       inputs : 0..MaxInputs]

RunRequest(e) == [type |-> "run", tag |-> e.tag, source |-> e.source]

Button == {"disabled", "play", "stop"}

-----------------------------------------------------------------------------
(* OutputIndicator: its colours, isError, whether the timer blinkTimeout   *)
(* is pending, and how many earlier timers, no longer named, are.          *)
turnOnWithBlink(o) ==
  [o EXCEPT !.colours = {"grey"}, !.blink = TRUE,
            !.earlier = IF o.blink THEN @ + 1 ELSE @]

turnOff(o) == [o EXCEPT !.colours = {"grey"}, !.isError = FALSE, !.blink = FALSE]

turnError(o) == [o EXCEPT !.colours = {"red"}, !.isError = TRUE, !.blink = FALSE]

(* A faulty variant of blinked: the timer does not look at isError.        *)
blinkedAnyway(o) == (o.colours \ {"grey"}) \cup {"teal"}

blinked(o) == IF o.isError THEN o.colours ELSE (o.colours \ {"grey"}) \cup {"teal"}

(* A timer of 200ms expires, the oldest first.                             *)
Blink ==
  /\ ws # "gone"
  /\ indicator.blink \/ indicator.earlier > 0
  /\ indicator' = IF indicator.earlier > 0
                  THEN [indicator EXCEPT !.earlier = @ - 1, !.colours = blinked(indicator)]
                  ELSE [indicator EXCEPT !.blink = FALSE, !.colours = blinked(indicator)]
  /\ UNCHANGED <<editor, page, ws, connectLostShown, button, runTag, runTimeout,
                 stdout, inspectors, errors, toServer, inputs, ran>>

-----------------------------------------------------------------------------
_clearInspectors == inspectors' = [l \in Line |-> <<>>]

_hideEditorErrors == errors' = {}

_clearStdout == stdout' = <<>> /\ indicator' = turnOff(indicator)

_appendStdout(m) == stdout' = Append(stdout, m)

(* run() with the buttons shown so.  A socket that is connecting raises    *)
(* when it is sent to, before onRun.                                       *)
run(readyState, shown) ==
  IF connectLostShown
  THEN button' = shown /\ UNCHANGED <<runTag, ran, toServer, displayVars>>
  ELSE /\ runTag' = runTag + 1
       /\ _clearInspectors /\ _hideEditorErrors /\ _clearStdout
       /\ IF readyState = "connecting"
          THEN button' = shown /\ UNCHANGED <<ran, toServer>>
          ELSE /\ ran' = [tag |-> runTag + 1, source |-> editor]
               /\ toServer' = IF readyState = "open"
                              THEN Append(toServer, RunRequest(ran')) ELSE toServer
               /\ button' = "stop"

Input == ws # "gone" /\ inputs < page.inputs /\ inputs' = inputs + 1

(* At the head of run(), where a lost connection skips it.                 *)
_removeScheduledRun == runTimeout' = (runTimeout /\ connectLostShown)

(* Only a debounce that is a number is waited for.                         *)
_scheduleRun == runTimeout' = page.debounce

(* The play button, disabled or not, and the key runCode.                  *)
Play ==
  /\ Input
  /\ run(ws, button)
  /\ _removeScheduledRun
  /\ UNCHANGED <<editor, page, ws, connectLostShown>>

(* The timer of _scheduleRun.                                              *)
RunTimeout ==
  /\ ws # "gone" /\ runTimeout
  /\ run(ws, button)
  /\ runTimeout' = FALSE
  /\ UNCHANGED <<editor, page, ws, connectLostShown, inputs>>

(* A faulty variant of Edit: the run is not scheduled.                     *)
EditUnscheduled(s) ==
  /\ Input
  /\ s # editor
  /\ editor' = s
  /\ _hideEditorErrors
  /\ UNCHANGED <<page, ws, connectLostShown, button, runTag, ran, runTimeout,
                 stdout, indicator, inspectors, toServer>>

(* The editor's change event, by a stroke or setSource; saving the code is *)
(* in Pages.                                                               *)
Edit(s) ==
  /\ Input
  /\ s # editor
  /\ editor' = s
  /\ _hideEditorErrors
  /\ _scheduleRun
  /\ UNCHANGED <<page, ws, connectLostShown, button, runTag, ran,
                 stdout, indicator, inspectors, toServer>>

(* A click on the editor, or below it.                                     *)
ClickEditor ==
  /\ ws # "gone" /\ errors # {}
  /\ _hideEditorErrors
  /\ UNCHANGED <<editor, page, ws, connectLostShown, button, runTag, runTimeout,
                 stdout, indicator, inspectors, toServer, inputs, ran>>

stop == clientSend([type |-> "stop", tag |-> runTag])

ClickStop ==
  /\ Input
  /\ button = "stop"
  /\ stop
  /\ UNCHANGED <<editor, page, ws, connectLostShown, button, runTag, ran,
                 runTimeout, displayVars>>

(* Nothing of the server reaches a page that was left.                     *)
Unload ==
  /\ ws # "gone"
  /\ ws' = "gone"
  /\ stop
  /\ toClient' = <<>>
  /\ UNCHANGED <<editor, page, connectLostShown, button, runTag, ran,
                 runTimeout, displayVars, inputs>>

-----------------------------------------------------------------------------
(* connect(): onopen is _triggerReady, which shows the play button and may *)
(* run at once.                                                            *)
Opened ==
  /\ ws = "connecting"
  /\ ws' = "open"
  /\ IF page.autorun THEN run("open", "play") /\ _removeScheduledRun
                ELSE button' = "play" /\ UNCHANGED <<runTag, ran, toServer, displayVars, runTimeout>>
  /\ UNCHANGED <<editor, page, connectLostShown, inputs>>

(* onclose.                                                                *)
Closed ==
  /\ ws = "closing"
  /\ ws' = "closed"
  /\ connectLostShown' = TRUE
  /\ button' = "disabled"
  /\ UNCHANGED <<editor, page, runTag, runTimeout, toServer, inputs, ran, displayVars>>

(* Another session of the page has lost its connection.                    *)
OtherLost ==
  /\ ws # "gone" /\ page.demo /\ ~connectLostShown
  /\ connectLostShown' = TRUE
  /\ UNCHANGED <<editor, page, ws, runTimeout, inputs, runVars>>

-----------------------------------------------------------------------------
(* A faulty variant of Current: the tag is not compared.                   *)
CurrentAny(m, type) == m.type = type

(* onmessage: a message of an earlier execution is dropped.                *)
Current(m, type) == m.tag = runTag /\ m.type = type

Discard(m) ==
  /\ m.tag # runTag \/ m.type = "run"
  /\ UNCHANGED <<button, displayVars>>

Output(m) ==
  /\ Current(m, "output")
  /\ _appendStdout(m)
  /\ indicator' = turnOnWithBlink(indicator)
  /\ UNCHANGED <<button, inspectors, errors>>

Value(m) ==
  /\ Current(m, "value")
  /\ inspectors' = [inspectors EXCEPT ![m.line] = Append(@, m)]
  /\ UNCHANGED <<button, stdout, indicator, errors>>

ErrorAt(l, m) == [line |-> l, by |-> m.by]

(* renderConsoleText raises when there is nothing to render.               *)
Renders(m) == m.text

(* The column is that of the first character of the line, and there is     *)
(* none, and the handler raises, if the line is gone or has become blank.  *)
RuntimeException(m) ==
  /\ Current(m, "runtime-exception")
  /\ errors' = IF m.line \in CodeLines[editor] /\ Renders(m) THEN errors \cup {ErrorAt(m.line, m)}
                                                         ELSE errors
  /\ UNCHANGED <<button, stdout, indicator, inspectors>>

Exit(m) ==
  /\ Current(m, "exit")
  /\ button' = "play"
  /\ IF m.status # 0 THEN _appendStdout(m) /\ indicator' = turnError(indicator)
                     ELSE UNCHANGED <<stdout, indicator>>
  /\ UNCHANGED <<inspectors, errors>>

(* A faulty variant of Bounded: the line is taken as it is.                *)
BoundedNot(l) == l

(* The lines of the program that the payload names, or else the last one; *)
(* a line that is no more is taken for the last.                           *)
Bounded(l) == IF l <= LastLine[editor] THEN l ELSE LastLine[editor]

CompileException(m) ==
  /\ Current(m, "exception")
  /\ button' = "play"
  /\ errors' = errors \cup {ErrorAt(l, m) : l \in IF m.payload THEN {Bounded(k) : k \in m.lines}
                                                  ELSE {LastLine[editor]}}
  /\ UNCHANGED <<stdout, indicator, inspectors>>

(* A faulty variant of Bug: the run is not finished.                       *)
BugUnfinished(m) == Current(m, "bug") /\ UNCHANGED <<button, displayVars>>

(* A dialog with the bug is shown.                                         *)
Bug(m) ==
  /\ Current(m, "bug")
  /\ button' = "play"
  /\ UNCHANGED displayVars

onmessage(m) ==
  /\ ws \in {"open", "closing"}
  /\ Discard(m) \/ Output(m) \/ Value(m) \/ RuntimeException(m)
     \/ Exit(m) \/ CompileException(m) \/ Bug(m)
  /\ UNCHANGED <<editor, page, ws, connectLostShown, runTag, runTimeout,
                 toServer, inputs, ran>>

-----------------------------------------------------------------------------
SessionInit ==
  /\ editor \in Source
  /\ page \in Setups
  /\ ws = "connecting" /\ connectLostShown = FALSE
  /\ button = "disabled"
  /\ runTag = 0 /\ runTimeout = FALSE
  /\ stdout = <<>> /\ errors = {}
  /\ inspectors = [l \in Line |-> <<>>]
  /\ indicator = [colours |-> {"grey"}, isError |-> FALSE, blink |-> FALSE, earlier |-> 0]
  /\ toServer = <<>> /\ toClient = <<>> /\ inputs = 0
  /\ ran = [tag |-> 0, source |-> editor]

(* What the user does, but for leaving the page.                           *)
UserStep ==
  \/ Play \/ ClickStop \/ ClickEditor
  \/ \E s \in Source : Edit(s)

(* What the browser does, but for the messages.                            *)
BrowserStep == Blink \/ RunTimeout \/ Opened
=============================================================================
