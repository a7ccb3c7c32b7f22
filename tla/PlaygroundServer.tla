--------------------------- MODULE PlaygroundServer ---------------------------
(***************************************************************************)
(* The server's side of a session of the playground: Session and the two   *)
(* websocket handlers of src/compiler/crystal/tools/playground/server.cr,  *)
(* with the agent of agent.cr inside the programs that it runs.            *)
(***************************************************************************)
EXTENDS PlaygroundSocket

CONSTANTS
  Outcomes,    \* what may become of a text: "runs", "parse error", "compile error", "bug"
  ErrorLine,   \* the line a compile error is reported on
  Scripts,     \* what a program of the text may do: output is how often it prints,
               \* agent the instrumented lines it completes or raises in, in order
  None         \* no program

VARIABLES
  tag,         \* @tag
  compiling,   \* the execution that Session#run compiles, or None
  process,     \* the execution of @process, or None
  procs,       \* the processes ever started, by their execution
  serving      \* the fiber of the client's socket has not ended

runningVars == <<tag, compiling, process, procs>>
serverVars == <<outBuffer, writers, runningVars, serving>>

(* What Agent#i may report of a program.                                   *)
Event(s) ==
  [kind : {"value", "runtime-exception"}, line : 1..LastLine[s], text : BOOLEAN]

ASSUME ServerAssumption ==
  /\ None \notin Execution
  /\ Outcomes \in [Source -> SUBSET {"runs", "parse error", "compile error", "bug"}]
  /\ ErrorLine \in [Source -> Nat \ {0}]
  /\ \A s \in Source : \A script \in Scripts[s] :
       script.output \in Nat /\ script.agent \in Seq(Event(s))

-----------------------------------------------------------------------------
(* The messages.                                                           *)
RunMessage(e) == [type |-> "run", tag |-> e.tag, by |-> e]
OutputMessage(e) == [type |-> "output", tag |-> e.tag, by |-> e]
ExitMessage(e, status) == [type |-> "exit", tag |-> e.tag, by |-> e, status |-> status]
ExceptionMessage(e, payload) ==
  [type |-> "exception", tag |-> e.tag, by |-> e, payload |-> payload,
   lines |-> {ErrorLine[e.source]}]
BugMessage(e) == [type |-> "bug", tag |-> e.tag, by |-> e]
AgentMessage(e, event) ==
  [type |-> event.kind, tag |-> e.tag, by |-> e, line |-> event.line, text |-> event.text]

-----------------------------------------------------------------------------
(* The fibers that send: that of the client's socket, and for each process *)
(* those of its two pipes, the one that waits for it and its agent's.      *)
Client == [does |-> "client", of |-> None]
Pipes(e) == [does |-> "output", of |-> e]
Waiter(e) == [does |-> "exit", of |-> e]
Agent(e) == [does |-> "agent", of |-> e]

(* A write to a connection that is gone raises, or goes nowhere.  send     *)
(* rescues IO::Error, which the Errno of a failed write is not; nobody     *)
(* else misses the fiber that it ends.                                     *)
FailsOrNot(fiber) == serving' \in IF fiber = Client THEN {serving, FALSE} ELSE {serving}

(* Session#send                                                            *)
send(fiber, m) ==
  \/ ws = "open" /\ write(fiber, m) /\ UNCHANGED serving
  \/ ws # "open" /\ FailsOrNot(fiber) /\ UNCHANGED outVars

SendsNothing == UNCHANGED <<outVars, serving>>

(* A fiber that waited to write goes on.                                   *)
Continue ==
  /\ \/ ws = "open" /\ GoOn /\ UNCHANGED serving
     \/ /\ ws # "open" /\ writers # <<>>
        /\ writers' = Tail(writers)
        /\ FailsOrNot(Head(writers).fiber)
        /\ UNCHANGED <<toClient, outBuffer>>
  /\ UNCHANGED <<toServer, runningVars>>

(* The fiber of the client's socket takes its messages one by one.         *)
Receives(type) ==
  /\ serving /\ Waiting(Client) = 0 /\ compiling = None
  /\ toServer # <<>> /\ Head(toServer).type = type

(* Session#run as far as the parser.                                       *)
ReceiveRun ==
  /\ Receives("run")
  /\ LET e == [tag |-> Head(toServer).tag, source |-> Head(toServer).source]
     IN  /\ tag' = e.tag
         /\ \/ /\ "parse error" \in Outcomes[e.source]
               /\ send(Client, ExceptionMessage(e, TRUE)) /\ UNCHANGED compiling
            \/ /\ Outcomes[e.source] # {"parse error"}
               /\ compiling' = e /\ SendsNothing
  /\ toServer' = Tail(toServer)
  /\ UNCHANGED <<process, procs>>

(* stop_process.                                                           *)
Killed == [e \in DOMAIN procs |->
             IF e = process THEN [procs[e] EXCEPT !.killed = TRUE] ELSE procs[e]]

(* A faulty variant of ReceiveStop: only a program with the tag that is    *)
(* stopped is killed.                                                      *)
ReceiveStopOfTag ==
  /\ Receives("stop")
  /\ IF process # None /\ process.tag = Head(toServer).tag
     THEN process' = None /\ procs' = Killed ELSE UNCHANGED <<process, procs>>
  /\ toServer' = Tail(toServer)
  /\ SendsNothing
  /\ UNCHANGED <<tag, compiling>>

(* A faulty variant of ReceiveStop: the program is forgotten, not killed.  *)
ReceiveStopForgets ==
  /\ Receives("stop")
  /\ process' = None
  /\ toServer' = Tail(toServer)
  /\ SendsNothing
  /\ UNCHANGED <<tag, compiling, procs>>

ReceiveStop ==
  /\ Receives("stop")
  /\ process' = None
  /\ procs' = Killed
  /\ toServer' = Tail(toServer)
  /\ SendsNothing
  /\ UNCHANGED <<tag, compiling>>

Compiles(outcome) == compiling # None /\ outcome \in Outcomes[compiling.source]

(* The compiler has failed on the instrumented and on the original text;   *)
(* an error of the compiler itself has no payload.                         *)
CompileFails ==
  /\ Compiles("compile error")
  /\ \E payload \in BOOLEAN : send(Client, ExceptionMessage(compiling, payload))
  /\ compiling' = None
  /\ UNCHANGED <<toServer, tag, process, procs>>

(* It has failed on the instrumented text only.                            *)
InstrumentationFails ==
  /\ Compiles("bug")
  /\ send(Client, BugMessage(compiling))
  /\ compiling' = None
  /\ UNCHANGED <<toServer, tag, process, procs>>

(* What the server has not read yet of a program is in output and agent,  *)
(* whether the program did it already or not.                              *)
NewProcess(script) ==
  [state |-> "running", killed |-> FALSE, status |-> 0,
   output |-> script.output, agent |-> script.agent, send_runtime |-> TRUE]

(* A faulty variant of Execute: the earlier program is not stopped.        *)
ExecuteBeside ==
  /\ Compiles("runs")
  /\ \E script \in Scripts[compiling.source] :
       procs' = [e \in DOMAIN procs \cup {compiling} |->
                   IF e = compiling THEN NewProcess(script) ELSE procs[e]]
  /\ process' = compiling
  /\ send(Client, RunMessage(compiling))
  /\ compiling' = None
  /\ UNCHANGED <<toServer, tag>>

(* execute, with its stop_process, and the message "run".                  *)
Execute ==
  /\ Compiles("runs")
  /\ \E script \in Scripts[compiling.source] :
       procs' = [e \in DOMAIN procs \cup {compiling} |->
                   IF e = compiling THEN NewProcess(script) ELSE Killed[e]]
  /\ process' = compiling
  /\ send(Client, RunMessage(compiling))
  /\ compiling' = None
  /\ UNCHANGED <<toServer, tag>>

-----------------------------------------------------------------------------
(* The program ends, by itself or by the signal: anything but the status 0.*)
End(e, status) ==
  /\ procs[e].state = "running"
  /\ procs' = [procs EXCEPT ![e].state = "ended", ![e].status = status]
  /\ SendsNothing
  /\ UNCHANGED <<toServer, tag, compiling, process>>

(* bind_io_as_output, for either of the process's pipes: what was read is  *)
(* sent, however long that takes.                                          *)
ReadOutput(e) ==
  /\ procs[e].output > 0 /\ Waiting(Pipes(e)) < 2
  /\ procs' = [procs EXCEPT ![e].output = @ - 1]
  /\ send(Pipes(e), OutputMessage(e))
  /\ UNCHANGED <<toServer, tag, compiling, process>>

(* The fiber in Process#wait, which closes the pipes; then the exit.  What *)
(* the agent has sent, any part of what there was, is still in its socket. *)
Reap(e) ==
  /\ procs[e].state = "ended"
  /\ \E sent \in 0..Len(procs[e].agent) :
       procs' = [procs EXCEPT ![e].state = "reaped", ![e].output = 0, ![e].killed = FALSE,
                              ![e].status = 0, ![e].agent = SubSeq(@, 1, sent)]
  /\ send(Waiter(e), ExitMessage(e, procs[e].status))
  /\ UNCHANGED <<toServer, tag, compiling, process>>

(* Agent#i, which of several exceptions only reports the first, that of    *)
(* the innermost line; and the fiber of the agent's socket, which forwards *)
(* what is of the session's tag.                                           *)
Forward(e) ==
  /\ procs[e].agent # <<>> /\ Waiting(Agent(e)) = 0
  /\ LET event == Head(procs[e].agent)
         raised == event.kind = "runtime-exception"
     IN  /\ procs' = [procs EXCEPT ![e].agent = Tail(@), ![e].send_runtime = @ /\ ~raised]
         /\ IF (raised => procs[e].send_runtime) /\ e.tag = tag
            THEN send(Agent(e), AgentMessage(e, event)) ELSE SendsNothing
  /\ UNCHANGED <<toServer, tag, compiling, process>>

-----------------------------------------------------------------------------
ServerInit ==
  /\ tag = 0
  /\ compiling = None /\ process = None
  /\ procs = <<>>
  /\ outBuffer = <<>> /\ writers = <<>> /\ serving = TRUE

(* What the programs do.                                                   *)
ProgramStep == \E e \in DOMAIN procs : \E status \in {0, 1} : End(e, status)

(* What the server does.                                                   *)
ServerStep ==
  \/ ReceiveRun \/ ReceiveStop
  \/ CompileFails \/ InstrumentationFails \/ Execute \/ Continue
  \/ \E e \in DOMAIN procs : ReadOutput(e) \/ Reap(e) \/ Forward(e)

(* A program that was sent the signal ends.                                *)
KilledEnds == \E e \in DOMAIN procs : procs[e].killed /\ \E status \in {0, 1} : End(e, status)
=============================================================================
