------------------------------ MODULE Playground ------------------------------
(***************************************************************************)
(* A page of the playground, its server and the programs it runs, over one *)
(* websocket: Session and PlaygroundServer together.                       *)
(***************************************************************************)
EXTENDS Session, PlaygroundServer

playgroundVars == <<sessionVars, toClient, serverVars>>

(* The next message of the server reaches the page.                        *)
Deliver ==
  /\ toClient # <<>>
  /\ onmessage(Head(toClient))
  /\ toClient' = Tail(toClient)
  /\ UNCHANGED serverVars

(* onclose comes after the messages that came before.                      *)
Disconnect == toClient = <<>> /\ Closed /\ UNCHANGED <<toClient, serverVars>>

Leave == Unload /\ UNCHANGED serverVars

PageStep == (UserStep \/ BrowserStep \/ OtherLost) /\ UNCHANGED <<toClient, serverVars>>

ConnectionLost == Lose /\ UNCHANGED <<pageVars, serverVars>>

ServerSide == (ServerStep \/ ProgramStep) /\ UNCHANGED <<ws, pageVars>>

PlaygroundInit == SessionInit /\ ServerInit

PlaygroundNext == PageStep \/ Leave \/ Deliver \/ Disconnect \/ ConnectionLost \/ ServerSide

PlaygroundSpec == PlaygroundInit /\ [][PlaygroundNext]_playgroundVars

(* Timers expire, messages arrive, the server works and a program that is  *)
(* killed ends.  Nobody has to type, a program need not end, and the       *)
(* connection need not be lost.                                            *)
SystemStep ==
  \/ BrowserStep /\ UNCHANGED <<toClient, serverVars>>
  \/ Deliver \/ Disconnect
  \/ (ServerStep \/ KilledEnds) /\ UNCHANGED <<ws, pageVars>>

FairPlaygroundSpec == PlaygroundSpec /\ WF_playgroundVars(SystemStep)

-----------------------------------------------------------------------------
(* Every variable keeps its type; errors are shown on lines that there are *)
(* (Math.min in onmessage, "let's make sure the error is displayed").      *)
PlaygroundTypeOK ==
  /\ editor \in Source /\ page \in Setups
  /\ ws \in {"connecting", "open", "closing", "closed", "gone"}
  /\ connectLostShown \in BOOLEAN /\ button \in Button
  /\ runTag \in Nat /\ runTimeout \in BOOLEAN /\ inputs \in 0..MaxInputs
  /\ ran \in Execution /\ tag \in Nat
  /\ compiling \in Execution \cup {None} /\ process \in Execution \cup {None}
  /\ DOMAIN procs \subseteq Execution /\ serving \in BOOLEAN
  /\ \A i \in DOMAIN writers : writers[i].left # <<>>
  /\ errors \subseteq [line : 1..LastLine[editor], by : Execution]

(* Nothing stale is shown (the tags of onmessage, run and the agent's      *)
(* handler): all output, values and errors on the page come from the       *)
(* program that was asked for last, and from the text it was asked with,   *)
(* whatever earlier programs still do.                                     *)
FreshDisplay ==
  LET Fresh(e) == e = ran /\ e.tag = runTag
  IN  /\ \A i \in DOMAIN stdout : Fresh(stdout[i].by)
      /\ \A x \in errors : Fresh(x.by)
      /\ \A l \in Line : \A i \in DOMAIN inspectors[l] : Fresh(inspectors[l][i].by)

Alive(e) == e \in DOMAIN procs /\ procs[e].state = "running"

Finishes(m, e) == m.tag = e.tag /\ m.type \in {"exit", "exception", "bug"}

(* The execution e was asked for, and the server has not sent its end.     *)
Unfinished(e) ==
  \/ \E i \in DOMAIN toServer : toServer[i].type = "run" /\ toServer[i].tag = e.tag
  \/ compiling = e
  \/ e \in DOMAIN procs /\ procs[e].state # "reaped"

(* The end of e is on its way, though a fiber may have to wait with it.    *)
Ending(e) ==
  \/ \E i \in DOMAIN toClient : Finishes(toClient[i], e)
  \/ \E i \in DOMAIN writers :
       \E j \in DOMAIN writers[i].left : Finishes(writers[i].left[j], e)

(* The buttons tell the truth (_triggerRun, _triggerFinish): stop is shown *)
(* as long as the execution asked for last is not finished, and only while *)
(* it or its end is on the way: no run is left without an answer, though   *)
(* the fibers that write to the socket send one another's messages.        *)
ButtonsAgree ==
  ws = "open" /\ ran.tag > 0 =>
    /\ Unfinished(ran) => button = "stop"
    /\ button = "stop" => Unfinished(ran) \/ Ending(ran)

Failed == \E i \in DOMAIN stdout : stdout[i].type = "exit"

(* A failed program does not look as if it ran (turnError against the      *)
(* blink timers and late output): once its exit status is shown, no timer  *)
(* lights the indicator up again until the next run, and it is red unless  *)
(* output came after the status, which turns it grey.                      *)
FailureShown ==
  ws # "gone" /\ Failed =>
    /\ "teal" \notin indicator.colours
    /\ stdout[Len(stdout)].type = "exit" => indicator.colours = {"red"}

(* No program is forgotten (stop_process in execute and stop): a process   *)
(* that was not sent the signal is the one that stop would send it to.     *)
NoStrayProcess == \A e \in DOMAIN procs : Alive(e) /\ ~procs[e].killed => process = e

(* "When you stop typing ... the code will be compiled and executed" (the  *)
(* about page): with a debounce, a page that runs its code when it opens   *)
(* ends up with its last text run, unless the connection is lost or the    *)
(* page left.                                                              *)
Converges ==
  page.debounce /\ page.autorun ~>
    []( \/ ws # "open" \/ connectLostShown
        \/ /\ ran = [tag |-> runTag, source |-> editor]
           /\ Unfinished(ran) \/ Ending(ran) => Alive(ran) )

StopSent(t) == \E i \in DOMAIN toServer : toServer[i] = [type |-> "stop", tag |-> t]

(* "you can stop the long running process with the stop button" (the about *)
(* page): whoever presses it gets the play button back, though the program *)
(* itself would run for ever.                                              *)
StopAnswers ==
  \A t \in 1..MaxInputs + 1 :
    StopSent(t) /\ ws = "open" ~> ws # "open" \/ runTag > t \/ button = "play"

(* A page that is left while connected leaves nothing running (the unload  *)
(* handler, with stop on the server), though a run may be on its way,      *)
(* unless a failed write ends the server's fiber before it reads the stop. *)
NothingLeftRunning ==
  ws = "gone" /\ toServer # <<>> /\ toServer[Len(toServer)].type = "stop"
    ~> ~serving \/ ~\E e \in DOMAIN procs : Alive(e)
=============================================================================
