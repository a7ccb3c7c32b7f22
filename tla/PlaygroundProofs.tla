--------------------------- MODULE PlaygroundProofs ---------------------------
(***************************************************************************)
(* For every set of texts, whatever they do, and however the fibers of the *)
(* server wait for one another in the buffer of the socket: the page shows *)
(* nothing but what its last run produced, its buttons tell whether that   *)
(* run is under way, its indicator does not light up again once that run   *)
(* has failed, and the server forgets no program.                          *)
(***************************************************************************)
EXTENDS Playground, TLAPS

Request == [type : {"run"}, tag : Nat, source : Source] \cup [type : {"stop"}, tag : Nat]

(* The messages by their fields; Session and PlaygroundServer only differ  *)
(* in what they call them.                                                 *)
PlainMessage == [type : {"run", "output", "bug"}, tag : Nat, by : Execution]
EndMessage == [type : {"exit"}, tag : Nat, by : Execution, status : {0, 1}]
ErrorMessage ==
  [type : {"exception"}, tag : Nat, by : Execution, payload : BOOLEAN,
   lines : SUBSET (Nat \ {0})]
LineMessage ==
  [type : {"value", "runtime-exception"}, tag : Nat, by : Execution,
   line : Line, text : BOOLEAN]
Message == PlainMessage \cup EndMessage \cup ErrorMessage \cup LineMessage

AnyEvent == UNION {Event(s) : s \in Source}

Process ==
  [state : {"running", "ended", "reaped"}, killed : BOOLEAN, status : {0, 1},
   output : Nat, agent : Seq(AnyEvent), send_runtime : BOOLEAN]

Fiber == [does : {"client", "output", "exit", "agent"}, of : Execution \cup {None}]
Writer == [fiber : Fiber, left : Seq(Message)]

(* What is on its way to the client.                                       *)
OutTypes ==
  /\ toClient \in Seq(Message) /\ Len(toClient) <= MaxUnderWay
  /\ outBuffer \in Seq(Message) /\ writers \in Seq(Writer)
  /\ \A i \in DOMAIN writers : writers[i].left # <<>>

TypeInv ==
  /\ PlaygroundTypeOK /\ OutTypes
  /\ toServer \in Seq(Request)
  /\ stdout \in Seq(Message) /\ inspectors \in [Line -> Seq(Message)]
  /\ procs \in [DOMAIN procs -> Process]

(* A run that is not the last one has an earlier tag.                      *)
KnownBy(e, t, r) == e.tag <= t /\ (e.tag = t => e = r)
Known(e) == KnownBy(e, runTag, ran)

Requested(m) == [tag |-> m.tag, source |-> m.source]

(* The messages that the client gets unless the connection is lost, and    *)
(* those with what is still in the buffer, and may be sent again.          *)
Items(q) == {q[i] : i \in 1..Len(q)}
Left(waiting) == UNION {Items(w.left) : w \in Items(waiting)}
Due == Items(toClient) \cup Left(writers)
Messages == Due \cup Items(outBuffer)

(* Every message says who sent it, and everything under way is known.      *)
Provenance ==
  /\ ran.tag <= runTag
  /\ \A i \in 1..Len(toServer) : toServer[i].type = "run" => Known(Requested(toServer[i]))
  /\ compiling # None => Known(compiling)
  /\ \A e \in DOMAIN procs : Known(e)
  /\ \A m \in Messages : m.tag = m.by.tag /\ Known(m.by)

FreshInv == TypeInv /\ Provenance /\ FreshDisplay

-----------------------------------------------------------------------------
LEMMA Constants ==
  /\ MaxUnderWay \in Nat \ {0}
  /\ Source # {} /\ LastLine \in [Source -> Nat \ {0}]
  /\ None \notin Execution
  /\ ErrorLine \in [Source -> Nat \ {0}]
  /\ \A s \in Source : CodeLines[s] \subseteq 1..LastLine[s]
  /\ \A s \in Source : \A script \in Scripts[s] :
       script.output \in Nat /\ script.agent \in Seq(Event(s))
  /\ MaxInputs \in Nat
  /\ \A setup \in Setups : setup.debounce \in BOOLEAN /\ setup.inputs \in 0..MaxInputs
BY SocketAssumption, SessionAssumption, ServerAssumption
   DEF SocketAssumption, SessionAssumption, ServerAssumption

(* The messages are what they seem to be.                                  *)
LEMMA MessageTypes ==
  ASSUME NEW e \in Execution
  PROVE  /\ RunMessage(e) \in Message /\ OutputMessage(e) \in Message /\ BugMessage(e) \in Message
         /\ \A status \in {0, 1} : ExitMessage(e, status) \in Message
         /\ \A payload \in BOOLEAN : ExceptionMessage(e, payload) \in Message
         /\ \A event \in AnyEvent : AgentMessage(e, event) \in Message
<1>1. e.tag \in Nat /\ e.source \in Source
  BY DEF Execution
<1>2. RunMessage(e) \in PlainMessage /\ OutputMessage(e) \in PlainMessage /\ BugMessage(e) \in PlainMessage
  BY <1>1 DEF RunMessage, OutputMessage, BugMessage, PlainMessage
<1>3. \A status \in {0, 1} : ExitMessage(e, status) \in EndMessage
  BY <1>1 DEF ExitMessage, EndMessage
<1>4. \A payload \in BOOLEAN : ExceptionMessage(e, payload) \in ErrorMessage
  BY <1>1, Constants DEF ExceptionMessage, ErrorMessage
<1>5. \A event \in AnyEvent : AgentMessage(e, event) \in LineMessage
  BY <1>1 DEF AgentMessage, LineMessage, AnyEvent, Event, Line
<1>6. QED
  BY <1>2, <1>3, <1>4, <1>5 DEF Message

LEMMA MessageFields ==
  ASSUME NEW m \in Message
  PROVE  /\ m.tag \in Nat /\ m.by \in Execution
         /\ m.type \in {"value", "runtime-exception"} => m.line \in Line
         /\ m.type = "exception" => m.lines \in SUBSET (Nat \ {0})
BY DEF Message, PlainMessage, EndMessage, ErrorMessage, LineMessage

LEMMA RequestFields ==
  ASSUME NEW m \in Request, m.type = "run"
  PROVE  Requested(m) \in Execution
BY DEF Request, Requested, Execution

-----------------------------------------------------------------------------
(* What is in queues, and what the fibers that write do to them.           *)

LEMMA ItemsJoin ==
  ASSUME NEW S, NEW p \in Seq(S), NEW q \in Seq(S)
  PROVE  Items(p \o q) = Items(p) \cup Items(q)
<1>1. /\ Len(p) \in Nat /\ Len(q) \in Nat /\ Len(p \o q) = Len(p) + Len(q)
      /\ \A i \in 1..Len(p) : (p \o q)[i] = p[i]
      /\ \A i \in 1..Len(q) : (p \o q)[Len(p) + i] = q[i]
  OBVIOUS
<1>2. \A i \in 1..Len(p \o q) :
        i \in 1..Len(p) \/ (i - Len(p) \in 1..Len(q) /\ i = Len(p) + (i - Len(p)))
  BY <1>1
<1>3. Items(p \o q) \subseteq Items(p) \cup Items(q)
  BY <1>1, <1>2 DEF Items
<1>4. /\ \A i \in 1..Len(p) : i \in 1..Len(p \o q)
      /\ \A i \in 1..Len(q) : Len(p) + i \in 1..Len(p \o q)
  BY <1>1
<1>5. Items(p) \subseteq Items(p \o q) /\ Items(q) \subseteq Items(p \o q)
  BY <1>1, <1>4 DEF Items
<1>6. QED
  BY <1>3, <1>5

LEMMA ItemsAdd ==
  ASSUME NEW S, NEW q \in Seq(S), NEW m \in S
  PROVE  Items(Append(q, m)) = Items(q) \cup {m} /\ Append(q, m) \in Seq(S)
<1>1. /\ Len(q) \in Nat /\ Len(Append(q, m)) = Len(q) + 1 /\ Append(q, m)[Len(q) + 1] = m
      /\ \A i \in 1..Len(q) : Append(q, m)[i] = q[i]
      /\ Append(q, m) \in Seq(S)
  OBVIOUS
<1>2. QED
  BY <1>1 DEF Items

LEMMA ItemsFirst ==
  ASSUME NEW S, NEW q \in Seq(S), q # <<>>
  PROVE  /\ Head(q) \in S /\ Tail(q) \in Seq(S)
         /\ Items(q) = {Head(q)} \cup Items(Tail(q))
<1>1. /\ Len(q) \in Nat \ {0} /\ Len(Tail(q)) = Len(q) - 1 /\ Head(q) = q[1]
      /\ \A i \in 1..Len(Tail(q)) : Tail(q)[i] = q[i + 1]
      /\ Head(q) \in S /\ Tail(q) \in Seq(S)
  OBVIOUS
<1>2. /\ \A i \in 1..Len(q) : i = 1 \/ (i - 1 \in 1..Len(Tail(q)) /\ Tail(q)[i - 1] = q[i])
      /\ \A i \in 1..Len(Tail(q)) : i + 1 \in 1..Len(q)
  BY <1>1
<1>3. QED
  BY <1>1, <1>2 DEF Items

LEMMA ItemsCut ==
  ASSUME NEW S, NEW q \in Seq(S), NEW n \in 0..Len(q)
  PROVE  /\ SubSeq(q, 1, n) \in Seq(S) /\ SubSeq(q, n + 1, Len(q)) \in Seq(S)
         /\ Len(SubSeq(q, 1, n)) = n
         /\ n < Len(q) => SubSeq(q, n + 1, Len(q)) # <<>>
         /\ Items(q) = Items(SubSeq(q, 1, n)) \cup Items(SubSeq(q, n + 1, Len(q)))
<1> DEFINE p == SubSeq(q, 1, n)
           r == SubSeq(q, n + 1, Len(q))
<1>1. /\ p \in Seq(S) /\ r \in Seq(S) /\ Len(p) = n /\ Len(r) = Len(q) - n
      /\ \A i \in 1..Len(p) : p[i] = q[i]
      /\ \A i \in 1..Len(r) : r[i] = q[n + i]
      /\ Len(q) \in Nat /\ n \in Nat
  OBVIOUS
<1> HIDE DEF p, r
<1>2. /\ \A i \in 1..Len(q) : i \in 1..Len(p) \/ (i - n \in 1..Len(r) /\ r[i - n] = q[i])
      /\ \A i \in 1..Len(p) : i \in 1..Len(q)
      /\ \A i \in 1..Len(r) : n + i \in 1..Len(q)
  BY <1>1
<1>3. Items(q) = Items(p) \cup Items(r)
  <2>1. ASSUME NEW i \in 1..Len(q) PROVE q[i] \in Items(p) \cup Items(r)
    <3>1. CASE i \in 1..Len(p)
      BY <1>1, <3>1 DEF Items
    <3>2. CASE i - n \in 1..Len(r) /\ r[i - n] = q[i]
      BY <3>2 DEF Items
    <3>3. QED
      BY <1>2, <2>1, <3>1, <3>2
  <2>2. /\ \A i \in 1..Len(p) : p[i] \in Items(q)
        /\ \A i \in 1..Len(r) : r[i] \in Items(q)
    BY <1>1, <1>2 DEF Items
  <2>3. QED
    BY <2>1, <2>2 DEF Items
<1>4. n < Len(q) => r # <<>>
  BY <1>1
<1>5. QED
  BY <1>1, <1>3, <1>4 DEF p, r

LEMMA ItemsType ==
  ASSUME NEW S, NEW q \in Seq(S)
  PROVE  Items(q) \subseteq S
BY DEF Items

(* A flush loses nothing of what the fiber has left to write.              *)
LEMMA Flushed ==
  ASSUME OutTypes, NEW fiber \in Fiber, NEW left \in Seq(Message),
         NEW buffer \in Seq(Message), NEW others \in Seq(Writer),
         \A i \in DOMAIN others : others[i].left # <<>>,
         flush(fiber, left, buffer, others)
  PROVE  /\ OutTypes'
         /\ Due' = Items(toClient) \cup Items(left) \cup Left(others)
         /\ Items(outBuffer') \subseteq Items(buffer)
<1> DEFINE room == MaxUnderWay - Len(toClient)
<1>1. toClient \in Seq(Message) /\ room \in Nat /\ Len(toClient) \in Nat /\ MaxUnderWay \in Nat
  BY Constants DEF OutTypes
<1>2. Items(<<>>) = {}
  BY DEF Items
<1>3. CASE /\ Len(left) <= room /\ toClient' = toClient \o left
           /\ outBuffer' = <<>> /\ writers' = others
  <2>1. toClient' \in Seq(Message) /\ Len(toClient') = Len(toClient) + Len(left)
    BY <1>1, <1>3
  <2>2. OutTypes'
    BY <1>1, <1>3, <2>1 DEF OutTypes
  <2>3. Items(toClient') = Items(toClient) \cup Items(left)
    BY <1>1, <1>3, ItemsJoin
  <2>4. QED
    BY <1>2, <1>3, <2>2, <2>3 DEF Due
<1>4. CASE Len(left) > room
  <2> DEFINE first == SubSeq(left, 1, room)
             rest == SubSeq(left, room + 1, Len(left))
             w == [fiber |-> fiber, left |-> rest]
  <2>1. /\ toClient' = toClient \o first /\ writers' = Append(others, w)
        /\ outBuffer' = buffer
    <3>1. ~(Len(left) <= room)
      BY <1>1, <1>4
    <3>2. QED
      BY <3>1 DEF flush
  <2>2. room \in 0..Len(left) /\ room < Len(left)
    BY <1>1, <1>4
  <2>3. /\ first \in Seq(Message) /\ rest \in Seq(Message) /\ Len(first) = room /\ rest # <<>>
        /\ Items(left) = Items(first) \cup Items(rest)
    <3> HIDE DEF room
    <3>1. QED
      BY <2>2, ItemsCut
  <2> HIDE DEF first, rest
  <2>4. w \in Writer /\ w.left = rest
    BY <2>3 DEF Writer
  <2> HIDE DEF w
  <2>5. Items(toClient') = Items(toClient) \cup Items(first)
    BY <1>1, <2>1, <2>3, ItemsJoin
  <2>6. Left(writers') = Left(others) \cup Items(rest)
    <3>1. Items(writers') = Items(others) \cup {w}
      BY <2>1, <2>4, ItemsAdd
    <3>2. QED
      BY <2>4, <3>1 DEF Left
  <2>7. OutTypes'
    <3>1. toClient' \in Seq(Message) /\ Len(toClient') = MaxUnderWay
      <4>1. Len(toClient') = Len(toClient) + Len(first) /\ toClient' \in Seq(Message)
        BY <1>1, <2>1, <2>3
      <4>2. QED
        BY <1>1, <2>3, <4>1
    <3>2. /\ writers' \in Seq(Writer)
          /\ \A i \in DOMAIN writers' : (i \in DOMAIN others /\ writers'[i] = others[i]) \/ writers'[i] = w
      BY <2>1, <2>4
    <3>3. QED
      BY <1>1, <2>1, <2>3, <2>4, <3>1, <3>2 DEF OutTypes
  <2>8. QED
    BY <2>1, <2>3, <2>5, <2>6, <2>7 DEF Due
<1>5. QED
  BY <1>3, <1>4 DEF flush

(* A step of the server that sends these messages, or starts to: the       *)
(* others that are due stay so, and no more than these are new.            *)
Written(new) ==
  /\ OutTypes' /\ serving' \in BOOLEAN
  /\ Messages' \subseteq Messages \cup new
  /\ ws = "open" => Due \cup new \subseteq Due'

LEMMA Sent ==
  ASSUME TypeInv, NEW fiber \in Fiber, NEW m \in Message, send(fiber, m)
  PROVE  Written({m})
<1>0. OutTypes /\ serving \in BOOLEAN
  BY DEF TypeInv, PlaygroundTypeOK
<1>1. CASE ws = "open" /\ write(fiber, m) /\ UNCHANGED serving
  <2> DEFINE buffer == Append(outBuffer, m)
  <2>1. flush(fiber, buffer, buffer, writers)
    BY <1>1 DEF write
  <2>2. buffer \in Seq(Message) /\ Items(buffer) = Items(outBuffer) \cup {m}
    BY <1>0, ItemsAdd DEF OutTypes
  <2> HIDE DEF buffer
  <2>3. /\ OutTypes' /\ Items(outBuffer') \subseteq Items(buffer)
        /\ Due' = Items(toClient) \cup Items(buffer) \cup Left(writers)
    BY <1>0, <2>1, <2>2, Flushed DEF OutTypes
  <2>4. QED
    BY <1>0, <1>1, <2>2, <2>3 DEF Written, Messages, Due
<1>2. CASE ws # "open" /\ UNCHANGED outVars /\ serving' \in {serving, FALSE}
  BY <1>0, <1>2 DEF outVars, OutTypes, Written, Messages, Due
<1>3. QED
  BY <1>1, <1>2 DEF send, FailsOrNot

LEMMA NoneSent ==
  ASSUME TypeInv, SendsNothing
  PROVE  Written({}) /\ Messages' = Messages /\ Due' = Due
BY DEF TypeInv, PlaygroundTypeOK, SendsNothing, outVars, OutTypes, Written, Messages, Due

LEMMA Continued ==
  ASSUME TypeInv, Continue
  PROVE  Written({})
<1>0. OutTypes /\ serving \in BOOLEAN /\ writers \in Seq(Writer) /\ writers # <<>>
  BY DEF TypeInv, PlaygroundTypeOK, OutTypes, Continue, GoOn
<1>1. PICK w, others : w = Head(writers) /\ others = Tail(writers)
  OBVIOUS
<1>2. /\ w \in Writer /\ others \in Seq(Writer)
      /\ Left(writers) = Items(w.left) \cup Left(others)
  <2>1. w \in Writer /\ others \in Seq(Writer) /\ Items(writers) = {w} \cup Items(others)
    BY <1>0, <1>1, ItemsFirst
  <2>2. QED
    BY <2>1 DEF Left
<1>3. \A i \in DOMAIN others : others[i].left # <<>>
  <2>1. \A i \in DOMAIN others : others[i] = writers[i + 1] /\ i + 1 \in DOMAIN writers
    BY <1>0, <1>1
  <2>2. QED
    BY <1>0, <2>1 DEF OutTypes
<1>4. CASE ws = "open" /\ GoOn /\ UNCHANGED serving
  <2>1. w.fiber \in Fiber /\ w.left \in Seq(Message) /\ outBuffer \in Seq(Message)
    BY <1>0, <1>2 DEF Writer, OutTypes
  <2>2. flush(w.fiber, w.left, outBuffer, others)
    BY <1>1, <1>4 DEF GoOn
  <2>3. /\ OutTypes' /\ Items(outBuffer') \subseteq Items(outBuffer)
        /\ Due' = Items(toClient) \cup Items(w.left) \cup Left(others)
    BY <1>0, <1>2, <1>3, <2>1, <2>2, Flushed
  <2>4. QED
    BY <1>0, <1>2, <1>4, <2>3 DEF Written, Messages, Due
<1>5. CASE ws # "open" /\ writers' = others /\ UNCHANGED <<toClient, outBuffer>>
           /\ serving' \in {serving, FALSE}
  <2>1. OutTypes'
    BY <1>0, <1>2, <1>3, <1>5 DEF OutTypes
  <2>2. QED
    BY <1>0, <1>2, <1>5, <2>1 DEF Written, Messages, Due
<1>6. QED
  BY <1>1, <1>4, <1>5 DEF Continue, FailsOrNot

LEMMA FiberTypes ==
  ASSUME NEW e \in Execution
  PROVE  Client \in Fiber /\ Pipes(e) \in Fiber /\ Waiter(e) \in Fiber /\ Agent(e) \in Fiber
BY DEF Client, Pipes, Waiter, Agent, Fiber

(* What is under way are messages.                                         *)
LEMMA MessagesType ==
  ASSUME TypeInv
  PROVE  Messages \subseteq Message
<1>1. toClient \in Seq(Message) /\ outBuffer \in Seq(Message) /\ writers \in Seq(Writer)
  BY DEF TypeInv, OutTypes
<1>2. \A w \in Items(writers) : Items(w.left) \subseteq Message
  <2>1. ASSUME NEW w \in Items(writers) PROVE Items(w.left) \subseteq Message
    <3>1. w.left \in Seq(Message)
      BY <1>1, ItemsType DEF Writer
    <3>2. QED
      BY <3>1, ItemsType
  <2>2. QED
    BY <2>1
<1>3. QED
  BY <1>1, <1>2, ItemsType DEF Messages, Due, Left

-----------------------------------------------------------------------------
LEMMA FreshInitially == PlaygroundInit => FreshInv
<1> SUFFICES ASSUME PlaygroundInit PROVE FreshInv
  OBVIOUS
<1> USE DEF PlaygroundInit, SessionInit, ServerInit
<1>1. ran \in Execution
  BY DEF Execution
<1>2. TypeInv
  <2>1. DOMAIN procs = {} /\ procs \in [DOMAIN procs -> Process]
    <3>1. procs \in Seq(Process) /\ Len(procs) = 0
      OBVIOUS
    <3>2. procs \in [1..Len(procs) -> Process] /\ 1..Len(procs) = {}
      BY <3>1
    <3>3. QED
      BY <3>2
  <2>2. /\ toServer \in Seq(Request)
        /\ stdout \in Seq(Message) /\ inspectors \in [Line -> Seq(Message)]
    OBVIOUS
  <2>5. OutTypes
    BY Constants DEF OutTypes
  <2>3. PlaygroundTypeOK
    <3>1. /\ editor \in Source /\ page \in Setups
          /\ ws \in {"connecting", "open", "closing", "closed", "gone"}
          /\ connectLostShown \in BOOLEAN /\ button \in Button
          /\ runTag \in Nat /\ runTimeout \in BOOLEAN /\ inputs \in 0..MaxInputs
      <4>1. inputs \in 0..MaxInputs
        BY Constants
      <4>2. QED
        BY <4>1 DEF Button
    <3>2. tag \in Nat /\ compiling = None /\ process = None /\ errors = {}
      OBVIOUS
    <3>3. QED
      BY <1>1, <2>1, <2>5, <3>1, <3>2 DEF PlaygroundTypeOK, OutTypes
  <2>4. QED
    BY <2>1, <2>2, <2>3, <2>5 DEF TypeInv
<1>3. Provenance
  BY DEF Provenance, Messages, Due, Left, Items
<1>4. FreshDisplay
  BY DEF FreshDisplay
<1>5. QED
  BY <1>2, <1>3, <1>4 DEF FreshInv

-----------------------------------------------------------------------------
(* The steps of the page.                                                  *)

(* A step that shows nothing new, and puts nothing of unknown origin under *)
(* way.                                                                    *)
LEMMA QueuesKeep ==
  ASSUME FreshInv, TypeInv', UNCHANGED <<runTag, ran, stdout, inspectors>>,
         errors' = errors \/ errors' = {},
         \A i \in 1..Len(toServer') : toServer'[i].type = "run" =>
           \E j \in 1..Len(toServer) : toServer'[i] = toServer[j],
         compiling' # None => Known(compiling'),
         \A e \in DOMAIN procs' : Known(e),
         \A m \in Messages' : m \in Messages \/ (m.tag = m.by.tag /\ Known(m.by))
  PROVE  FreshInv'
<1>1. Provenance'
  BY DEF FreshInv, Provenance, Known, KnownBy
<1>2. FreshDisplay'
  BY DEF FreshInv, FreshDisplay
<1>3. QED
  BY <1>1, <1>2 DEF FreshInv

LEMMA OtherKeeps ==
  ASSUME FreshInv, PlaygroundTypeOK',
         UNCHANGED <<runTag, ran, stdout, inspectors, toServer, outVars, compiling, procs>>,
         errors' = errors \/ errors' = {}
  PROVE  FreshInv'
<1>1. TypeInv'
  BY DEF FreshInv, TypeInv, OutTypes, outVars
<1>2. Messages' = Messages
  BY DEF Messages, Due, outVars
<1>3. QED
  BY <1>1, <1>2, QueuesKeep DEF FreshInv, Provenance

(* A run: the display is cleared, and whatever is under way is older.      *)
LEMMA RunKeeps ==
  ASSUME FreshInv, PlaygroundTypeOK', NEW readyState, NEW shown \in Button,
         run(readyState, shown), UNCHANGED <<editor, toClient, serverVars>>
  PROVE  FreshInv'
<1> USE DEF FreshInv
<1>1. CASE connectLostShown
  BY <1>1, OtherKeeps DEF run, displayVars, serverVars, runningVars, outVars
<1>2. CASE ~connectLostShown
  <2> DEFINE e == [tag |-> runTag + 1, source |-> editor]
  <2>1. /\ runTag' = runTag + 1 /\ runTag \in Nat
        /\ stdout' = <<>> /\ errors' = {} /\ inspectors' = [l \in Line |-> <<>>]
    BY <1>2 DEF run, _clearInspectors, _hideEditorErrors, _clearStdout, TypeInv, PlaygroundTypeOK
  <2>2. \/ UNCHANGED <<ran, toServer>>
        \/ ran' = e /\ (toServer' = toServer \/ toServer' = Append(toServer, RunRequest(e)))
    BY <1>2 DEF run
  <2>3. e \in Execution /\ RunRequest(e) \in Request
    BY <2>1 DEF Execution, RunRequest, Request, TypeInv, PlaygroundTypeOK
  <2>4. TypeInv'
    <3>1. toServer' \in Seq(Request)
      <4>1. toServer \in Seq(Request)
        BY DEF TypeInv
      <4>2. toServer' = toServer \/ toServer' = Append(toServer, RunRequest(e))
        BY <2>2
      <4>3. QED
        BY <4>1, <4>2, <2>3
    <3>2. stdout' \in Seq(Message) /\ inspectors' \in [Line -> Seq(Message)]
      BY <2>1
    <3>3. QED
      BY <3>1, <3>2 DEF TypeInv, OutTypes, serverVars, runningVars
  <2>5. \A x \in Execution : Known(x) => KnownBy(x, runTag', ran')
    BY <2>1 DEF Known, KnownBy, Execution
  <2>6. Provenance'
    <3>1. ran'.tag <= runTag'
      BY <2>1, <2>2 DEF TypeInv, PlaygroundTypeOK, Provenance, Execution
    <3>2. ASSUME NEW i \in 1..Len(toServer'), toServer'[i].type = "run"
          PROVE  KnownBy(Requested(toServer'[i]), runTag', ran')
      <4>1. CASE i \in 1..Len(toServer) /\ toServer'[i] = toServer[i]
        <5>1. Requested(toServer[i]) \in Execution /\ Known(Requested(toServer[i]))
          BY <3>2, <4>1, RequestFields DEF TypeInv, Provenance
        <5>2. QED
          BY <4>1, <5>1, <2>5
      <4>2. CASE ran' = e /\ toServer'[i] = RunRequest(e)
        <5>1. Requested(toServer'[i]) = e
          BY <4>2 DEF Requested, RunRequest
        <5>2. QED
          BY <4>2, <5>1, <2>1 DEF Known, KnownBy
      <4>3. QED
        BY <2>2, <2>3, <4>1, <4>2 DEF TypeInv
    <3>3. compiling' # None => KnownBy(compiling, runTag', ran')
      BY <2>5 DEF Provenance, TypeInv, PlaygroundTypeOK, serverVars, runningVars
    <3>4. \A x \in DOMAIN procs' : KnownBy(x, runTag', ran')
      BY <2>5 DEF Provenance, TypeInv, PlaygroundTypeOK, serverVars, runningVars
    <3>5. ASSUME NEW m \in Messages'
          PROVE  m.tag = m.by.tag /\ KnownBy(m.by, runTag', ran')
      <4>1. m \in Messages /\ m \in Message
        BY MessagesType DEF Messages, Due, serverVars
      <4>2. QED
        BY <4>1, <2>5, MessageFields DEF Provenance
    <3>6. QED
      BY <3>1, <3>2, <3>3, <3>4, <3>5 DEF Provenance, Known, serverVars, runningVars
  <2>7. FreshDisplay'
    BY <2>1 DEF FreshDisplay
  <2>8. QED
    BY <2>4, <2>6, <2>7
<1>3. QED
  BY <1>1, <1>2

LEMMA RunTypes ==
  ASSUME PlaygroundTypeOK, NEW readyState, NEW shown \in Button, run(readyState, shown)
  PROVE  /\ button' \in Button /\ runTag' \in Nat /\ ran' \in Execution
         /\ UNCHANGED editor => errors' \subseteq [line : 1..LastLine[editor'], by : Execution]
BY DEF run, _clearInspectors, _hideEditorErrors, _clearStdout, displayVars, PlaygroundTypeOK, Execution, Button

LEMMA InputType ==
  ASSUME PlaygroundTypeOK, Input
  PROVE  inputs' \in 0..MaxInputs
BY Constants DEF PlaygroundTypeOK, Input

LEMMA StopType ==
  ASSUME TypeInv, stop
  PROVE  /\ toServer' \in Seq(Request)
         /\ \A i \in 1..Len(toServer') : toServer'[i].type = "run" =>
              \E j \in 1..Len(toServer) : toServer'[i] = toServer[j]
<1> DEFINE m == [type |-> "stop", tag |-> runTag]
<1>1. m \in Request /\ m.type # "run"
  BY DEF TypeInv, PlaygroundTypeOK, Request
<1>2. toServer' = toServer \/ toServer' = Append(toServer, m)
  BY DEF stop, clientSend
<1>3. toServer \in Seq(Request)
  BY DEF TypeInv
<1> HIDE DEF m
<1>4. QED
  BY <1>1, <1>2, <1>3

LEMMA PageKeeps ==
  ASSUME FreshInv, PageStep
  PROVE  FreshInv'
<1>0. TypeInv /\ PlaygroundTypeOK
  BY DEF FreshInv, TypeInv
<1>1. CASE Blink
  <2>1. PlaygroundTypeOK'
    BY <1>0, <1>1 DEF PageStep, Blink, PlaygroundTypeOK, serverVars, runningVars, outVars
  <2>2. QED
    BY <2>1, <1>1, OtherKeeps DEF PageStep, Blink, serverVars, runningVars, outVars
<1>2. CASE ClickEditor
  <2>1. PlaygroundTypeOK'
    BY <1>0, <1>2 DEF PageStep, ClickEditor, _hideEditorErrors, PlaygroundTypeOK, serverVars, runningVars, outVars
  <2>2. QED
    BY <2>1, <1>2, OtherKeeps DEF PageStep, ClickEditor, _hideEditorErrors, serverVars, runningVars, outVars
<1>3. ASSUME NEW s \in Source, Edit(s) PROVE FreshInv'
  <2>1. PlaygroundTypeOK'
    <3>1. page.debounce \in BOOLEAN
      BY <1>0, Constants DEF PlaygroundTypeOK
    <3>2. QED
      BY <1>0, <1>3, <3>1, InputType DEF PageStep, Edit, _hideEditorErrors, _scheduleRun, PlaygroundTypeOK, serverVars, runningVars, outVars
  <2>2. QED
    BY <2>1, <1>3, OtherKeeps DEF PageStep, Edit, _hideEditorErrors, _scheduleRun, Input, serverVars, runningVars, outVars
<1>4. CASE RunTimeout
  <2>1. PlaygroundTypeOK'
    BY <1>0, <1>4, RunTypes DEF PageStep, RunTimeout, PlaygroundTypeOK, serverVars, runningVars, outVars
  <2>2. QED
    BY <2>1, <1>0, <1>4, RunKeeps DEF PageStep, RunTimeout, PlaygroundTypeOK
<1>5. CASE Play
  <2>1. PlaygroundTypeOK'
    BY <1>0, <1>5, RunTypes, InputType DEF PageStep, Play, _removeScheduledRun, PlaygroundTypeOK, serverVars, runningVars, outVars
  <2>2. QED
    BY <2>1, <1>0, <1>5, RunKeeps DEF PageStep, Play, PlaygroundTypeOK
<1>6. CASE Opened
  <2>1. CASE page.autorun
    <3>1. PlaygroundTypeOK'
      BY <1>0, <1>6, <2>1, RunTypes
         DEF PageStep, Opened, _removeScheduledRun, PlaygroundTypeOK, serverVars, runningVars, outVars, Button
    <3>2. QED
      BY <3>1, <1>6, <2>1, RunKeeps DEF PageStep, Opened, Button
  <2>2. CASE ~page.autorun
    <3>1. PlaygroundTypeOK'
      BY <1>0, <1>6, <2>2
         DEF PageStep, Opened, PlaygroundTypeOK, serverVars, runningVars, outVars, displayVars, Button
    <3>2. QED
      BY <3>1, <1>6, <2>2, OtherKeeps DEF PageStep, Opened, serverVars, runningVars, outVars, displayVars
  <2>3. QED
    BY <2>1, <2>2
<1>7. CASE OtherLost
  <2>1. PlaygroundTypeOK'
    BY <1>0, <1>7 DEF PageStep, OtherLost, PlaygroundTypeOK, serverVars, runningVars, outVars, runVars, displayVars
  <2>2. QED
    BY <2>1, <1>7, OtherKeeps DEF PageStep, OtherLost, serverVars, runningVars, outVars, runVars, displayVars
<1>8. CASE ClickStop
  <2>1. TypeInv'
    <3>1. PlaygroundTypeOK'
      BY <1>0, <1>8, InputType DEF PageStep, ClickStop, PlaygroundTypeOK, serverVars, runningVars, outVars, displayVars
    <3>2. toServer' \in Seq(Request)
      BY <1>0, <1>8, StopType DEF ClickStop, TypeInv
    <3>3. QED
      BY <1>0, <1>8, <3>1, <3>2 DEF PageStep, ClickStop, TypeInv, OutTypes, serverVars, runningVars, outVars, displayVars
  <2>2. \A i \in 1..Len(toServer') : toServer'[i].type = "run" =>
          \E j \in 1..Len(toServer) : toServer'[i] = toServer[j]
    BY <1>0, <1>8, StopType DEF ClickStop, TypeInv
  <2>3. Messages' = Messages
    BY <1>8 DEF PageStep, ClickStop, serverVars, Messages, Due
  <2>4. QED
    BY <2>1, <2>2, <2>3, <1>8, QueuesKeep
       DEF PageStep, ClickStop, serverVars, runningVars, displayVars, FreshInv, Provenance
<1>9. QED
  BY <1>1, <1>2, <1>3, <1>4, <1>5, <1>6, <1>7, <1>8 DEF PageStep, UserStep, BrowserStep

LEMMA LeaveKeeps ==
  ASSUME FreshInv, Leave
  PROVE  FreshInv'
<1> USE DEF Leave, Unload, serverVars, runningVars, outVars, displayVars
<1>0. TypeInv /\ PlaygroundTypeOK
  BY DEF FreshInv, TypeInv
<1>1. /\ toServer' \in Seq(Request) /\ toClient' = <<>>
      /\ \A i \in 1..Len(toServer') : toServer'[i].type = "run" =>
           \E j \in 1..Len(toServer) : toServer'[i] = toServer[j]
  BY <1>0, StopType
<1>2. TypeInv'
  <2>1. PlaygroundTypeOK'
    BY <1>0 DEF PlaygroundTypeOK
  <2>2. OutTypes'
    BY <1>0, <1>1, Constants DEF TypeInv, OutTypes
  <2>3. QED
    BY <1>0, <1>1, <2>1, <2>2 DEF TypeInv
<1>3. Messages' \subseteq Messages
  BY <1>1 DEF Messages, Due, Items
<1>4. QED
  BY <1>1, <1>2, <1>3, QueuesKeep DEF FreshInv, Provenance

LEMMA DisconnectKeeps ==
  ASSUME FreshInv, Disconnect
  PROVE  FreshInv'
<1> USE DEF Disconnect, Closed, serverVars, runningVars, outVars, displayVars
<1>1. PlaygroundTypeOK'
  BY DEF FreshInv, TypeInv, PlaygroundTypeOK, Button
<1>2. QED
  BY <1>1, OtherKeeps

(* A first part of a queue has no other messages.                          *)
LEMMA PartOf ==
  ASSUME NEW S, NEW s \in Seq(S), NEW n \in 0..Len(s)
  PROVE  /\ SubSeq(s, 1, n) \in Seq(S)
         /\ \A i \in 1..Len(SubSeq(s, 1, n)) : \E j \in 1..Len(s) : SubSeq(s, 1, n)[i] = s[j]
OBVIOUS

LEMMA LostKeeps ==
  ASSUME FreshInv, ConnectionLost
  PROVE  FreshInv'
<1> USE DEF ConnectionLost, Lose, pageVars, serverVars, runningVars, outVars, displayVars
<1>0. TypeInv /\ PlaygroundTypeOK
  BY DEF FreshInv, TypeInv
<1>1. /\ toServer' \in Seq(Request)
      /\ \A i \in 1..Len(toServer') : \E j \in 1..Len(toServer) : toServer'[i] = toServer[j]
  BY <1>0, PartOf DEF TypeInv
<1>2. /\ toClient' \in Seq(Message) /\ Len(toClient') <= Len(toClient)
      /\ Items(toClient') \subseteq Items(toClient)
  BY <1>0, ItemsCut DEF TypeInv, OutTypes
<1>3. TypeInv'
  <2>1. PlaygroundTypeOK'
    BY <1>0 DEF PlaygroundTypeOK
  <2>2. OutTypes'
    BY <1>0, <1>2, Constants DEF TypeInv, OutTypes
  <2>3. QED
    BY <1>0, <1>1, <2>1, <2>2 DEF TypeInv
<1>4. Messages' \subseteq Messages
  BY <1>2 DEF Messages, Due
<1>5. QED
  BY <1>1, <1>3, <1>4, QueuesKeep DEF FreshInv, Provenance

-----------------------------------------------------------------------------
(* The steps of the server and of the programs.                            *)

LEMMA TakeType ==
  ASSUME TypeInv, toServer # <<>>, toServer' = Tail(toServer)
  PROVE  /\ Head(toServer) \in Request
         /\ toServer' \in Seq(Request)
         /\ \A i \in 1..Len(toServer') : \E j \in 1..Len(toServer) : toServer'[i] = toServer[j]
<1>1. toServer \in Seq(Request)
  BY DEF TypeInv
<1>2. QED
  BY <1>1

(* A step of the server that sends nothing or a message of an execution    *)
(* that is known.                                                          *)
LEMMA ServerKeeps ==
  ASSUME FreshInv, PlaygroundTypeOK', UNCHANGED pageVars,
         toServer' \in Seq(Request),
         \A i \in 1..Len(toServer') : \E j \in 1..Len(toServer) : toServer'[i] = toServer[j],
         compiling' # None => Known(compiling'),
         \A e \in DOMAIN procs' : Known(e),
         procs' \in [DOMAIN procs' -> Process],
         NEW new, Written(new), \A m \in new : m.tag = m.by.tag /\ Known(m.by)
  PROVE  FreshInv'
<1> USE DEF pageVars, displayVars
<1>1. TypeInv'
  BY DEF FreshInv, TypeInv, Written
<1>2. QED
  BY <1>1, QueuesKeep DEF Written

(* What a step does that changes the record of one program only.           *)
LEMMA ProgramKeeps ==
  ASSUME FreshInv, NEW e \in DOMAIN procs, NEW p \in Process,
         procs' = [procs EXCEPT ![e] = p],
         UNCHANGED <<pageVars, ws, toServer, tag, compiling, process>>,
         NEW new, Written(new), \A m \in new : m.tag = m.by.tag /\ m.by = e
  PROVE  FreshInv'
<1>0. TypeInv /\ PlaygroundTypeOK /\ Provenance
  BY DEF FreshInv, TypeInv
<1>1. DOMAIN procs' = DOMAIN procs /\ procs' \in [DOMAIN procs' -> Process]
  BY <1>0 DEF TypeInv
<1>2. PlaygroundTypeOK'
  BY <1>0, <1>1 DEF PlaygroundTypeOK, OutTypes, Written, pageVars, displayVars
<1>3. toServer \in Seq(Request) /\ Known(e)
  BY <1>0 DEF TypeInv, Provenance
<1>4. QED
  BY <1>0, <1>1, <1>2, <1>3, ServerKeeps DEF Provenance

LEMMA ReceiveRunKeeps ==
  ASSUME FreshInv, ReceiveRun, UNCHANGED <<ws, pageVars>>
  PROVE  FreshInv'
<1>0. TypeInv /\ PlaygroundTypeOK /\ Provenance
  BY DEF FreshInv, TypeInv
<1> DEFINE e == [tag |-> Head(toServer).tag, source |-> Head(toServer).source]
<1>1. toServer # <<>> /\ toServer' = Tail(toServer) /\ Head(toServer).type = "run"
  BY DEF ReceiveRun, Receives
<1>2. e \in Execution /\ Known(e)
  <2>1. Head(toServer) \in Request /\ Head(toServer) = toServer[1] /\ 1 \in 1..Len(toServer)
    BY <1>0, <1>1, TakeType DEF TypeInv
  <2>2. e = Requested(toServer[1])
    BY <2>1 DEF Requested
  <2>3. QED
    BY <1>0, <1>1, <2>1, <2>2, RequestFields DEF Provenance
<1>3. tag' = e.tag /\ compiling' \in {None, e} /\ UNCHANGED <<process, procs>>
  BY DEF ReceiveRun, Receives
<1>4. SendsNothing \/ send(Client, ExceptionMessage(e, TRUE))
  BY DEF ReceiveRun
<1> HIDE DEF e
<1>6. /\ ExceptionMessage(e, TRUE) \in Message
      /\ ExceptionMessage(e, TRUE).tag = e.tag /\ ExceptionMessage(e, TRUE).by = e
  BY <1>2, MessageTypes DEF ExceptionMessage
<1>8. PICK new : Written(new) /\ \A m \in new : m.tag = m.by.tag /\ Known(m.by)
  <2>1. CASE SendsNothing
    BY <1>0, <2>1, NoneSent
  <2>2. CASE send(Client, ExceptionMessage(e, TRUE))
    <3>1. PICK m : m = ExceptionMessage(e, TRUE)
      OBVIOUS
    <3>2. Written({m})
      BY <1>0, <1>2, <1>6, <2>2, <3>1, Sent, FiberTypes
    <3>3. \A x \in {m} : x.tag = x.by.tag /\ Known(x.by)
      BY <1>2, <1>6, <3>1
    <3>4. QED
      BY <3>2, <3>3
  <2>3. QED
    BY <1>4, <2>1, <2>2
<1>5. PlaygroundTypeOK'
  BY <1>0, <1>2, <1>3, <1>8 DEF PlaygroundTypeOK, OutTypes, Written, Execution, pageVars, displayVars
<1>7. procs' \in [DOMAIN procs' -> Process] /\ \A x \in DOMAIN procs' : Known(x)
  BY <1>0, <1>3 DEF TypeInv, Provenance
<1>9. QED
  BY <1>0, <1>1, <1>2, <1>3, <1>5, <1>7, <1>8, TakeType, ServerKeeps

LEMMA KilledType ==
  ASSUME TypeInv
  PROVE  Killed \in [DOMAIN procs -> Process]
BY DEF TypeInv, Killed, Process

LEMMA ReceiveStopKeeps ==
  ASSUME FreshInv, ReceiveStop, UNCHANGED <<ws, pageVars>>
  PROVE  FreshInv'
<1>0. TypeInv /\ PlaygroundTypeOK /\ Provenance
  BY DEF FreshInv, TypeInv
<1>1. /\ toServer # <<>> /\ toServer' = Tail(toServer)
      /\ process' = None /\ procs' = Killed /\ SendsNothing /\ UNCHANGED <<tag, compiling>>
  BY DEF ReceiveStop, Receives
<1>2. DOMAIN procs' = DOMAIN procs /\ procs' \in [DOMAIN procs' -> Process]
  BY <1>0, <1>1, KilledType
<1>3. Written({})
  BY <1>0, <1>1, NoneSent
<1>4. PlaygroundTypeOK'
  BY <1>0, <1>1, <1>2, <1>3 DEF PlaygroundTypeOK, OutTypes, Written, pageVars, displayVars
<1>5. QED
  BY <1>0, <1>1, <1>2, <1>3, <1>4, TakeType, ServerKeeps DEF Provenance

LEMMA ContinueKeeps ==
  ASSUME FreshInv, Continue, UNCHANGED <<ws, pageVars>>
  PROVE  FreshInv'
<1>0. TypeInv /\ PlaygroundTypeOK /\ Provenance
  BY DEF FreshInv, TypeInv
<1>1. Written({}) /\ UNCHANGED <<toServer, tag, compiling, process, procs>>
  BY <1>0, Continued DEF Continue, runningVars
<1>2. PlaygroundTypeOK'
  BY <1>0, <1>1 DEF PlaygroundTypeOK, OutTypes, Written, pageVars, displayVars
<1>3. toServer' \in Seq(Request) /\ procs' \in [DOMAIN procs' -> Process]
  BY <1>0, <1>1 DEF TypeInv
<1>4. QED
  BY <1>0, <1>1, <1>2, <1>3, ServerKeeps DEF Provenance

LEMMA CompilerKeeps ==
  ASSUME FreshInv, CompileFails \/ InstrumentationFails \/ Execute, UNCHANGED <<ws, pageVars>>
  PROVE  FreshInv'
<1>0. TypeInv /\ PlaygroundTypeOK /\ Provenance
  BY DEF FreshInv, TypeInv
<1>1. PICK e : e = compiling
  OBVIOUS
<1>2. e \in Execution /\ Known(e) /\ compiling # None
  BY <1>0, <1>1 DEF PlaygroundTypeOK, Provenance, CompileFails, InstrumentationFails, Execute, Compiles
<1>3. compiling' = None /\ UNCHANGED <<toServer, tag>>
  BY DEF CompileFails, InstrumentationFails, Execute
<1>4. PICK m \in Message : send(Client, m) /\ m.tag = m.by.tag /\ Known(m.by)
  <2>1. CASE CompileFails
    BY <1>1, <1>2, <2>1, MessageTypes DEF CompileFails, ExceptionMessage
  <2>2. CASE InstrumentationFails
    BY <1>1, <1>2, <2>2, MessageTypes DEF InstrumentationFails, BugMessage
  <2>3. CASE Execute
    BY <1>1, <1>2, <2>3, MessageTypes DEF Execute, RunMessage
  <2>4. QED
    BY <2>1, <2>2, <2>3
<1>5. /\ DOMAIN procs' \subseteq DOMAIN procs \cup {e} /\ procs' \in [DOMAIN procs' -> Process]
      /\ process' \in {process, e}
  <2>1. CASE UNCHANGED <<process, procs>>
    BY <1>0, <2>1 DEF TypeInv
  <2>2. CASE Execute
    <3>1. PICK script \in Scripts[e.source] :
            procs' = [x \in DOMAIN procs \cup {e} |-> IF x = e THEN NewProcess(script) ELSE Killed[x]]
      BY <1>1, <2>2 DEF Execute
    <3>2. NewProcess(script) \in Process
      <4>1. e.source \in Source
        BY <1>2 DEF Execution
      <4>2. script.output \in Nat /\ script.agent \in Seq(AnyEvent)
        <5>1. script.output \in Nat /\ script.agent \in Seq(Event(e.source))
          BY <4>1, Constants
        <5>2. Event(e.source) \subseteq AnyEvent
          BY <4>1 DEF AnyEvent
        <5>3. QED
          BY <5>1, <5>2
      <4>3. QED
        BY <4>2 DEF NewProcess, Process
    <3>3. QED
      BY <1>0, <1>1, <2>2, <3>1, <3>2, KilledType DEF Execute
  <2>3. QED
    BY <2>1, <2>2 DEF CompileFails, InstrumentationFails
<1>9. Written({m})
  BY <1>0, <1>2, <1>4, Sent, FiberTypes
<1>6. PlaygroundTypeOK'
  BY <1>0, <1>2, <1>3, <1>5, <1>9 DEF PlaygroundTypeOK, OutTypes, Written, pageVars, displayVars
<1>7. toServer \in Seq(Request) /\ \A x \in DOMAIN procs' : Known(x)
  BY <1>0, <1>2, <1>5 DEF TypeInv, Provenance
<1>8. QED
  BY <1>3, <1>4, <1>5, <1>6, <1>7, <1>9, ServerKeeps

LEMMA ProcessType ==
  ASSUME TypeInv, NEW e \in DOMAIN procs
  PROVE  procs[e] \in Process /\ e \in Execution
BY DEF TypeInv, PlaygroundTypeOK

LEMMA ProgramsKeep ==
  ASSUME FreshInv, NEW e \in DOMAIN procs, UNCHANGED <<ws, pageVars>>,
         ReadOutput(e) \/ Reap(e) \/ Forward(e) \/ \E status \in {0, 1} : End(e, status)
  PROVE  FreshInv'
<1>0. TypeInv /\ procs[e] \in Process /\ e \in Execution
  BY ProcessType DEF FreshInv
<1>1. ASSUME NEW status \in {0, 1}, End(e, status) PROVE FreshInv'
  <2> DEFINE p == [procs[e] EXCEPT !.state = "ended", !.status = status]
  <2>1. p \in Process
    BY <1>0 DEF Process
  <2>2. /\ procs' = [procs EXCEPT ![e] = p] /\ Written({})
        /\ UNCHANGED <<toServer, tag, compiling, process>>
    BY <1>0, <1>1, NoneSent DEF End
  <2> HIDE DEF p
  <2>3. QED
    BY <2>1, <2>2, ProgramKeeps
<1>2. CASE ReadOutput(e)
  <2> DEFINE p == [procs[e] EXCEPT !.output = @ - 1]
  <2>1. p \in Process
    BY <1>0, <1>2 DEF Process, ReadOutput
  <2>2. procs' = [procs EXCEPT ![e] = p] /\ UNCHANGED <<toServer, tag, compiling, process>>
    BY <1>2 DEF ReadOutput
  <2>3. PICK m \in Message : Written({m}) /\ m.tag = m.by.tag /\ m.by = e
    BY <1>0, <1>2, MessageTypes, FiberTypes, Sent DEF ReadOutput, OutputMessage
  <2> HIDE DEF p
  <2>4. QED
    BY <2>1, <2>2, <2>3, ProgramKeeps
<1>3. CASE Reap(e)
  <2>1. PICK sent \in 0..Len(procs[e].agent) :
          procs' = [procs EXCEPT ![e].state = "reaped", ![e].output = 0, ![e].killed = FALSE,
                                 ![e].status = 0, ![e].agent = SubSeq(@, 1, sent)]
    BY <1>3 DEF Reap
  <2> DEFINE p == [procs[e] EXCEPT !.state = "reaped", !.output = 0, !.killed = FALSE,
                                   !.status = 0, !.agent = SubSeq(@, 1, sent)]
  <2>2. p \in Process
    <3>1. SubSeq(procs[e].agent, 1, sent) \in Seq(AnyEvent)
      BY <1>0, PartOf DEF Process
    <3>2. QED
      BY <1>0, <3>1 DEF Process
  <2>3. procs' = [procs EXCEPT ![e] = p] /\ UNCHANGED <<toServer, tag, compiling, process>>
    BY <1>0, <1>3, <2>1 DEF Reap, TypeInv
  <2>4. PICK m \in Message : Written({m}) /\ m.tag = m.by.tag /\ m.by = e
    <3>1. procs[e].status \in {0, 1}
      BY <1>0 DEF Process
    <3>2. QED
      BY <1>0, <1>3, <3>1, MessageTypes, FiberTypes, Sent DEF Reap, ExitMessage
  <2> HIDE DEF p
  <2>5. QED
    BY <2>2, <2>3, <2>4, ProgramKeeps
<1>4. CASE Forward(e)
  <2>1. procs[e].agent \in Seq(AnyEvent) /\ procs[e].agent # <<>>
    BY <1>0, <1>4 DEF Process, Forward
  <2>2. Head(procs[e].agent) \in AnyEvent /\ Tail(procs[e].agent) \in Seq(AnyEvent)
    BY <2>1
  <2> DEFINE raised == Head(procs[e].agent).kind = "runtime-exception"
             p == [procs[e] EXCEPT !.agent = Tail(@), !.send_runtime = @ /\ ~raised]
  <2>3. procs' = [procs EXCEPT ![e] = p] /\ UNCHANGED <<toServer, tag, compiling, process>>
    BY <1>0, <1>4 DEF Forward, TypeInv
  <2>4. p \in Process
    <3>1. (procs[e].send_runtime /\ ~raised) \in BOOLEAN
      OBVIOUS
    <3> HIDE DEF raised
    <3>2. QED
      BY <1>0, <2>2, <3>1 DEF Process
  <2>5. SendsNothing \/ send(Agent(e), AgentMessage(e, Head(procs[e].agent)))
    BY <1>4 DEF Forward
  <2>6. /\ AgentMessage(e, Head(procs[e].agent)) \in Message
        /\ AgentMessage(e, Head(procs[e].agent)).tag = e.tag
        /\ AgentMessage(e, Head(procs[e].agent)).by = e
    BY <1>0, <2>2, MessageTypes DEF AgentMessage
  <2>7. PICK new : Written(new) /\ \A m \in new : m.tag = m.by.tag /\ m.by = e
    <3>1. CASE SendsNothing
      BY <1>0, <3>1, NoneSent
    <3>2. CASE send(Agent(e), AgentMessage(e, Head(procs[e].agent)))
      <4>1. Written({AgentMessage(e, Head(procs[e].agent))})
        BY <1>0, <2>6, <3>2, Sent, FiberTypes
      <4>2. QED
        BY <2>6, <4>1
    <3>3. QED
      BY <2>5, <3>1, <3>2
  <2> HIDE DEF p
  <2>8. QED
    BY <2>3, <2>4, <2>7, ProgramKeeps
<1>5. QED
  BY <1>1, <1>2, <1>3, <1>4

LEMMA ServerSideKeeps ==
  ASSUME FreshInv, ServerSide
  PROVE  FreshInv'
BY ReceiveRunKeeps, ReceiveStopKeeps, ContinueKeeps, CompilerKeeps, ProgramsKeep
   DEF ServerSide, ServerStep, ProgramStep

-----------------------------------------------------------------------------
(* A message arrives: unless its tag is the current one nothing is shown,  *)
(* and then it is of the last run.                                         *)
LEMMA DeliverKeeps ==
  ASSUME FreshInv, Deliver
  PROVE  FreshInv'
<1>0. TypeInv /\ PlaygroundTypeOK /\ Provenance /\ FreshDisplay
  BY DEF FreshInv, TypeInv
<1>1. PICK m \in Message :
        /\ onmessage(m) /\ toClient' = Tail(toClient) /\ UNCHANGED serverVars
        /\ m.tag = m.by.tag /\ Known(m.by)
  <2>1. Head(toClient) \in Message /\ Head(toClient) \in Messages
    BY <1>0, ItemsFirst DEF Deliver, TypeInv, OutTypes, Messages, Due
  <2>2. QED
    BY <1>0, <2>1 DEF Deliver, Provenance
<1>2. /\ UNCHANGED <<editor, page, ws, connectLostShown, runTag, runTimeout, toServer, inputs, ran>>
      /\ UNCHANGED <<outBuffer, writers, serving, tag, compiling, process, procs>>
  BY <1>1 DEF onmessage, serverVars, runningVars
<1>3. m.by \in Execution /\ m.tag \in Nat
  BY MessageFields
<1>4. OutTypes' /\ Messages' \subseteq Messages
  <2>1. /\ toClient \in Seq(Message) /\ toClient # <<>> /\ toClient' = Tail(toClient)
        /\ Len(toClient) <= MaxUnderWay
    BY <1>0 DEF Deliver, TypeInv, OutTypes
  <2>2. Len(toClient') <= MaxUnderWay /\ toClient' \in Seq(Message)
    BY <2>1, Constants
  <2>3. OutTypes'
    BY <1>0, <1>2, <2>2 DEF TypeInv, OutTypes
  <2>4. QED
    BY <1>2, <2>1, <2>3, ItemsFirst DEF Messages, Due
<1>5. m.tag = runTag => m.by = ran /\ ran.tag = runTag
  BY <1>1 DEF Known, KnownBy
<1>6. button' \in Button
  BY <1>0, <1>1 DEF onmessage, Discard, Output, Value, RuntimeException, Exit, _appendStdout, CompileException,
                    Bug, displayVars, PlaygroundTypeOK, Button
<1>7. errors' \subseteq [line : 1..LastLine[editor], by : Execution] /\
      \A x \in errors' : x.by = ran /\ ran.tag = runTag
  <2>1. \A x \in errors : x \in [line : 1..LastLine[editor], by : Execution] /\ x.by = ran /\ ran.tag = runTag
    BY <1>0 DEF PlaygroundTypeOK, FreshDisplay
  <2>2. editor \in Source /\ LastLine[editor] \in Nat \ {0} /\ CodeLines[editor] \subseteq 1..LastLine[editor]
    BY <1>0, Constants DEF PlaygroundTypeOK
  <2>3. ASSUME NEW l \in 1..LastLine[editor], m.tag = runTag
        PROVE  /\ ErrorAt(l, m) \in [line : 1..LastLine[editor], by : Execution]
               /\ ErrorAt(l, m).by = ran /\ ran.tag = runTag
    BY <1>3, <1>5, <2>3 DEF ErrorAt
  <2>4. CASE errors' = errors
    BY <2>1, <2>4
  <2>5. CASE RuntimeException(m)
    <3>1. m.tag = runTag
      BY <2>5 DEF RuntimeException, Current
    <3>2. errors' = errors \/ (m.line \in 1..LastLine[editor] /\ errors' = errors \cup {ErrorAt(m.line, m)})
      BY <2>5, <2>2 DEF RuntimeException
    <3>3. QED
      BY <2>1, <2>3, <3>1, <3>2
  <2>6. CASE CompileException(m)
    <3>1. m.tag = runTag /\ m.lines \in SUBSET (Nat \ {0})
      BY <2>6, MessageFields DEF CompileException, Current
    <3>2. PICK L \in SUBSET (1..LastLine[editor]) : errors' = errors \cup {ErrorAt(l, m) : l \in L}
      <4>1. CASE m.payload
        <5>1. {Bounded(k) : k \in m.lines} \in SUBSET (1..LastLine[editor])
          BY <2>2, <3>1 DEF Bounded
        <5>2. QED
          BY <2>6, <4>1, <5>1 DEF CompileException
      <4>2. CASE ~m.payload
        <5>1. {LastLine[editor]} \in SUBSET (1..LastLine[editor])
          BY <2>2
        <5>2. errors' = errors \cup {ErrorAt(l, m) : l \in {LastLine[editor]}}
          BY <2>6, <4>2 DEF CompileException
        <5>3. QED
          BY <5>1, <5>2
      <4>3. QED
        BY <4>1, <4>2
    <3>3. QED
      BY <2>1, <2>3, <3>1, <3>2
  <2>7. QED
    BY <1>1, <2>4, <2>5, <2>6
       DEF onmessage, Discard, Output, Value, Exit, Bug, displayVars
<1>8. stdout' \in Seq(Message) /\ \A i \in DOMAIN stdout' : stdout'[i].by = ran /\ ran.tag = runTag
  <2>1. stdout \in Seq(Message) /\ \A i \in DOMAIN stdout : stdout[i].by = ran /\ ran.tag = runTag
    BY <1>0 DEF TypeInv, FreshDisplay
  <2>2. stdout' = stdout \/ (m.tag = runTag /\ stdout' = Append(stdout, m))
    BY <1>1 DEF onmessage, Discard, Output, Value, RuntimeException, Exit, _appendStdout, CompileException, Bug,
                displayVars, Current
  <2>3. QED
    BY <1>5, <2>1, <2>2
<1>9. /\ inspectors' \in [Line -> Seq(Message)]
      /\ \A l \in Line : \A i \in DOMAIN inspectors'[l] :
           inspectors'[l][i].by = ran /\ ran.tag = runTag
  <2>1. /\ inspectors \in [Line -> Seq(Message)]
        /\ \A l \in Line : \A i \in DOMAIN inspectors[l] :
             inspectors[l][i].by = ran /\ ran.tag = runTag
    BY <1>0 DEF TypeInv, FreshDisplay
  <2>2. CASE UNCHANGED inspectors
    BY <2>1, <2>2
  <2>3. CASE Value(m)
    <3>1. inspectors' = [inspectors EXCEPT ![m.line] = Append(@, m)] /\ m.tag = runTag
      BY <2>3 DEF Value, Current
    <3>2. ASSUME NEW l \in Line
          PROVE  /\ inspectors'[l] \in Seq(Message)
                 /\ \A i \in DOMAIN inspectors'[l] : inspectors'[l][i].by = ran /\ ran.tag = runTag
      <4>1. inspectors[l] \in Seq(Message)
        BY <2>1
      <4>2. inspectors'[l] = inspectors[l] \/ inspectors'[l] = Append(inspectors[l], m)
        BY <2>1, <3>1
      <4>3. QED
        BY <1>5, <2>1, <3>1, <4>1, <4>2
    <3>3. QED
      BY <2>1, <3>1, <3>2
  <2>4. QED
    BY <1>1, <2>2, <2>3
       DEF onmessage, Discard, Output, RuntimeException, Exit, CompileException, Bug, displayVars
<1>10. TypeInv'
  <2>1. PlaygroundTypeOK'
    BY <1>0, <1>2, <1>6, <1>7 DEF PlaygroundTypeOK
  <2>2. QED
    BY <1>0, <1>2, <1>4, <1>8, <1>9, <2>1 DEF TypeInv
<1>11. Provenance'
  BY <1>0, <1>2, <1>4 DEF Provenance, Known, KnownBy
<1>12. FreshDisplay'
  BY <1>2, <1>7, <1>8, <1>9 DEF FreshDisplay
<1>13. QED
  BY <1>10, <1>11, <1>12 DEF FreshInv

(* What is under way comes from the last run or from an earlier one.       *)
THEOREM FreshInvariant == PlaygroundSpec => []FreshInv
<1>1. FreshInv /\ UNCHANGED playgroundVars => FreshInv'
  <2> SUFFICES ASSUME FreshInv, UNCHANGED playgroundVars PROVE FreshInv'
    OBVIOUS
  <2>1. /\ UNCHANGED <<ws, toServer, outVars, serving, editor, page, connectLostShown, button, runTag, runTimeout>>
        /\ UNCHANGED <<stdout, indicator, inspectors, errors, inputs, ran, tag, compiling, process, procs>>
    BY DEF playgroundVars, sessionVars, pageVars, displayVars, serverVars, runningVars, outVars
  <2>2. PlaygroundTypeOK'
    BY <2>1 DEF FreshInv, TypeInv, PlaygroundTypeOK, outVars
  <2>3. QED
    BY <2>1, <2>2, OtherKeeps
<1>2. FreshInv /\ PlaygroundNext => FreshInv'
  BY PageKeeps, LeaveKeeps, DeliverKeeps, DisconnectKeeps, LostKeeps, ServerSideKeeps
     DEF PlaygroundNext
<1>3. QED
  BY FreshInitially, <1>1, <1>2, PTL DEF PlaygroundSpec

(* The page keeps its types, and errors stay on lines that there are.      *)
THEOREM PlaygroundTypes == PlaygroundSpec => []PlaygroundTypeOK
BY FreshInvariant, PTL DEF FreshInv, TypeInv

(* All that the page shows is of the run that was asked for last.          *)
THEOREM PlaygroundFresh == PlaygroundSpec => []FreshDisplay
BY FreshInvariant, PTL DEF FreshInv

-----------------------------------------------------------------------------
(* A step keeps what the server knows of its programs, if those that are   *)
(* alive and not killed after it were so before, or are the new @process.  *)
LEMMA StrayKeeps ==
  ASSUME NoStrayProcess, process' = process,
         \A e \in DOMAIN procs' : Alive(e)' /\ ~procs'[e].killed =>
           e \in DOMAIN procs /\ Alive(e) /\ ~procs[e].killed
  PROVE  NoStrayProcess'
BY DEF NoStrayProcess

LEMMA StrayStep ==
  ASSUME TypeInv, NoStrayProcess, PlaygroundNext
  PROVE  NoStrayProcess'
<1>1. CASE UNCHANGED <<process, procs>>
  BY <1>1 DEF NoStrayProcess, Alive
<1>2. \A e \in DOMAIN procs : procs[e] \in Process
  BY DEF TypeInv
<1>3. CASE ReceiveStop
  <2>1. process' = None /\ procs' = Killed
    BY <1>3 DEF ReceiveStop
  <2>2. ASSUME NEW e \in DOMAIN procs, procs'[e].state = "running", ~procs'[e].killed PROVE FALSE
    BY <1>2, <2>1, <2>2 DEF Killed, NoStrayProcess, Alive, Process
  <2>3. QED
    BY <2>1, <2>2 DEF NoStrayProcess, Alive, Killed
<1>4. CASE Execute
  <2>1. PICK script :
          /\ procs' = [e \in DOMAIN procs \cup {compiling} |->
                          IF e = compiling THEN NewProcess(script) ELSE Killed[e]]
          /\ process' = compiling
    BY <1>4 DEF Execute
  <2>2. ASSUME NEW e \in DOMAIN procs, e # compiling,
               procs'[e].state = "running", ~procs'[e].killed PROVE FALSE
    BY <1>2, <2>1, <2>2 DEF Killed, NoStrayProcess, Alive, Process
  <2>3. QED
    BY <2>1, <2>2 DEF NoStrayProcess, Alive
<1>5. ASSUME NEW e \in DOMAIN procs,
             ReadOutput(e) \/ Reap(e) \/ Forward(e) \/ \E status \in {0, 1} : End(e, status)
      PROVE  NoStrayProcess'
  <2>1. PICK p : /\ procs' = [procs EXCEPT ![e] = p] /\ process' = process
                 /\ p.state = "running" /\ ~p.killed =>
                      procs[e].state = "running" /\ ~procs[e].killed
    <3>1. CASE ReadOutput(e)
      <4> DEFINE p == [procs[e] EXCEPT !.output = @ - 1]
      <4>1. procs' = [procs EXCEPT ![e] = p] /\ process' = process
        BY <3>1 DEF ReadOutput
      <4>2. p.state = procs[e].state /\ p.killed = procs[e].killed
        BY <1>2 DEF Process
      <4> QED
        BY <4>1, <4>2
    <3>2. CASE Forward(e)
      <4> DEFINE p == [procs[e] EXCEPT !.agent = Tail(@),
                         !.send_runtime = @ /\ ~(Head(procs[e].agent).kind = "runtime-exception")]
      <4>1. procs' = [procs EXCEPT ![e] = p] /\ process' = process
        BY <1>2, <3>2 DEF Forward, TypeInv
      <4>2. p.state = procs[e].state /\ p.killed = procs[e].killed
        BY <1>2 DEF Process
      <4> QED
        BY <4>1, <4>2
    <3>3. CASE Reap(e)
      <4>1. PICK sent : procs' = [procs EXCEPT ![e].state = "reaped", ![e].output = 0,
                                    ![e].killed = FALSE, ![e].status = 0,
                                    ![e].agent = SubSeq(@, 1, sent)]
        BY <3>3 DEF Reap
      <4> DEFINE p == [procs[e] EXCEPT !.state = "reaped", !.output = 0, !.killed = FALSE,
                                       !.status = 0, !.agent = SubSeq(@, 1, sent)]
      <4>2. procs' = [procs EXCEPT ![e] = p] /\ process' = process
        BY <1>2, <3>3, <4>1 DEF Reap, TypeInv
      <4>3. p.state = "reaped"
        BY <1>2 DEF Process
      <4> QED
        BY <4>2, <4>3
    <3>4. ASSUME NEW status \in {0, 1}, End(e, status)
          PROVE  \E p : /\ procs' = [procs EXCEPT ![e] = p] /\ process' = process
                        /\ p.state = "running" /\ ~p.killed =>
                             procs[e].state = "running" /\ ~procs[e].killed
      <4> DEFINE p == [procs[e] EXCEPT !.state = "ended", !.status = status]
      <4>1. procs' = [procs EXCEPT ![e] = p] /\ process' = process
        BY <3>4 DEF End
      <4>2. p.state = "ended"
        BY <1>2 DEF Process
      <4> QED
        BY <4>1, <4>2
    <3>5. QED
      BY <1>5, <3>1, <3>2, <3>3, <3>4
  <2>2. DOMAIN procs' = DOMAIN procs /\ procs'[e] = p /\ \A x \in DOMAIN procs \ {e} : procs'[x] = procs[x]
    BY <2>1 DEF TypeInv
  <2>3. QED
    BY <2>1, <2>2, StrayKeeps DEF Alive
<1>6. QED
  BY <1>1, <1>3, <1>4, <1>5
     DEF PlaygroundNext, PageStep, Leave, Deliver, Disconnect, ConnectionLost, ServerSide, serverVars,
         runningVars, ServerStep, Continue, ProgramStep, ReceiveRun, CompileFails, InstrumentationFails

(* The server can always stop what runs.                                   *)
THEOREM PlaygroundStoppable == PlaygroundSpec => []NoStrayProcess
<1>1. PlaygroundInit => NoStrayProcess
  BY FreshInitially DEF PlaygroundInit, ServerInit, NoStrayProcess, Alive
<1>2. TypeInv /\ NoStrayProcess /\ [PlaygroundNext]_playgroundVars => NoStrayProcess'
  <2>1. ASSUME NoStrayProcess, UNCHANGED playgroundVars PROVE NoStrayProcess'
    BY <2>1 DEF playgroundVars, serverVars, runningVars, NoStrayProcess, Alive
  <2>2. QED
    BY <2>1, StrayStep
<1>3. QED
  BY <1>1, <1>2, FreshInvariant, PTL DEF PlaygroundSpec, FreshInv

-----------------------------------------------------------------------------
(* The buttons and the indicator.  The last run goes through its stages    *)
(* once: asked for, compiled, running, finished; what finishes it may then *)
(* be sent several times, by all the fibers that wrote it.                 *)
Asks(m) == m.type = "run" /\ m.tag = ran.tag

Requests == {i \in 1..Len(toServer) : Asks(toServer[i])}
Finishing == \E m \in Messages : Finishes(m, ran)
Started == ran \in DOMAIN procs
Running == Started /\ procs[ran].state # "reaped"
Shown == \E i \in 1..Len(stdout) : stdout[i].type = "exit"

Indicator ==
  [colours : SUBSET {"grey", "teal", "red"}, isError : BOOLEAN, blink : BOOLEAN, earlier : Nat]

(* The last run has the last tag; before the first run, which a page that  *)
(* connects cannot send, nothing is under way.                             *)
Numbered ==
  /\ ran.tag \in {0, runTag}
  /\ ws = "connecting" => ran.tag = 0
  /\ ran.tag = 0 =>
       /\ \A i \in 1..Len(toServer) : toServer[i].type # "run"
       /\ compiling = None /\ DOMAIN procs = {} /\ Messages = {} /\ stdout = <<>>

OneStage ==
  /\ \A i, j \in Requests : i = j
  /\ Requests # {} => compiling # ran /\ ~Started /\ ~Finishing
  /\ compiling = ran => ~Started /\ ~Finishing
  /\ Running => ~Finishing /\ ~Shown
  /\ \A m \in Messages : Finishes(m, ran) /\ m.type = "exit" => Started
  /\ Shown => Started

FailureSeen ==
  Shown => /\ indicator.isError /\ "teal" \notin indicator.colours
           /\ stdout[Len(stdout)].type = "exit" => indicator.colours = {"red"}

StageInv == indicator \in Indicator /\ Numbered /\ OneStage /\ FailureSeen

RunInv == StageInv /\ ButtonsAgree

LEMMA UnfinishedIs ==
  TypeInv => /\ Unfinished(ran) <=> Requests # {} \/ compiling = ran \/ Running
             /\ Ending(ran) <=> \E m \in Due : Finishes(m, ran)
<1> SUFFICES ASSUME TypeInv
             PROVE  /\ Unfinished(ran) <=> Requests # {} \/ compiling = ran \/ Running
                    /\ Ending(ran) <=> \E m \in Due : Finishes(m, ran)
  OBVIOUS
<1>1. /\ DOMAIN toServer = 1..Len(toServer) /\ DOMAIN toClient = 1..Len(toClient)
      /\ DOMAIN writers = 1..Len(writers)
  BY DEF TypeInv, OutTypes
<1>2. \A i \in 1..Len(writers) : DOMAIN writers[i].left = 1..Len(writers[i].left)
  <2>1. \A i \in 1..Len(writers) : writers[i].left \in Seq(Message)
    <3>1. \A i \in 1..Len(writers) : writers[i] \in Writer
      BY DEF TypeInv, OutTypes
    <3>2. QED
      BY <3>1 DEF Writer
  <2>2. QED
    BY <2>1
<1>3. (\E i \in DOMAIN toServer : toServer[i].type = "run" /\ toServer[i].tag = ran.tag) <=> Requests # {}
  BY <1>1 DEF Requests, Asks
<1>4. (\E i \in DOMAIN toClient : Finishes(toClient[i], ran)) <=> \E m \in Items(toClient) : Finishes(m, ran)
  BY <1>1 DEF Items
<1>5. (\E i \in DOMAIN writers : \E j \in DOMAIN writers[i].left : Finishes(writers[i].left[j], ran))
        <=> \E m \in Left(writers) : Finishes(m, ran)
  <2>1. ASSUME NEW i \in 1..Len(writers), NEW j \in DOMAIN writers[i].left
        PROVE  writers[i].left[j] \in Left(writers)
    <3>1. writers[i] \in Items(writers) /\ writers[i].left[j] \in Items(writers[i].left)
      BY <1>2 DEF Items
    <3>2. QED
      BY <3>1 DEF Left
  <2>2. ASSUME NEW m \in Left(writers)
        PROVE  \E i \in 1..Len(writers) : \E j \in DOMAIN writers[i].left : m = writers[i].left[j]
    <3>1. PICK w \in Items(writers) : m \in Items(w.left)
      BY DEF Left
    <3>2. PICK i \in 1..Len(writers) : w = writers[i]
      BY DEF Items
    <3>3. PICK j \in 1..Len(writers[i].left) : m = writers[i].left[j]
      BY <3>1, <3>2 DEF Items
    <3>4. QED
      BY <1>2, <3>3
  <2>3. QED
    BY <1>1, <2>1, <2>2
<1>6. QED
  BY <1>3, <1>4, <1>5 DEF Unfinished, Ending, Due, Running, Started

LEMMA UnfinishedNext ==
  (TypeInv => /\ Unfinished(ran) <=> Requests # {} \/ compiling = ran \/ Running
              /\ Ending(ran) <=> \E m \in Due : Finishes(m, ran))'
BY UnfinishedIs, PTL

(* What has the tag of the last run is of the last run.                    *)
LEMMA Theirs ==
  ASSUME FreshInv, Numbered
  PROVE  /\ \A e \in DOMAIN procs : e # ran => e.tag # ran.tag
         /\ compiling # None /\ compiling # ran => compiling.tag # ran.tag
         /\ \A i \in 1..Len(toServer) : Asks(toServer[i]) => Requested(toServer[i]) = ran
         /\ Messages # {} \/ stdout # <<>> => ran.tag = runTag
<1>1. ran.tag \in Nat /\ runTag \in Nat
  BY DEF FreshInv, TypeInv, PlaygroundTypeOK, Execution
<1>2. \A i \in 1..Len(toServer) : toServer[i].tag = Requested(toServer[i]).tag
  BY DEF Requested
<1>3. QED
  BY <1>1, <1>2 DEF FreshInv, Provenance, Known, KnownBy, Numbered, Asks

LEMMA Took ==
  ASSUME TypeInv, toServer # <<>>, toServer' = Tail(toServer), UNCHANGED ran,
         \A i, j \in Requests : i = j
  PROVE  /\ \A i, j \in Requests' : i = j
         /\ Asks(Head(toServer)) => Requests # {} /\ Requests' = {}
         /\ ~Asks(Head(toServer)) => (Requests' = {} <=> Requests = {})
<1>1. /\ Len(toServer) \in Nat \ {0} /\ Len(toServer') = Len(toServer) - 1
      /\ \A i \in 1..Len(toServer') : toServer'[i] = toServer[i + 1]
      /\ Head(toServer) = toServer[1]
  BY DEF TypeInv
<1>2. \A i \in Requests' : i + 1 \in Requests /\ i \in 1..Len(toServer')
  BY <1>1 DEF Requests, Asks
<1>3. \A i \in Requests : i = 1 \/ i - 1 \in Requests'
  BY <1>1 DEF Requests, Asks
<1>4. 1 \in Requests <=> Asks(Head(toServer))
  BY <1>1 DEF Requests
<1>5. \A i, j \in Requests' : i = j
  BY <1>1, <1>2
<1>6. Asks(Head(toServer)) => Requests' = {}
  BY <1>1, <1>2, <1>4
<1>7. QED
  BY <1>2, <1>3, <1>4, <1>5, <1>6

(* A step that only ends or loses things keeps the stages.                 *)
LEMMA QuietKeeps ==
  ASSUME FreshInv, RunInv, TypeInv', UNCHANGED <<ran, stdout, compiling, procs>>,
         ran.tag \in {0, runTag'},
         \/ ws' # "open"
         \/ ran.tag = 0
         \/ ws = "open" /\ UNCHANGED button /\ Due' = Due /\ Requests' = Requests,
         ws' = "connecting" => ws = "connecting",
         \A i \in 1..Len(toServer') : toServer'[i].type = "run" =>
           i \in 1..Len(toServer) /\ toServer'[i] = toServer[i],
         Messages' \subseteq Messages,
         indicator' \in Indicator,
         indicator.isError => indicator'.isError /\ indicator'.colours = indicator.colours
  PROVE  RunInv'
<1> USE DEF RunInv, StageInv
<1>0. TypeInv
  BY DEF FreshInv
<1>1. Requests' \subseteq Requests
  BY DEF Requests, Asks
<1>2. Finishing' => Finishing
  BY DEF Finishing
<1>3. (Shown' <=> Shown) /\ (Started' <=> Started) /\ (Running' <=> Running)
  BY DEF Shown, Started, Running
<1>4. Numbered'
  BY DEF Numbered
<1>5. OneStage'
  <2>1. \A m \in Messages' : Finishes(m, ran') /\ m.type = "exit" => Started'
    BY <1>3 DEF OneStage
  <2>2. QED
    BY <1>1, <1>2, <1>3, <2>1 DEF OneStage
<1>6. FailureSeen'
  BY <1>3 DEF FailureSeen
<1>7. ButtonsAgree'
  <2>1. CASE ws' # "open" \/ ran.tag = 0
    <3>1. ran.tag \in Nat
      BY <1>0 DEF TypeInv, PlaygroundTypeOK, Execution
    <3>2. QED
      BY <2>1, <3>1 DEF ButtonsAgree
  <2>2. CASE ws = "open" /\ UNCHANGED button /\ Due' = Due /\ Requests' = Requests
    <3>1. (Unfinished(ran)' <=> Unfinished(ran)) /\ (Ending(ran)' <=> Ending(ran))
      BY <1>0, <1>3, <2>2, UnfinishedIs, UnfinishedNext
    <3>2. QED
      BY <2>2, <3>1 DEF ButtonsAgree
  <2>3. QED
    BY <2>1, <2>2
<1>8. QED
  BY <1>4, <1>5, <1>6, <1>7

(* A run that is sent, or would be to a socket that is not open, is new to *)
(* all that is under way.                                                  *)
LEMMA RunStages ==
  ASSUME FreshInv, RunInv, TypeInv', NEW readyState, NEW shown,
         run(readyState, shown), ~connectLostShown, readyState # "connecting",
         ws' = "open" => readyState = "open", ws' # "connecting",
         UNCHANGED <<toClient, serverVars>>
  PROVE  RunInv'
<1> USE DEF RunInv, StageInv
<1>0. TypeInv /\ runTag \in Nat
  BY DEF FreshInv, TypeInv, PlaygroundTypeOK
<1> DEFINE e == [tag |-> runTag + 1, source |-> editor]
<1>1. /\ runTag' = runTag + 1 /\ ran' = e /\ button' = "stop"
      /\ stdout' = <<>> /\ indicator' = turnOff(indicator)
      /\ toServer' = IF readyState = "open" THEN Append(toServer, RunRequest(e)) ELSE toServer
  BY DEF run, _clearStdout
<1>2. ran'.tag = runTag + 1 /\ ran'.tag # 0 /\ ~Shown'
  BY <1>0, <1>1 DEF Shown
<1>3. \A x : Known(x) /\ x \in Execution => x.tag # ran'.tag /\ x # ran'
  BY <1>0, <1>2 DEF Known, KnownBy, Execution
<1>4. ~Finishing' /\ \A m \in Messages' : ~Finishes(m, ran')
  <2>1. ASSUME NEW m \in Messages' PROVE ~Finishes(m, ran')
    <3>1. m \in Messages /\ m \in Message
      BY <1>0, MessagesType DEF Messages, Due, serverVars
    <3>2. m.by \in Execution /\ m.tag = m.by.tag /\ Known(m.by)
      BY <3>1, MessageFields DEF FreshInv, Provenance
    <3>3. QED
      BY <1>3, <3>2 DEF Finishes
  <2>2. QED
    BY <2>1 DEF Finishing
<1>5. compiling' # ran' /\ ~Started'
  <2>1. ran' \in Execution /\ UNCHANGED <<compiling, procs>>
    BY DEF TypeInv, PlaygroundTypeOK, serverVars, runningVars
  <2>2. compiling # ran'
    BY <1>0, <1>3, <2>1, Constants DEF FreshInv, Provenance, TypeInv, PlaygroundTypeOK
  <2>3. ran' \notin DOMAIN procs
    BY <1>0, <1>3 DEF FreshInv, Provenance, TypeInv, PlaygroundTypeOK
  <2>4. QED
    BY <2>1, <2>2, <2>3 DEF Started
<1>6. \A i \in 1..Len(toServer) : ~(toServer[i].type = "run" /\ toServer[i].tag = ran'.tag)
  <2>1. ASSUME NEW i \in 1..Len(toServer), toServer[i].type = "run" PROVE toServer[i].tag # ran'.tag
    <3>1. Requested(toServer[i]) \in Execution /\ Known(Requested(toServer[i]))
      BY <1>0, <2>1, RequestFields DEF FreshInv, Provenance, TypeInv
    <3>2. QED
      BY <1>3, <3>1 DEF Requested
  <2>2. QED
    BY <2>1
<1>7. /\ readyState = "open" => Requests' # {}
      /\ \A i, j \in Requests' : i = j
  <2>1. CASE readyState = "open"
    <3>1. toServer \in Seq(Request) /\ toServer' = Append(toServer, RunRequest(e))
      BY <1>0, <1>1, <2>1 DEF TypeInv
    <3>2. RunRequest(e).type = "run" /\ RunRequest(e).tag = ran'.tag
      BY <1>1 DEF RunRequest
    <3>3. /\ Len(toServer') = Len(toServer) + 1 /\ toServer'[Len(toServer) + 1] = RunRequest(e)
          /\ Len(toServer) \in Nat /\ \A i \in 1..Len(toServer) : toServer'[i] = toServer[i]
      BY <3>1
    <3> HIDE DEF e
    <3>4. Requests' = {Len(toServer) + 1}
      BY <1>6, <3>2, <3>3 DEF Requests, Asks
    <3>5. QED
      BY <3>4
  <2>2. CASE readyState # "open"
    <3>1. Requests' = {}
      BY <1>1, <1>6, <2>2 DEF Requests, Asks
    <3>2. QED
      BY <2>2, <3>1
  <2>3. QED
    BY <2>1, <2>2
<1>8. indicator' \in Indicator
  BY <1>1 DEF Indicator, turnOff
<1>9. Numbered'
  BY <1>1, <1>2 DEF Numbered
<1>10. OneStage'
  BY <1>2, <1>4, <1>5, <1>7 DEF OneStage, Running
<1>11. FailureSeen'
  BY <1>2 DEF FailureSeen
<1>12. ButtonsAgree'
  <2>1. readyState = "open" => Unfinished(ran)'
    BY <1>7, UnfinishedNext
  <2>2. QED
    BY <1>1, <2>1 DEF ButtonsAgree
<1>13. QED
  BY <1>8, <1>9, <1>10, <1>11, <1>12

LEMMA StopRequests ==
  ASSUME TypeInv, stop, UNCHANGED ran
  PROVE  /\ Requests' = Requests
         /\ \A i \in 1..Len(toServer') : toServer'[i].type = "run" =>
              i \in 1..Len(toServer) /\ toServer'[i] = toServer[i]
<1> DEFINE m == [type |-> "stop", tag |-> runTag]
<1>1. toServer \in Seq(Request) /\ m.type # "run"
  BY DEF TypeInv
<1>2. CASE toServer' = toServer
  BY <1>2 DEF Requests, Asks
<1>3. CASE toServer' = Append(toServer, m)
  <2> HIDE DEF m
  <2>1. /\ Len(toServer') = Len(toServer) + 1 /\ toServer'[Len(toServer) + 1] = m
        /\ Len(toServer) \in Nat /\ \A i \in 1..Len(toServer) : toServer'[i] = toServer[i]
    BY <1>1, <1>3
  <2>2. QED
    BY <1>1, <2>1 DEF Requests, Asks
<1>4. QED
  BY <1>2, <1>3 DEF stop, clientSend

(* What a step of the page does that leaves the queues and the run alone.  *)
LEMMA StillKeeps ==
  ASSUME FreshInv, RunInv, TypeInv', UNCHANGED <<ran, runTag, stdout, button, compiling, procs, toServer, outVars>>,
         ws' = ws \/ ws' \in {"closed", "gone"},
         indicator' \in Indicator,
         indicator.isError => indicator'.isError /\ indicator'.colours = indicator.colours
  PROVE  RunInv'
<1>1. Requests' = Requests /\ Messages' = Messages /\ Due' = Due
  BY DEF Requests, Asks, Messages, Due, outVars
<1>2. ran.tag \in {0, runTag'}
  BY DEF RunInv, StageInv, Numbered
<1>3. QED
  BY <1>1, <1>2, QuietKeeps

(* A run while the socket connects leaves no run behind, only its number.  *)
LEMMA RunAny ==
  ASSUME FreshInv, RunInv, TypeInv', run(ws, button),
         UNCHANGED <<ws, toClient, serverVars>>
  PROVE  RunInv'
<1> USE DEF RunInv, StageInv, serverVars, runningVars
<1>1. CASE connectLostShown
  BY <1>1, StillKeeps DEF run, displayVars, outVars
<1>2. CASE ~connectLostShown /\ ws = "connecting"
  <2>1. ran.tag = 0 /\ stdout = <<>>
    BY <1>2 DEF Numbered
  <2>2. /\ UNCHANGED <<ran, toServer>> /\ indicator' = turnOff(indicator) /\ stdout' = <<>>
    BY <1>2 DEF run, _clearStdout
  <2>3. indicator' \in Indicator
    BY <2>2 DEF Indicator, turnOff
  <2>4. Messages' = {} /\ Messages = {}
    BY <2>1 DEF Messages, Due, Numbered
  <2>5. Requests' = {} /\ Requests = {} /\ ~Finishing' /\ ~Shown'
    BY <2>1, <2>2, <2>4 DEF Requests, Asks, Finishing, Shown, Numbered
  <2>6. Numbered'
    BY <2>1, <2>2, <2>4 DEF Numbered
  <2>7. OneStage' /\ FailureSeen'
    BY <2>2, <2>4, <2>5 DEF OneStage, FailureSeen, Running, Started
  <2>8. ButtonsAgree'
    BY <1>2 DEF ButtonsAgree
  <2>9. QED
    BY <2>3, <2>6, <2>7, <2>8
<1>3. CASE ~connectLostShown /\ ws # "connecting"
  BY <1>3, RunStages
<1>4. QED
  BY <1>1, <1>2, <1>3

LEMMA PageRuns ==
  ASSUME FreshInv, RunInv, PageStep
  PROVE  RunInv'
<1>0. TypeInv /\ TypeInv' /\ indicator \in Indicator
  BY PageKeeps DEF FreshInv, RunInv, StageInv
<1> USE DEF PageStep, serverVars, runningVars, outVars
<1>1. CASE Blink
  <2>1. indicator' \in Indicator /\ (indicator.isError => indicator'.isError /\ indicator'.colours = indicator.colours)
    <3>1. blinked(indicator) \in SUBSET {"grey", "teal", "red"} /\ (indicator.isError => blinked(indicator) = indicator.colours)
      BY <1>0 DEF Indicator, blinked
    <3>2. ASSUME NEW c \in SUBSET {"grey", "teal", "red"}
          PROVE  /\ indicator.earlier > 0 => [indicator EXCEPT !.earlier = @ - 1, !.colours = c] \in Indicator
                 /\ [indicator EXCEPT !.blink = FALSE, !.colours = c] \in Indicator
      <4>1. indicator.earlier > 0 => indicator.earlier - 1 \in Nat
        BY <1>0 DEF Indicator
      <4>2. ASSUME NEW n \in Nat PROVE [indicator EXCEPT !.earlier = n, !.colours = c] \in Indicator
        BY <1>0 DEF Indicator
      <4>3. [indicator EXCEPT !.blink = FALSE, !.colours = c] \in Indicator
        BY <1>0 DEF Indicator
      <4>4. QED
        BY <4>1, <4>2, <4>3
    <3>3. indicator'.isError = indicator.isError /\ indicator'.colours = blinked(indicator)
      BY <1>0, <1>1 DEF Blink, Indicator
    <3>4. QED
      BY <1>1, <3>1, <3>2, <3>3 DEF Blink
  <2>2. QED
    BY <1>0, <1>1, <2>1, StillKeeps DEF Blink
<1>2. CASE ClickEditor
  BY <1>0, <1>2, StillKeeps DEF ClickEditor
<1>3. ASSUME NEW s \in Source, Edit(s) PROVE RunInv'
  BY <1>0, <1>3, StillKeeps DEF Edit
<1>4. CASE RunTimeout
  BY <1>0, <1>4, RunAny DEF RunTimeout
<1>5. CASE Play
  BY <1>0, <1>5, RunAny DEF Play
<1>6. CASE OtherLost
  BY <1>0, <1>6, StillKeeps DEF OtherLost, runVars, displayVars
<1>7. CASE ClickStop
  <2>1. ran.tag \in {0, runTag'}
    BY <1>7 DEF ClickStop, RunInv, StageInv, Numbered
  <2>2. Messages' = Messages /\ Due' = Due
    BY <1>7 DEF ClickStop, Messages, Due
  <2>3. QED
    BY <1>0, <1>7, <2>1, <2>2, StopRequests, QuietKeeps DEF ClickStop, displayVars
<1>8. CASE Opened
  <2>1. ran.tag = 0
    BY <1>8 DEF Opened, RunInv, StageInv, Numbered
  <2>2. CASE page.autorun /\ ~connectLostShown
    BY <1>0, <1>8, <2>2, RunStages DEF Opened
  <2>3. CASE ~(page.autorun /\ ~connectLostShown)
    <3>1. UNCHANGED <<runTag, ran, stdout, indicator, toServer, outVars, compiling, procs>> /\ ws' = "open"
      BY <1>8, <2>3 DEF Opened, run, displayVars
    <3>2. Messages' = Messages
      BY <3>1 DEF Messages, Due
    <3>3. QED
      BY <1>0, <2>1, <3>1, <3>2, QuietKeeps
  <2>4. QED
    BY <2>2, <2>3
<1>9. QED
  BY <1>1, <1>2, <1>3, <1>4, <1>5, <1>6, <1>7, <1>8 DEF UserStep, BrowserStep

(* The connection is lost or the page left.                                *)
LEMMA LossRuns ==
  ASSUME FreshInv, RunInv, Leave \/ Disconnect \/ ConnectionLost
  PROVE  RunInv'
<1>0. TypeInv /\ TypeInv' /\ indicator \in Indicator
  BY LeaveKeeps, DisconnectKeeps, LostKeeps DEF FreshInv, RunInv, StageInv
<1>1. ran.tag \in {0, runTag} /\ toServer \in Seq(Request) /\ toClient \in Seq(Message)
  BY <1>0 DEF RunInv, StageInv, Numbered, TypeInv, OutTypes
<1> USE DEF serverVars, runningVars
<1>2. CASE Leave
  <2>1. Messages' \subseteq Messages
    BY <1>2 DEF Leave, Unload, Messages, Due, Items
  <2>2. QED
    BY <1>0, <1>1, <1>2, <2>1, StopRequests, QuietKeeps DEF Leave, Unload, displayVars
<1>3. CASE Disconnect
  <2>1. Messages' = Messages
    BY <1>3 DEF Disconnect, Messages, Due
  <2>2. QED
    BY <1>0, <1>1, <1>3, <2>1, QuietKeeps DEF Disconnect, Closed, displayVars
<1>4. CASE ConnectionLost
  <2>1. \A i \in 1..Len(toServer') : i \in 1..Len(toServer) /\ toServer'[i] = toServer[i]
    BY <1>1, <1>4 DEF ConnectionLost, Lose
  <2>2. Items(toClient') \subseteq Items(toClient)
    BY <1>1, <1>4, ItemsCut DEF ConnectionLost, Lose
  <2>3. Messages' \subseteq Messages
    BY <1>4, <2>2 DEF ConnectionLost, Lose, Messages, Due
  <2>4. QED
    BY <1>0, <1>1, <1>4, <2>1, <2>3, QuietKeeps DEF ConnectionLost, Lose, pageVars, displayVars
<1>5. QED
  BY <1>2, <1>3, <1>4

(* A step of the server that leaves the last run in its stage.             *)
LEMMA AsideKeeps ==
  ASSUME FreshInv, RunInv, TypeInv', Numbered', UNCHANGED <<ws, pageVars>>,
         \A i, j \in Requests' : i = j, Requests' = {} <=> Requests = {},
         compiling' = ran <=> compiling = ran,
         Started' <=> Started, Running' <=> Running,
         NEW new, Written(new), \A m \in new : ~Finishes(m, ran)
  PROVE  RunInv'
<1> USE DEF RunInv, StageInv, pageVars, displayVars
<1>0. TypeInv
  BY DEF FreshInv
<1>1. /\ Finishing' => Finishing
      /\ \A m \in Messages' : Finishes(m, ran) => m \in Messages
  BY DEF Finishing, Written
<1>2. (Shown' <=> Shown) /\ FailureSeen'
  BY DEF Shown, FailureSeen
<1>3. OneStage'
  BY <1>1, <1>2 DEF OneStage
<1>4. ButtonsAgree'
  <2>1. (Unfinished(ran)' <=> Unfinished(ran)) /\ (ws = "open" /\ Ending(ran) => Ending(ran)')
    BY <1>0, UnfinishedIs, UnfinishedNext DEF Written
  <2>2. QED
    BY <2>1 DEF ButtonsAgree
<1>5. QED
  BY <1>2, <1>3, <1>4

(* The last run goes from one stage to the next, before its answer.        *)
LEMMA StageKeeps ==
  ASSUME FreshInv, RunInv, TypeInv', ran.tag # 0, UNCHANGED <<ws, pageVars>>,
         ~Finishing, ~Shown, Unfinished(ran),
         Requests' = {},
         \/ compiling' = ran /\ ~Started'
         \/ compiling' # ran /\ Running',
         NEW new, Written(new), \A m \in new : ~Finishes(m, ran)
  PROVE  RunInv'
<1> USE DEF RunInv, StageInv, pageVars, displayVars
<1>1. ~Finishing' /\ \A m \in Messages' : ~Finishes(m, ran)
  BY DEF Finishing, Written
<1>2. ~Shown'
  BY DEF Shown
<1>3. Numbered' /\ OneStage' /\ FailureSeen'
  BY <1>1, <1>2 DEF Numbered, OneStage, FailureSeen, Running
<1>4. Unfinished(ran)'
  BY UnfinishedNext
<1>5. ButtonsAgree'
  <2>1. ran.tag \in Nat
    BY DEF FreshInv, TypeInv, PlaygroundTypeOK, Execution
  <2>2. QED
    BY <1>4, <2>1 DEF ButtonsAgree
<1>6. QED
  BY <1>3, <1>5

(* The last run is answered.                                               *)
LEMMA AnswerKeeps ==
  ASSUME FreshInv, RunInv, TypeInv', ran.tag # 0, UNCHANGED <<ws, pageVars>>,
         ~Finishing, ~Shown,
         Requests' = {}, compiling' # ran, ~Running',
         NEW m, Written({m}), Finishes(m, ran), m.type = "exit" => Started'
  PROVE  RunInv'
<1> USE DEF RunInv, StageInv, pageVars, displayVars
<1>1. ~Shown'
  BY DEF Shown
<1>2. \A x \in Messages' : Finishes(x, ran) => x = m
  BY DEF Finishing, Written
<1>3. Numbered' /\ OneStage' /\ FailureSeen'
  BY <1>1, <1>2 DEF Numbered, OneStage, FailureSeen
<1>4. ~Unfinished(ran)' /\ (ws = "open" => Ending(ran)')
  BY UnfinishedNext DEF Written
<1>5. ButtonsAgree'
  BY <1>4 DEF ButtonsAgree
<1>6. QED
  BY <1>3, <1>5

LEMMA ReceiveRunRuns ==
  ASSUME FreshInv, RunInv, ReceiveRun, UNCHANGED <<ws, pageVars>>
  PROVE  RunInv'
<1> USE DEF pageVars
<1>0. TypeInv /\ TypeInv' /\ Numbered /\ OneStage /\ ButtonsAgree
  BY ReceiveRunKeeps DEF FreshInv, RunInv, StageInv
<1> DEFINE e == [tag |-> Head(toServer).tag, source |-> Head(toServer).source]
<1>1. /\ compiling = None /\ toServer # <<>> /\ toServer' = Tail(toServer)
      /\ Head(toServer).type = "run" /\ e = Requested(Head(toServer))
      /\ UNCHANGED <<process, procs>>
  BY DEF ReceiveRun, Receives, Requested
<1>2. Head(toServer) = toServer[1] /\ 1 \in 1..Len(toServer) /\ toServer[1] \in Request
  BY <1>0, <1>1 DEF TypeInv
<1>3. e \in Execution /\ e.tag = Head(toServer).tag
  BY <1>1, <1>2, RequestFields
<1>4. \/ compiling' = None /\ send(Client, ExceptionMessage(e, TRUE))
      \/ compiling' = e /\ SendsNothing
  BY <1>1 DEF ReceiveRun
<1>5. /\ ExceptionMessage(e, TRUE) \in Message
      /\ ExceptionMessage(e, TRUE).tag = e.tag /\ ExceptionMessage(e, TRUE).type = "exception"
  BY <1>3, MessageTypes DEF ExceptionMessage
<1>6. ran.tag # 0 /\ e # None /\ ran # None
  BY <1>0, <1>1, <1>2, <1>3, Constants DEF Numbered, TypeInv, PlaygroundTypeOK
<1>7. (Started' <=> Started) /\ (Running' <=> Running)
  BY <1>1 DEF Started, Running
<1>8. e = ran <=> Asks(Head(toServer))
  BY <1>0, <1>1, <1>2, <1>3, Theirs DEF Asks
<1>9. ran' = ran /\ \A i, j \in Requests : i = j
  BY <1>0 DEF OneStage
<1> DEFINE m == ExceptionMessage(e, TRUE)
<1>13. \/ compiling' = None /\ Written({m})
       \/ compiling' = e /\ Written({})
  <2>1. CASE compiling' = e /\ SendsNothing
    BY <1>0, <2>1, NoneSent
  <2>2. CASE compiling' = None /\ send(Client, m)
    <3> HIDE DEF e
    <3>1. m \in Message /\ Client \in Fiber
      BY <1>3, <1>5, FiberTypes
    <3> HIDE DEF m
    <3>2. QED
      BY <1>0, <2>2, <3>1, Sent
  <2>3. QED
    BY <1>4, <2>1, <2>2
<1> HIDE DEF e, m
<1>10. CASE e # ran
  <2>1. (Requests' = {} <=> Requests = {}) /\ \A i, j \in Requests' : i = j
    BY <1>0, <1>1, <1>8, <1>9, <1>10, Took
  <2>2. compiling' # ran /\ compiling # ran
    BY <1>1, <1>4, <1>6, <1>10
  <2>3. Numbered'
    BY <1>0, <1>6 DEF Numbered
  <2>4. e.tag # ran.tag
    <3>1. e.tag = Head(toServer).tag /\ ~Asks(Head(toServer))
      BY <1>3, <1>8, <1>10
    <3>2. QED
      BY <1>1, <3>1 DEF Asks
  <2>5. \A x \in {m} : ~Finishes(x, ran)
    BY <1>5, <2>4 DEF m, Finishes
  <2>6. QED
    BY <1>0, <1>1, <1>7, <1>13, <2>1, <2>2, <2>3, <2>5, AsideKeeps
<1>11. CASE e = ran
  <2>1. Requests # {} /\ Requests' = {}
    BY <1>0, <1>1, <1>8, <1>9, <1>11, Took
  <2>2. ~Started /\ ~Finishing /\ ~Shown /\ Unfinished(ran)
    BY <1>0, <2>1, UnfinishedIs DEF OneStage
  <2>3. ~Started' /\ ~Running'
    BY <1>7, <2>2 DEF Running
  <2>4. CASE compiling' = e /\ Written({})
    BY <1>0, <1>6, <1>11, <2>1, <2>2, <2>3, <2>4, StageKeeps
  <2>5. CASE compiling' = None /\ Written({m})
    <3>1. Finishes(m, ran) /\ m.type # "exit"
      BY <1>5, <1>11 DEF m, Finishes
    <3>2. QED
      BY <1>0, <1>6, <2>1, <2>2, <2>3, <2>5, <3>1, AnswerKeeps
  <2>6. QED
    BY <1>13, <2>4, <2>5
<1>12. QED
  BY <1>10, <1>11

LEMMA ReceiveStopRuns ==
  ASSUME FreshInv, RunInv, ReceiveStop, UNCHANGED <<ws, pageVars>>
  PROVE  RunInv'
<1> USE DEF pageVars, displayVars
<1>0. TypeInv /\ TypeInv' /\ Numbered /\ OneStage
  BY ReceiveStopKeeps DEF FreshInv, RunInv, StageInv
<1>1. /\ toServer # <<>> /\ toServer' = Tail(toServer) /\ Head(toServer).type = "stop"
      /\ procs' = Killed /\ SendsNothing /\ UNCHANGED compiling
  BY DEF ReceiveStop, Receives
<1>2. /\ DOMAIN procs' = DOMAIN procs
      /\ \A e \in DOMAIN procs : procs'[e].state = procs[e].state
  <2>1. \A e \in DOMAIN procs : procs[e] \in Process
    BY <1>0 DEF TypeInv
  <2>2. QED
    BY <1>1, <2>1 DEF Killed, Process
<1>3. (Requests' = {} <=> Requests = {}) /\ \A i, j \in Requests' : i = j
  BY <1>0, <1>1, Took DEF OneStage, Asks
<1>4. Numbered'
  <2>1. \A i \in 1..Len(toServer') : \E j \in 1..Len(toServer) : toServer'[i] = toServer[j]
    BY <1>0, <1>1, TakeType
  <2>2. QED
    BY <1>0, <1>1, <1>2, <2>1, NoneSent DEF Numbered
<1>5. (Started' <=> Started) /\ (Running' <=> Running)
  BY <1>2 DEF Started, Running
<1>6. Written({})
  BY <1>0, <1>1, NoneSent
<1>7. QED
  BY <1>0, <1>1, <1>3, <1>4, <1>5, <1>6, AsideKeeps

LEMMA ContinueRuns ==
  ASSUME FreshInv, RunInv, Continue, UNCHANGED <<ws, pageVars>>
  PROVE  RunInv'
<1> USE DEF pageVars, displayVars
<1>0. TypeInv /\ TypeInv' /\ Numbered /\ OneStage
  BY ContinueKeeps DEF FreshInv, RunInv, StageInv
<1>1. Written({}) /\ UNCHANGED <<toServer, compiling, procs>>
  BY <1>0, Continued DEF Continue, runningVars
<1>2. /\ Requests' = Requests /\ (Started' <=> Started) /\ (Running' <=> Running)
      /\ \A i, j \in Requests : i = j
  BY <1>0, <1>1 DEF Requests, Asks, Started, Running, OneStage
<1>3. Numbered'
  BY <1>0, <1>1 DEF Numbered, Written
<1>4. QED
  BY <1>0, <1>1, <1>2, <1>3, AsideKeeps

LEMMA CompilerRuns ==
  ASSUME FreshInv, RunInv, CompileFails \/ InstrumentationFails \/ Execute, UNCHANGED <<ws, pageVars>>
  PROVE  RunInv'
<1> USE DEF pageVars
<1>0. TypeInv /\ TypeInv' /\ Numbered /\ OneStage
  BY CompilerKeeps DEF FreshInv, RunInv, StageInv
<1>1. PICK e : e = compiling
  OBVIOUS
<1>2. e \in Execution /\ e # None /\ ran # None /\ compiling' = None /\ UNCHANGED toServer
  BY <1>0, <1>1, Constants
     DEF TypeInv, PlaygroundTypeOK, CompileFails, InstrumentationFails, Execute, Compiles
<1>3. ran.tag # 0
  BY <1>0, <1>1, <1>2 DEF Numbered
<1>4. Requests' = Requests /\ Numbered'
  BY <1>0, <1>2, <1>3 DEF Requests, Asks, Numbered
<1>5. e = ran => Requests = {} /\ ~Started /\ ~Finishing /\ ~Shown /\ Unfinished(ran)
  BY <1>0, <1>1, UnfinishedIs DEF OneStage
<1>6. e # ran => e.tag # ran.tag
  BY <1>0, <1>1, <1>2, Theirs
<1>7. CASE CompileFails \/ InstrumentationFails
  <2>1. UNCHANGED procs /\ (Started' <=> Started) /\ (Running' <=> Running)
    BY <1>7 DEF CompileFails, InstrumentationFails, Started, Running
  <2>2. PICK m \in Message : send(Client, m) /\ m.tag = e.tag /\ m.type \in {"exception", "bug"}
    <3>1. CASE CompileFails
      BY <1>1, <1>2, <3>1, MessageTypes DEF CompileFails, ExceptionMessage
    <3>2. CASE InstrumentationFails
      BY <1>1, <1>2, <3>2, MessageTypes DEF InstrumentationFails, BugMessage
    <3>3. QED
      BY <1>7, <3>1, <3>2
  <2>5. Written({m})
    BY <1>0, <1>2, <2>2, Sent, FiberTypes
  <2>3. CASE e # ran
    <3>1. \A x \in {m} : ~Finishes(x, ran)
      BY <1>6, <2>2, <2>3 DEF Finishes
    <3>2. \A i, j \in Requests' : i = j
      BY <1>0, <1>4 DEF OneStage
    <3>3. QED
      BY <1>0, <1>1, <1>2, <1>4, <2>1, <2>3, <2>5, <3>1, <3>2, AsideKeeps
  <2>4. CASE e = ran
    <3>1. Finishes(m, ran) /\ m.type # "exit" /\ ~Started' /\ ~Running'
      BY <1>5, <2>1, <2>2, <2>4 DEF Finishes, Running
    <3>2. QED
      BY <1>0, <1>2, <1>3, <1>4, <1>5, <2>4, <2>5, <3>1, AnswerKeeps
  <2>6. QED
    BY <2>3, <2>4
<1>8. CASE Execute
  <2>1. PICK script :
          procs' = [x \in DOMAIN procs \cup {e} |-> IF x = e THEN NewProcess(script) ELSE Killed[x]]
    BY <1>1, <1>8 DEF Execute
  <2>2. DOMAIN procs' = DOMAIN procs \cup {e} /\ procs'[e].state = "running"
    BY <2>1 DEF NewProcess
  <2>3. ASSUME NEW x \in DOMAIN procs, x # e
        PROVE  procs'[x].state = procs[x].state
    <3>1. procs[x] \in Process
      BY <1>0 DEF TypeInv
    <3>2. QED
      BY <2>1, <2>3, <3>1 DEF Killed, Process
  <2>4. PICK m \in Message : Written({m}) /\ m.type = "run"
    BY <1>0, <1>1, <1>2, <1>8, MessageTypes, Sent, FiberTypes DEF Execute, RunMessage
  <2>5. \A x \in {m} : ~Finishes(x, ran)
    BY <2>4 DEF Finishes
  <2>6. CASE e # ran
    <3>1. (Started' <=> Started) /\ (Running' <=> Running)
      BY <2>2, <2>3, <2>6 DEF Started, Running
    <3>2. \A i, j \in Requests' : i = j
      BY <1>0, <1>4 DEF OneStage
    <3>3. QED
      BY <1>0, <1>1, <1>2, <1>4, <2>4, <2>5, <2>6, <3>1, <3>2, AsideKeeps
  <2>7. CASE e = ran
    <3>1. Running' /\ compiling' # ran
      BY <1>2, <2>2, <2>7 DEF Running, Started
    <3>2. QED
      BY <1>0, <1>3, <1>4, <1>5, <2>4, <2>5, <2>7, <3>1, StageKeeps
  <2>8. QED
    BY <2>6, <2>7
<1>9. QED
  BY <1>7, <1>8

LEMMA ProgramsRun ==
  ASSUME FreshInv, RunInv, NEW e \in DOMAIN procs, UNCHANGED <<ws, pageVars>>,
         ReadOutput(e) \/ Reap(e) \/ Forward(e) \/ \E status \in {0, 1} : End(e, status)
  PROVE  RunInv'
<1> USE DEF pageVars
<1>0. TypeInv /\ TypeInv' /\ Numbered /\ OneStage /\ procs[e] \in Process /\ e \in Execution
  BY ProgramsKeep, ProcessType DEF FreshInv, RunInv, StageInv
<1>1. UNCHANGED <<toServer, compiling>> /\ ran.tag # 0
  BY <1>0 DEF ReadOutput, Reap, Forward, End, Numbered
<1>2. Requests' = Requests /\ Numbered' /\ \A i, j \in Requests' : i = j
  BY <1>0, <1>1 DEF Requests, Asks, Numbered, OneStage
<1>3. e # ran => e.tag # ran.tag
  BY <1>0, Theirs
<1>4. /\ DOMAIN procs' = DOMAIN procs /\ (Started' <=> Started)
      /\ \A x \in DOMAIN procs : x # e => procs'[x] = procs[x]
  BY <1>0 DEF ReadOutput, Reap, Forward, End, Started, TypeInv
<1>5. CASE Reap(e)
  <2>1. PICK sent \in 0..Len(procs[e].agent) :
          procs' = [procs EXCEPT ![e].state = "reaped", ![e].output = 0, ![e].killed = FALSE,
                                 ![e].status = 0, ![e].agent = SubSeq(@, 1, sent)]
    BY <1>5 DEF Reap
  <2>2. procs'[e].state = "reaped"
    BY <1>0, <2>1 DEF TypeInv, Process
  <2>3. PICK m \in Message : Written({m}) /\ m.tag = e.tag /\ m.type = "exit"
    <3>1. procs[e].status \in {0, 1}
      BY <1>0 DEF Process
    <3>2. QED
      BY <1>0, <1>5, <3>1, MessageTypes, Sent, FiberTypes DEF Reap, ExitMessage
  <2>4. CASE e # ran
    <3>1. \A x \in {m} : ~Finishes(x, ran)
      BY <1>3, <2>3, <2>4 DEF Finishes
    <3>2. Running' <=> Running
      BY <1>4, <2>4 DEF Running, Started
    <3>3. QED
      BY <1>0, <1>1, <1>2, <1>4, <2>3, <3>1, <3>2, AsideKeeps
  <2>5. CASE e = ran
    <3>1. Running
      BY <1>5, <2>5 DEF Running, Started, Reap
    <3>2. ~Finishing /\ ~Shown /\ Requests = {} /\ compiling # ran
      BY <1>0, <3>1 DEF OneStage, Running
    <3>3. ~Running' /\ Started'
      BY <1>4, <2>2, <2>5, <3>1 DEF Running
    <3>4. Finishes(m, ran)
      BY <2>3, <2>5 DEF Finishes
    <3>5. QED
      BY <1>0, <1>1, <1>2, <2>2, <2>3, <2>5, <3>2, <3>3, <3>4, AnswerKeeps
  <2>6. QED
    BY <2>4, <2>5
<1>6. CASE ~Reap(e)
  <2>1. procs'[e].state # "reaped" <=> procs[e].state # "reaped"
    BY <1>0, <1>6 DEF ReadOutput, Forward, End, TypeInv, Process
  <2>2. Running' <=> Running
    BY <1>4, <2>1 DEF Running, Started
  <2>3. PICK new : Written(new) /\ \A m \in new : ~Finishes(m, ran)
    <3>1. CASE SendsNothing
      BY <1>0, <3>1, NoneSent
    <3>2. CASE ReadOutput(e)
      <4>1. PICK m \in Message : Written({m}) /\ m.type = "output"
        BY <1>0, <3>2, MessageTypes, Sent, FiberTypes DEF ReadOutput, OutputMessage
      <4>2. \A x \in {m} : ~Finishes(x, ran)
        BY <4>1 DEF Finishes
      <4>3. QED
        BY <4>1, <4>2
    <3>3. CASE Forward(e) /\ ~SendsNothing
      <4> DEFINE event == Head(procs[e].agent)
      <4>1. event \in AnyEvent
        <5>1. procs[e].agent \in Seq(AnyEvent) /\ procs[e].agent # <<>>
          BY <1>0, <3>3 DEF Process, Forward
        <5>2. QED
          BY <5>1
      <4>2. send(Agent(e), AgentMessage(e, event))
        BY <3>3 DEF Forward
      <4> HIDE DEF event
      <4>3. PICK m \in Message : m = AgentMessage(e, event) /\ m.type \in {"value", "runtime-exception"}
        <5>1. AgentMessage(e, event) \in Message
          BY <1>0, <4>1, MessageTypes
        <5>2. event.kind \in {"value", "runtime-exception"}
          BY <4>1 DEF AnyEvent, Event
        <5>3. AgentMessage(e, event).type = event.kind
          BY DEF AgentMessage
        <5>4. QED
          BY <5>1, <5>2, <5>3
      <4>4. Written({m})
        BY <1>0, <4>2, <4>3, Sent, FiberTypes
      <4>5. \A x \in {m} : ~Finishes(x, ran)
        BY <4>3 DEF Finishes
      <4>6. QED
        BY <4>4, <4>5
    <3>4. QED
      BY <1>6, <3>1, <3>2, <3>3 DEF End
  <2>4. QED
    BY <1>0, <1>1, <1>2, <1>4, <2>2, <2>3, AsideKeeps
<1>7. QED
  BY <1>5, <1>6

(* A message of the last run arrives: an answer makes the button "play", a *)
(* bad exit status makes the indicator red, and output grey.               *)
LEMMA DeliverRuns ==
  ASSUME FreshInv, RunInv, Deliver
  PROVE  RunInv'
<1>0. TypeInv /\ TypeInv' /\ Numbered /\ OneStage /\ FailureSeen /\ indicator \in Indicator
  BY DeliverKeeps DEF FreshInv, RunInv, StageInv
<1>1. PICK m \in Message : /\ onmessage(m) /\ m \in Due
                          /\ Messages' \subseteq Messages /\ Due \subseteq Due' \cup {m}
  <2>1. toClient \in Seq(Message) /\ toClient # <<>> /\ toClient' = Tail(toClient)
    BY <1>0 DEF Deliver, TypeInv, OutTypes
  <2>2. Head(toClient) \in Message /\ Items(toClient) = {Head(toClient)} \cup Items(toClient')
    BY <2>1, ItemsFirst
  <2>3. QED
    BY <2>2 DEF Deliver, serverVars, Messages, Due
<1>2. /\ UNCHANGED <<ws, runTag, toServer, ran, tag, compiling, process, procs>>
  BY <1>1 DEF Deliver, onmessage, serverVars, runningVars
<1>3. ran.tag = runTag /\ ran.tag # 0 /\ m \in Messages
  BY <1>0, <1>1, Theirs DEF Numbered, Messages
<1>4. Requests' = Requests /\ (Started' <=> Started) /\ (Running' <=> Running) /\ (Finishing' => Finishing)
  BY <1>1, <1>2 DEF Requests, Asks, Started, Running, Finishing
<1>5. Numbered'
  BY <1>0, <1>2, <1>3 DEF Numbered
<1>6. /\ indicator' \in Indicator
      /\ Finishes(m, ran) => button' = "play"
      /\ ~Finishes(m, ran) => button' = button
  <2>1. /\ turnOnWithBlink(indicator) \in Indicator
        /\ turnError(indicator) \in Indicator
    <3>1. (IF indicator.blink THEN indicator.earlier + 1 ELSE indicator.earlier) \in Nat
      BY <1>0 DEF Indicator
    <3>2. ASSUME NEW n \in Nat
          PROVE  [indicator EXCEPT !.colours = {"grey"}, !.blink = TRUE, !.earlier = n] \in Indicator
      BY <1>0 DEF Indicator
    <3>3. turnError(indicator) \in Indicator
      BY <1>0 DEF Indicator, turnError
    <3>4. QED
      BY <1>0, <3>1, <3>2, <3>3 DEF turnOnWithBlink
  <2>2. QED
    BY <1>0, <1>1, <1>3, <2>1 DEF onmessage, Discard, Output, Value, RuntimeException, Exit, CompileException,
         Bug, displayVars, Current, Finishes
<1>7. Finishes(m, ran) => Requests = {} /\ compiling # ran /\ ~Running
  BY <1>0, <1>3 DEF OneStage, Finishing
<1>8. FailureSeen' /\ (Shown' => Shown \/ (Finishes(m, ran) /\ m.type = "exit"))
  <2>1. stdout \in Seq(Message)
    BY <1>0 DEF TypeInv
  <2>2. \/ UNCHANGED <<stdout, indicator>>
        \/ stdout' = Append(stdout, m) /\ m.type = "output" /\ indicator' = turnOnWithBlink(indicator)
        \/ /\ stdout' = Append(stdout, m) /\ m.type = "exit" /\ Finishes(m, ran)
           /\ indicator' = turnError(indicator)
    BY <1>1, <1>3 DEF onmessage, Discard, Output, Value, RuntimeException, Exit, _appendStdout, CompileException,
         Bug, displayVars, Current, Finishes
  <2>3. CASE UNCHANGED <<stdout, indicator>>
    <3>1. Shown' <=> Shown
      BY <2>3 DEF Shown
    <3>2. QED
      BY <1>0, <2>3, <3>1 DEF FailureSeen
  <2>4. ASSUME stdout' = Append(stdout, m)
        PROVE  /\ Shown' <=> Shown \/ m.type = "exit"
               /\ stdout'[Len(stdout')] = m
    <3>1. /\ Len(stdout) \in Nat /\ Len(stdout') = Len(stdout) + 1 /\ stdout'[Len(stdout) + 1] = m
          /\ \A i \in 1..Len(stdout) : stdout'[i] = stdout[i]
      BY <2>1, <2>4
    <3>2. QED
      BY <3>1 DEF Shown
  <2>5. CASE stdout' = Append(stdout, m) /\ m.type = "output" /\ indicator' = turnOnWithBlink(indicator)
    <3>1. indicator'.isError = indicator.isError /\ indicator'.colours = {"grey"}
      BY <1>0, <2>5 DEF turnOnWithBlink, Indicator
    <3>2. Shown' => Shown
      BY <2>4, <2>5
    <3>3. stdout'[Len(stdout')].type # "exit"
      BY <2>4, <2>5
    <3>4. QED
      BY <1>0, <3>1, <3>2, <3>3 DEF FailureSeen
  <2>6. CASE /\ stdout' = Append(stdout, m) /\ m.type = "exit" /\ Finishes(m, ran)
             /\ indicator' = turnError(indicator)
    <3>1. indicator'.isError /\ indicator'.colours = {"red"}
      BY <1>0, <2>6 DEF turnError, Indicator
    <3>2. QED
      BY <2>6, <3>1 DEF FailureSeen
  <2>7. QED
    BY <2>2, <2>3, <2>5, <2>6
<1>9. OneStage'
  <2>1. Shown' => Started /\ ~Running
    BY <1>0, <1>3, <1>7, <1>8 DEF OneStage
  <2>2. \A x \in Messages' : Finishes(x, ran) /\ x.type = "exit" => Started
    BY <1>0, <1>1 DEF OneStage
  <2>3. QED
    BY <1>0, <1>2, <1>4, <2>1, <2>2 DEF OneStage
<1>10. ButtonsAgree'
  <2>1. Unfinished(ran)' <=> Unfinished(ran)
    BY <1>0, <1>2, <1>4, UnfinishedIs, UnfinishedNext
  <2>2. CASE Finishes(m, ran)
    <3>1. ~Unfinished(ran)'
      BY <1>0, <1>7, <2>1, <2>2, UnfinishedIs
    <3>2. QED
      BY <1>2, <1>6, <2>2, <3>1 DEF ButtonsAgree
  <2>3. CASE ~Finishes(m, ran)
    <3>1. Ending(ran) => Ending(ran)'
      BY <1>0, <1>1, <1>2, <2>3, UnfinishedIs, UnfinishedNext
    <3>2. QED
      BY <1>2, <1>6, <2>1, <2>3, <3>1 DEF RunInv, ButtonsAgree
  <2>4. QED
    BY <2>2, <2>3
<1>11. QED
  BY <1>5, <1>6, <1>8, <1>9, <1>10 DEF RunInv, StageInv

LEMMA RunsInitially == PlaygroundInit => RunInv
<1> SUFFICES ASSUME PlaygroundInit PROVE RunInv
  OBVIOUS
<1>1. /\ ran.tag = 0 /\ toServer = <<>> /\ toClient = <<>> /\ stdout = <<>>
      /\ outBuffer = <<>> /\ writers = <<>>
      /\ compiling = None /\ procs = <<>> /\ ws = "connecting" /\ runTag = 0
      /\ indicator = [colours |-> {"grey"}, isError |-> FALSE, blink |-> FALSE, earlier |-> 0]
  BY DEF PlaygroundInit, SessionInit, ServerInit
<1>2. indicator \in Indicator
  BY <1>1 DEF Indicator
<1>3. DOMAIN procs = {} /\ Messages = {}
  BY <1>1 DEF Messages, Due, Left, Items
<1>4. Requests = {} /\ ~Finishing /\ ~Shown /\ ~Started
  BY <1>1, <1>3 DEF Requests, Finishing, Shown, Started
<1>5. compiling # ran
  BY <1>1, FreshInitially, Constants DEF FreshInv, TypeInv, PlaygroundTypeOK
<1>6. Numbered
  BY <1>1, <1>3 DEF Numbered
<1>7. OneStage /\ FailureSeen /\ ButtonsAgree
  BY <1>1, <1>3, <1>4, <1>5 DEF OneStage, FailureSeen, Running, ButtonsAgree
<1>8. QED
  BY <1>2, <1>6, <1>7 DEF RunInv, StageInv

(* Each run is at one stage of its way to an answer and back.              *)
THEOREM RunInvariant == PlaygroundSpec => []RunInv
<1>1. FreshInv /\ RunInv /\ UNCHANGED playgroundVars => RunInv'
  BY DEF playgroundVars, sessionVars, pageVars, displayVars, serverVars, runningVars, RunInv, StageInv,
         ButtonsAgree, Unfinished, Ending, Numbered, OneStage, FailureSeen, Requests, Finishing,
         Messages, Due, Asks, Finishes, Started, Running, Shown
<1>2. FreshInv /\ RunInv /\ PlaygroundNext => RunInv'
  BY PageRuns, LossRuns, DeliverRuns, ReceiveRunRuns, ReceiveStopRuns, ContinueRuns, CompilerRuns, ProgramsRun
     DEF PlaygroundNext, ServerSide, ServerStep, ProgramStep
<1>3. QED
  BY RunsInitially, <1>1, <1>2, FreshInvariant, PTL DEF PlaygroundSpec

(* Stop is shown as long as the last run is unfinished, and then only      *)
(* while its answer is on the way: every run of an open socket is answered,*)
(* though the fibers of the server write over one another in its buffer.   *)
THEOREM PlaygroundButtons == PlaygroundSpec => []ButtonsAgree
BY RunInvariant, PTL DEF RunInv

(* Once a bad exit status is shown, no timer lights the indicator up, and  *)
(* it is red unless output that was written late has turned it grey.       *)
THEOREM PlaygroundFailure == PlaygroundSpec => []FailureShown
<1>1. TypeInv /\ RunInv => FailureShown
  BY DEF TypeInv, RunInv, StageInv, FailureSeen, Shown, FailureShown, Failed
<1>2. QED
  BY <1>1, RunInvariant, FreshInvariant, PTL DEF FreshInv
=============================================================================
