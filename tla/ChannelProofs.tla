---------------------------- MODULE ChannelProofs ----------------------------
(***************************************************************************)
(* For every set of fibers, channels and programs, with or without select  *)
(* and whatever spurious resumptions it causes, a channel delivers every   *)
(* value it accepted once, in order, within its bound, and implements the  *)
(* abstract FifoChannel; and no fiber that selects is missed by a channel  *)
(* that has what it waits for.                                             *)
(*                                                                         *)
(* For the programs without a select: a fiber is woken at most once at a   *)
(* time, a value handed over is taken, nobody waits at an unbuffered       *)
(* channel for a partner that is there, and no wakeup is lost.             *)
(***************************************************************************)
EXTENDS Channel, SchedulerProofs, FiniteSetTheorems, WellFoundedInduction

-----------------------------------------------------------------------------
(***************************************************************************)
(* The values.                                                             *)
(***************************************************************************)
(* The strengthening of Fifo: the types it needs, and the bound.           *)
FifoTypes ==
  /\ prog \in Programs
  /\ ip \in [Fiber -> Nat]
  /\ closed \in [Channels -> BOOLEAN]
  /\ contents \in [Channels -> Seq(Message)]
  /\ sent \in [Channels -> Seq(Message)]
  /\ got \in [Channels -> Seq(Message)]

Bounded == \A c \in Channels : Len(contents[c]) <= InTransit[c]

FifoInv == FifoTypes /\ Bounded /\ Fifo

(* Moving the head of a queue to the end of the history keeps their sum.   *)
LEMMA MoveHead ==
  ASSUME NEW S, NEW g \in Seq(S), NEW q \in Seq(S), q # <<>>
  PROVE  /\ Append(g, Head(q)) \o Tail(q) = g \o q
         /\ Head(q) \in S
         /\ Tail(q) \in Seq(S)
         /\ Len(Tail(q)) = Len(q) - 1
         /\ (g \o q)[Len(g) + 1] = Head(q)
         /\ Len(g) < Len(g \o q)
<1>1. /\ Len(q) \in Nat \ {0}
      /\ Len(g) \in Nat
      /\ Head(q) = q[1]
      /\ Head(q) \in S
      /\ Tail(q) \in Seq(S)
      /\ Len(Tail(q)) = Len(q) - 1
      /\ \A i \in 1 .. Len(q) - 1 : Tail(q)[i] = q[i + 1]
  OBVIOUS
<1>2. /\ Append(g, Head(q)) \in Seq(S)
      /\ Len(Append(g, Head(q))) = Len(g) + 1
      /\ Append(g, Head(q))[Len(g) + 1] = q[1]
      /\ \A i \in 1 .. Len(g) : Append(g, Head(q))[i] = g[i]
  BY <1>1
<1> DEFINE l == Append(g, Head(q)) \o Tail(q)
           r == g \o q
<1>3. l \in Seq(S) /\ r \in Seq(S) /\ Len(l) = Len(r) /\ Len(r) = Len(g) + Len(q)
  BY <1>1, <1>2
<1>4. ASSUME NEW i \in 1 .. Len(r) PROVE l[i] = r[i]
  <2>1. CASE i <= Len(g)
    BY <2>1, <1>1, <1>2, <1>3
  <2>2. CASE i = Len(g) + 1
    BY <2>2, <1>1, <1>2, <1>3
  <2>3. CASE i > Len(g) + 1
    BY <2>3, <1>1, <1>2, <1>3
  <2>4. QED
    BY <2>1, <2>2, <2>3, <1>1, <1>3
<1>5. l = r
  BY <1>3, <1>4
<1>6. r[Len(g) + 1] = Head(q) /\ Len(g) < Len(r)
  BY <1>1, <1>3
<1>7. QED
  BY <1>1, <1>5, <1>6

LEMMA AppendMore ==
  ASSUME NEW S, NEW g \in Seq(S), NEW q \in Seq(S), NEW m \in S
  PROVE  /\ g \o Append(q, m) = Append(g \o q, m)
         /\ Append(q, m) \in Seq(S)
         /\ Len(Append(q, m)) = Len(q) + 1
  OBVIOUS

(* The three ways in which a step touches the values of a channel.         *)
Accepts(c, m) ==
  /\ ~closed[c] /\ ~NoRoom(c)
  /\ contents' = [contents EXCEPT ![c] = Append(@, m)]
  /\ sent' = [sent EXCEPT ![c] = Append(@, m)]
  /\ UNCHANGED <<closed, got>>

Delivers(c) ==
  /\ closed[c] => c \in Buffered
  /\ ~Empty(c)
  /\ contents' = [contents EXCEPT ![c] = Tail(@)]
  /\ got' = [got EXCEPT ![c] = Append(@, Head(contents[c]))]
  /\ UNCHANGED <<closed, sent>>

Shuts(c) ==
  /\ closed' = [closed EXCEPT ![c] = TRUE]
  /\ UNCHANGED <<contents, sent, got>>

(* Every step of the channels is one of them, or leaves the values alone.  *)
ValueStep ==
  \/ \E c \in Channels : Shuts(c) \/ Delivers(c) \/ \E m \in Message : Accepts(c, m)
  \/ UNCHANGED <<closed, contents, sent, got>>

LEMMA FinishSendMoves ==
  ASSUME FifoTypes, NEW f \in Fiber, NEW c \in Channels, NEW s, NEW r,
         ThisMessage(f) \in Message, closed[c] \/ ~NoRoom(c),
         FinishSend(f, c, s, r)
  PROVE  ValueStep
<1>1. CASE SendRaises(f, c, s, r)
  BY <1>1 DEF SendRaises, ValueStep
<1>2. CASE PutBuffered(f, c, s, r)
  <2>1. Accepts(c, ThisMessage(f))
    BY <1>2 DEF PutBuffered, Accepts
  <2>2. QED
    BY <2>1 DEF ValueStep
<1>3. CASE PutUnbuffered(f, c, s, r)
  <2>1. contents[c] = <<>>
    BY <1>3 DEF PutUnbuffered, NoRoom, Unbuffered
  <2>2. Append(contents[c], ThisMessage(f)) = <<ThisMessage(f)>>
    BY <2>1
  <2>3. Accepts(c, ThisMessage(f))
    BY <1>3, <2>2 DEF PutUnbuffered, Accepts
  <2>4. QED
    BY <2>3 DEF ValueStep
<1>4. QED
  BY <1>1, <1>2, <1>3 DEF FinishSend

LEMMA FinishReceiveMoves ==
  ASSUME FifoTypes, Bounded, NEW f \in Fiber, NEW c \in Channels, NEW s, NEW r,
         FinishReceive(f, c, s, r)
  PROVE  ValueStep
<1>1. CASE TakeBuffered(f, c, s, r)
  <2>1. Delivers(c)
    BY <1>1 DEF TakeBuffered, Delivers
  <2>2. QED
    BY <2>1 DEF ValueStep
<1>2. CASE TakeUnbuffered(f, c, s, r)
  <2>1. Len(contents[c]) <= 1 /\ contents[c] # <<>> /\ contents[c] \in Seq(Message)
    BY <1>2 DEF TakeUnbuffered, Bounded, InTransit, Unbuffered, FifoTypes, Empty
  <2>2. Tail(contents[c]) = <<>>
    BY <2>1
  <2>3. Delivers(c)
    BY <1>2, <2>2 DEF TakeUnbuffered, Delivers
  <2>4. QED
    BY <2>3 DEF ValueStep
<1>3. CASE ReceiveClosed(f, c, s, r)
  BY <1>3 DEF ReceiveClosed, ValueStep
<1>4. QED
  BY <1>1, <1>2, <1>3 DEF FinishReceive

(* The message of a running call is a Message, and its call a Call.        *)
LEMMA CallTyped ==
  ASSUME FifoTypes, NEW f \in Fiber, ip[f] \in 1 .. Len(prog[f])
  PROVE  ThisMessage(f) \in Message /\ ThisCall(f) \in Call
<1>1. prog[f] \in Seq(Call) /\ DOMAIN prog[f] \subseteq Site
  BY SchedulerAssumption, ChannelAssumption
     DEF SchedulerAssumption, ChannelAssumption, FifoTypes
<1>2. ip[f] \in Site /\ prog[f][ip[f]] \in Call
  BY <1>1
<1>3. QED
  BY <1>2 DEF ThisMessage, Message, ThisCall

LEMMA ChanStepMoves ==
  ASSUME FifoTypes, Bounded, NEW f \in Fiber, ChanStep(f)
  PROVE  ValueStep
<1>1. ASSUME NEW ops, ops \subseteq {"send", "receive", "receive?"}, Trying(f, ops)
      PROVE  ThisCall(f).ch \in Channels /\ ThisMessage(f) \in Message
  <2>1. ThisMessage(f) \in Message /\ ThisCall(f) \in Call
    BY <1>1, CallTyped DEF Trying
  <2>2. QED
    BY <1>1, <2>1, ChannelAssumption DEF ChannelAssumption, Trying
<1>2. CASE SendBlocks(f) \/ Sent(f) \/ ReceiveBlocks(f) \/ SelectWaits(f)
  BY <1>2 DEF SendBlocks, Sent, ReceiveBlocks, SelectWaits, chanVars, ValueStep
<1>3. CASE Send(f)
  <2>1. ThisCall(f).ch \in Channels /\ ThisMessage(f) \in Message
    BY <1>1, <1>3 DEF Send
  <2>2. QED
    BY <2>1, <1>3, FinishSendMoves DEF Send
<1>4. CASE Receive(f)
  <2>1. ThisCall(f).ch \in Channels
    BY <1>1, <1>4 DEF Receive
  <2>2. QED
    BY <2>1, <1>4, FinishReceiveMoves DEF Receive
<1>5. CASE Close(f)
  <2>1. ThisCall(f) \in Call /\ ThisCall(f).op = "close"
    BY <1>5, CallTyped DEF Close, Calls, ThisCall
  <2>2. ThisCall(f).ch \in Channels
    BY <2>1, ChannelAssumption DEF ChannelAssumption
  <2>3. Shuts(ThisCall(f).ch)
    BY <1>5 DEF Close, Shuts
  <2>4. QED
    BY <2>2, <2>3 DEF ValueStep
<1>6. CASE Select(f)
  <2>1. ThisMessage(f) \in Message /\ ThisCall(f) \in Call /\ ThisCall(f).op = "select"
    BY <1>6, CallTyped DEF Select, Selecting
  <2>2. ThisCall(f).ops \in Seq(SelectAction)
    BY <2>1, ChannelAssumption DEF ChannelAssumption
  <2> DEFINE ops == ThisCall(f).ops
             s == Unwaited(f, "send", senders)
             r == Unwaited(f, "receive", receivers)
  <2>3. PICK i \in DOMAIN ops :
          /\ Ready(ops[i], r)
          /\ IF ops[i].do = "send" THEN FinishSend(f, ops[i].ch, s, r)
                                   ELSE FinishReceive(f, ops[i].ch, s, r)
    BY <1>6 DEF Select
  <2>4. ops[i].ch \in Channels
    <3>1. ops \in Seq(SelectAction)
      BY <2>2
    <3> HIDE DEF ops
    <3>2. ops[i] \in SelectAction
      BY <3>1
    <3>3. QED
      BY <3>2 DEF SelectAction
  <2> HIDE DEF ops, s, r
  <2>5. CASE ops[i].do = "send"
    BY <2>1, <2>3, <2>4, <2>5, FinishSendMoves DEF Ready, Full
  <2>6. CASE ops[i].do # "send"
    BY <2>3, <2>4, <2>6, FinishReceiveMoves
  <2>7. QED
    BY <2>5, <2>6
<1>7. QED
  BY <1>2, <1>3, <1>4, <1>5, <1>6 DEF ChanStep

LEMMA NextMoves ==
  ASSUME FifoTypes, Bounded, [ChanNext]_allChanVars
  PROVE  ValueStep
<1>1. CASE UNCHANGED chanVars
  BY <1>1 DEF chanVars, ValueStep
<1>2. CASE UNCHANGED allChanVars
  BY <1>2 DEF allChanVars, chanVars, ValueStep
<1>3. QED
  BY <1>1, <1>2, ChanStepMoves DEF ChanNext

(* Programs are constant, and a fiber moves to a call number.              *)
LEMMA NextKeepsIp ==
  ASSUME FifoTypes, [ChanNext]_allChanVars
  PROVE  prog' = prog /\ ip' \in [Fiber -> Nat]
<1>1. ASSUME NEW f \in Fiber, NEW i \in Nat, GoTo(f, i)
      PROVE  ip' \in [Fiber -> Nat]
  BY <1>1 DEF GoTo, FifoTypes
<1>2. \A f \in Fiber : ip[f] + 1 \in Nat /\ Len(prog[f]) + 1 \in Nat
  BY SchedulerAssumption DEF SchedulerAssumption, FifoTypes
<1>3. ASSUME NEW f \in Fiber, Return(f) \/ Raise(f)
      PROVE  ip' \in [Fiber -> Nat]
  BY <1>1, <1>2, <1>3 DEF Return, Raise
<1>4. ASSUME NEW f \in Fiber, SchedStep(f)
      PROVE  prog' = prog /\ ip' \in [Fiber -> Nat]
  <2>1. CASE Jump(f)
    <3>1. ThisCall(f) \in Call /\ ThisCall(f).op = "goto"
      BY <2>1, CallTyped DEF Jump, Calls, ThisCall
    <3>2. ThisCall(f).to \in Nat
      BY <3>1, SchedulerAssumption DEF SchedulerAssumption
    <3>3. QED
      BY <2>1, <3>2, <1>1 DEF Jump
  <2>2. CASE Spawn(f) \/ Awake(f)
    BY <2>2, <1>3 DEF Spawn, Awake
  <2>3. CASE Sleep(f) \/ SleepForever(f) \/ Finish(f) \/ Fire(f)
    BY <2>3 DEF Sleep, SleepForever, Finish, Fire, SuspendAt, FifoTypes
  <2>4. QED
    BY <2>1, <2>2, <2>3, <1>4 DEF SchedStep
<1>5. ASSUME NEW f \in Fiber, NEW c, NEW s, NEW r,
             FinishSend(f, c, s, r) \/ FinishReceive(f, c, s, r)
      PROVE  ip' \in [Fiber -> Nat]
  BY <1>3, <1>5 DEF FinishSend, FinishReceive, SendRaises, PutBuffered,
     PutUnbuffered, TakeBuffered, TakeUnbuffered, ReceiveClosed, SuspendAt, FifoTypes
<1>6. ASSUME NEW f \in Fiber, ChanStep(f)
      PROVE  prog' = prog /\ ip' \in [Fiber -> Nat]
  <2>1. CASE SendBlocks(f) \/ ReceiveBlocks(f)
    BY <2>1 DEF SendBlocks, ReceiveBlocks, SuspendAt, FifoTypes
  <2>2. CASE Sent(f) \/ Close(f)
    BY <2>2, <1>3 DEF Sent, Close
  <2>3. CASE SelectWaits(f)
    BY <2>3, <1>3 DEF SelectWaits, SuspendAt, FifoTypes
  <2>4. CASE Send(f) \/ Receive(f)
    BY <2>4, <1>5 DEF Send, Receive
  <2>5. CASE Select(f)
    BY <2>5, <1>5 DEF Select
  <2>6. QED
    BY <2>1, <2>2, <2>3, <2>4, <2>5, <1>6 DEF ChanStep
<1>7. CASE Exit
  BY <1>7 DEF Exit, FifoTypes
<1>8. CASE UNCHANGED allChanVars
  BY <1>8 DEF allChanVars, schedVars, FifoTypes
<1>9. QED
  BY <1>4, <1>6, <1>7, <1>8 DEF ChanNext, SchedNext

LEMMA FifoInitially == ChanInit => FifoInv
<1> SUFFICES ASSUME ChanInit PROVE FifoInv
  OBVIOUS
<1>1. FifoTypes
  BY DEF ChanInit, SchedInit, FifoTypes
<1>2. Fifo
  BY DEF ChanInit, Fifo
<1>3. Bounded
  BY ChannelAssumption DEF ChanInit, Bounded, InTransit, ChannelAssumption
<1>4. QED
  BY <1>1, <1>2, <1>3 DEF FifoInv

LEMMA ValueStepKeeps ==
  ASSUME FifoInv, ValueStep, prog' = prog, ip' \in [Fiber -> Nat]
  PROVE  FifoInv'
<1> USE DEF FifoInv
<1>0. FifoTypes /\ Bounded /\ Fifo
  OBVIOUS
<1>1. ASSUME NEW c \in Channels, NEW m \in Message, Accepts(c, m)
      PROVE  FifoInv'
  <2>1. /\ contents[c] \in Seq(Message) /\ got[c] \in Seq(Message)
        /\ sent[c] = got[c] \o contents[c]
    BY <1>0 DEF FifoTypes, Fifo
  <2>2. /\ got[c] \o Append(contents[c], m) = Append(sent[c], m)
        /\ Append(contents[c], m) \in Seq(Message)
        /\ Len(Append(contents[c], m)) = Len(contents[c]) + 1
    <3>1. contents[c] \in Seq(Message) /\ got[c] \in Seq(Message)
      BY <2>1
    <3>2. /\ got[c] \o Append(contents[c], m) = Append(got[c] \o contents[c], m)
          /\ Append(contents[c], m) \in Seq(Message)
          /\ Len(Append(contents[c], m)) = Len(contents[c]) + 1
      BY ONLY <3>1, m \in Message, AppendMore
    <3>3. QED
      BY <2>1, <3>2
  <2>3. FifoTypes'
    BY <1>0, <1>1, <2>2 DEF FifoTypes, Accepts
  <2>4. Fifo'
    BY <1>0, <1>1, <2>2 DEF FifoTypes, Fifo, Accepts
  <2>5. Len(contents[c]) + 1 <= InTransit[c]
    <3>1. CASE c \in Buffered
      BY <3>1, <1>1, <2>1, ChannelAssumption
         DEF Accepts, NoRoom, InTransit, ChannelAssumption
    <3>2. CASE c \notin Buffered
      BY <3>2, <1>1, <2>1 DEF Accepts, NoRoom, InTransit
    <3>3. QED
      BY <3>1, <3>2
  <2>6. Bounded'
    BY <1>0, <1>1, <2>2, <2>5 DEF FifoTypes, Bounded, Accepts
  <2>7. QED
    BY <2>3, <2>4, <2>6
<1>2. ASSUME NEW c \in Channels, Delivers(c)
      PROVE  FifoInv'
  <2>1. /\ contents[c] \in Seq(Message) /\ got[c] \in Seq(Message)
        /\ sent[c] = got[c] \o contents[c]
        /\ contents[c] # <<>>
    BY <1>0, <1>2 DEF FifoTypes, Fifo, Delivers, Empty
  <2>2. /\ Append(got[c], Head(contents[c])) \o Tail(contents[c]) = sent[c]
        /\ Head(contents[c]) \in Message
        /\ Tail(contents[c]) \in Seq(Message)
        /\ Len(Tail(contents[c])) = Len(contents[c]) - 1
    <3>1. /\ contents[c] \in Seq(Message) /\ got[c] \in Seq(Message)
          /\ contents[c] # <<>>
      BY <2>1
    <3>2. /\ Append(got[c], Head(contents[c])) \o Tail(contents[c])
                = got[c] \o contents[c]
          /\ Head(contents[c]) \in Message
          /\ Tail(contents[c]) \in Seq(Message)
          /\ Len(Tail(contents[c])) = Len(contents[c]) - 1
      BY ONLY <3>1, MoveHead
    <3>3. QED
      BY <2>1, <3>2
  <2>3. FifoTypes'
    BY <1>0, <1>2, <2>1, <2>2 DEF FifoTypes, Delivers
  <2>4. Fifo'
    BY <1>0, <1>2, <2>2 DEF FifoTypes, Fifo, Delivers
  <2>5. Len(contents[c]) - 1 <= InTransit[c]
    BY <1>0, <2>1, ChannelAssumption DEF Bounded, InTransit, ChannelAssumption
  <2>6. Bounded'
    BY <1>0, <1>2, <2>2, <2>5 DEF FifoTypes, Bounded, Delivers
  <2>7. QED
    BY <2>3, <2>4, <2>6
<1>3. ASSUME NEW c \in Channels, Shuts(c)
      PROVE  FifoInv'
  BY <1>0, <1>3 DEF FifoTypes, Fifo, Bounded, Shuts
<1>4. CASE UNCHANGED <<closed, contents, sent, got>>
  BY <1>0, <1>4 DEF FifoTypes, Fifo, Bounded
<1>5. QED
  BY <1>1, <1>2, <1>3, <1>4 DEF ValueStep

LEMMA FifoInductive == FifoInv /\ [ChanNext]_allChanVars => FifoInv'
<1> SUFFICES ASSUME FifoInv, [ChanNext]_allChanVars
             PROVE  FifoInv'
  OBVIOUS
<1>1. FifoTypes /\ Bounded
  BY DEF FifoInv
<1>2. QED
  BY <1>1, NextMoves, NextKeepsIp, ValueStepKeeps

(* Every channel, buffered or not, delivers the values it accepted once    *)
(* each and in order, and overwrites none (Channel#send,                   *)
(* Channel#receive_impl, Channel.select), whatever the fibers do.          *)
THEOREM ChannelFifo == ChanSpec => []Fifo
<1>1. FifoInv => Fifo
  BY DEF FifoInv
<1>2. QED
  BY FifoInitially, FifoInductive, <1>1, PTL DEF ChanSpec

(* A step of the values is a step of the promise, or changes nothing of it. *)
LEMMA ValueStepRefines ==
  ASSUME FifoInv, ValueStep
  PROVE  [Promise!FifoNext]_(Promise!fifoVars)
<1>0. FifoTypes /\ Bounded /\ Fifo
  BY DEF FifoInv
<1>1. ASSUME NEW c \in Channels, NEW m \in Message, Accepts(c, m)
      PROVE  Promise!Accept(c, m)
  <2>1. /\ contents[c] \in Seq(Message) /\ got[c] \in Seq(Message)
        /\ sent[c] = got[c] \o contents[c]
    BY <1>0 DEF FifoTypes, Fifo
  <2>2. /\ Len(sent[c]) = Len(got[c]) + Len(contents[c])
        /\ Len(got[c]) \in Nat /\ Len(contents[c]) \in Nat
    BY <2>1
  <2>3. Len(contents[c]) < InTransit[c]
    <3>1. CASE c \in Buffered
      BY <3>1, <1>1, <2>1, ChannelAssumption
         DEF Accepts, NoRoom, InTransit, ChannelAssumption
    <3>2. CASE c \notin Buffered
      BY <3>2, <1>1, <2>1 DEF Accepts, NoRoom, InTransit
    <3>3. QED
      BY <3>1, <3>2
  <2>4. InTransit[c] \in Nat
    BY ChannelAssumption DEF InTransit, ChannelAssumption
  <2>5. Len(sent[c]) < Len(got[c]) + InTransit[c]
    <3>1. \A x, y, z \in Nat : y < z => x + y < x + z
      OBVIOUS
    <3>2. Len(got[c]) + Len(contents[c]) < Len(got[c]) + InTransit[c]
      BY <2>2, <2>3, <2>4, <3>1
    <3>3. QED
      BY <2>2, <3>2
  <2>6. QED
    BY <1>1, <2>5 DEF Promise!Accept, Accepts
<1>2. ASSUME NEW c \in Channels, Delivers(c)
      PROVE  Promise!Deliver(c)
  <2>1. /\ contents[c] \in Seq(Message) /\ got[c] \in Seq(Message)
        /\ sent[c] = got[c] \o contents[c]
        /\ contents[c] # <<>>
    BY <1>0, <1>2 DEF FifoTypes, Fifo, Delivers, Empty
  <2>2. /\ sent[c][Len(got[c]) + 1] = Head(contents[c])
        /\ Len(got[c]) < Len(sent[c])
    <3>1. /\ contents[c] \in Seq(Message) /\ got[c] \in Seq(Message)
          /\ contents[c] # <<>>
      BY <2>1
    <3>2. /\ (got[c] \o contents[c])[Len(got[c]) + 1] = Head(contents[c])
          /\ Len(got[c]) < Len(got[c] \o contents[c])
      BY ONLY <3>1, MoveHead
    <3>3. QED
      BY <2>1, <3>2
  <2>3. QED
    BY <1>2, <2>2 DEF Promise!Deliver, Delivers
<1>3. ASSUME NEW c \in Channels, Shuts(c)
      PROVE  Promise!Shut(c)
  BY <1>3 DEF Promise!Shut, Shuts
<1>4. CASE UNCHANGED <<closed, contents, sent, got>>
  BY <1>4 DEF Promise!fifoVars
<1>5. QED
  BY <1>1, <1>2, <1>3, <1>4 DEF ValueStep, Promise!FifoNext

(* The channels of channel.cr implement the abstract FIFO channel: nothing *)
(* is accepted once closed or beyond the bound, nothing is delivered out   *)
(* of order, twice or, on an unbuffered channel, once closed.              *)
THEOREM ChannelImplementsFifo == ChanSpec => ImplementsFifo
<1>1. ChanInit => Promise!FifoInit
  BY DEF ChanInit, Promise!FifoInit
<1>2. FifoInv /\ [ChanNext]_allChanVars => [Promise!FifoNext]_(Promise!fifoVars)
  BY NextMoves, ValueStepRefines DEF FifoInv
<1>3. QED
  BY <1>1, <1>2, FifoInitially, FifoInductive, PTL
     DEF ChanSpec, ImplementsFifo, Promise!FifoSpec

-----------------------------------------------------------------------------
(***************************************************************************)
(* Waiting, in the programs without a select.                              *)
(* Whoever waits is in one queue or has handed a value over, and whoever is *)
(* resumed directly finds what it waits for.                               *)
(***************************************************************************)
Receives == {"receive", "receive?"}

(* Fiber g waits for channel c, in one of the calls ops.                   *)
Waits(g, c, ops) ==
  /\ Idle(g) /\ at[g] = "retry" /\ ip[g] \in 1 .. Len(prog[g])
  /\ ThisCall(g).op \in ops /\ ThisCall(g).ch = c

(* The wait queues hold distinct fibers that wait for the channel and that *)
(* nothing else will resume.                                               *)
Parked ==
  \A c \in Channels :
    /\ Distinct(senders[c]) /\ \A g \in Mem(senders[c]) : Waits(g, c, {"send"})
    /\ Distinct(receivers[c]) /\ \A g \in Mem(receivers[c]) : Waits(g, c, Receives)

(* Fiber g has handed a value to channel c, and waits until it is taken.   *)
Hands(g, c) ==
  /\ g \in Fiber /\ Idle(g) /\ at[g] = "handed" /\ ip[g] \in 1 .. Len(prog[g])
  /\ ThisCall(g).ch = c

Handing == \A c \in Unbuffered : contents[c] # <<>> => Hands(contents[c][1].from, c)

WaitInv == prog \in Programs /\ SchedInv /\ ChanTypeOK /\ Parked /\ Handing

(* A step moves no fiber but f.                                            *)
Others(f) ==
  /\ prog' = prog
  /\ \A g \in Fiber \ {f} : at'[g] = at[g] /\ ip'[g] = ip[g]

(* A fiber that a step neither moves nor releases goes on waiting.         *)
Stays(R) ==
  \A g \in Fiber \ R : Idle(g) =>
    Idle(g)' /\ at'[g] = at[g] /\ ip'[g] = ip[g] /\ prog'[g] = prog[g]

LEMMA StillWaits ==
  ASSUME NEW R, Stays(R), NEW g \in Fiber \ R
  PROVE  /\ \A c, ops : Waits(g, c, ops) => Waits(g, c, ops)'
         /\ \A c : Hands(g, c) => Hands(g, c)'
BY DEF Stays, Waits, Hands, ThisCall

(* A fiber waits for one thing only.                                       *)
LEMMA WaitsOnce ==
  ASSUME ChanTypeOK, Parked, NEW g, NEW c \in Channels, NEW d \in Channels
  PROVE  /\ g \in Mem(senders[c]) => g \notin Mem(receivers[d])
         /\ g \in Mem(senders[c]) /\ g \in Mem(senders[d]) => c = d
         /\ g \in Mem(receivers[c]) /\ g \in Mem(receivers[d]) => c = d
         /\ Hands(g, d) => g \notin Mem(senders[c]) /\ g \notin Mem(receivers[c])
BY DEF Parked, Waits, Receives, Hands

LEMMA MembersAreFibers ==
  ASSUME ChanTypeOK, NEW c \in Channels
  PROVE  Mem(senders[c]) \subseteq Fiber /\ Mem(receivers[c]) \subseteq Fiber
<1>1. senders[c] \in Seq(Fiber) /\ receivers[c] \in Seq(Fiber)
  BY DEF ChanTypeOK
<1>2. QED
  BY <1>1 DEF Mem

(* The four ways in which a step of a channel moves fibers: the running    *)
(* one goes on; it goes on and releases those of gs; it is suspended; it   *)
(* switches to g.                                                          *)
LEMMA GoesOn ==
  ASSUME WaitInv, NEW f \in Fiber, Active(f), Return(f) \/ Raise(f),
         UNCHANGED <<prog, current, runnables, timers, born, ended>>
  PROVE  SchedInv' /\ Stays({}) /\ Others(f) /\ at'[f] = "start"
<1>1. SchedInv /\ SchedTypeOK
  BY DEF WaitInv, SchedInv
<1>2. PICK i \in {ip[f] + 1, Len(prog[f]) + 1} : GoTo(f, i)
  BY DEF Return, Raise
<1>3. i \in Nat
  BY <1>1, <1>2 DEF SchedTypeOK
<1>4. SchedInv'
  BY <1>1, <1>2, <1>3, MoveKeeps
<1>5. Stays({}) /\ Others(f) /\ at'[f] = "start"
  BY <1>1, <1>2 DEF Stays, Others, Idle, GoTo, Active, Queued, SchedTypeOK
<1>6. QED
  BY <1>4, <1>5

LEMMA GoesOnWaking ==
  ASSUME WaitInv, NEW f \in Fiber, Active(f), Return(f),
         NEW gs \in Seq(Fiber), Distinct(gs),
         \A g \in Mem(gs) : Idle(g) /\ at[g] \in {"retry", "handed"},
         Enqueue(gs), UNCHANGED <<prog, current, timers, born, ended>>
  PROVE  /\ SchedInv' /\ Stays(Mem(gs)) /\ Others(f) /\ at'[f] = "start"
         /\ \A g \in Fiber : Queued(g)' # {} <=> Queued(g) # {} \/ g \in Mem(gs)
<1>1. SchedInv /\ SchedTypeOK /\ OneWakeup
  BY DEF WaitInv, SchedInv
<1>2. ip[f] + 1 \in Nat /\ GoTo(f, ip[f] + 1)
  BY <1>1 DEF SchedTypeOK, Return
<1>3. \A g \in Mem(gs) : Idle(g) /\ g \notin timers
  BY <1>1 DEF OneWakeup, Sleeping
<1>4. /\ SchedInv'
      /\ \A g \in Fiber : Queued(g)' # {} <=> Queued(g) # {} \/ g \in Mem(gs)
  BY <1>1, <1>2, <1>3, WakeAllKeeps
<1>5. Stays(Mem(gs)) /\ Others(f) /\ at'[f] = "start"
  <2>1. /\ ip' = [ip EXCEPT ![f] = ip[f] + 1] /\ at' = [at EXCEPT ![f] = "start"]
        /\ f = current
    BY <1>2 DEF GoTo, Active
  <2>2. QED
    BY <1>1, <1>4, <2>1 DEF Stays, Others, Idle, SchedTypeOK
<1>6. QED
  BY <1>4, <1>5

LEMMA Suspends ==
  ASSUME WaitInv, NEW f \in Fiber, Active(f), NEW where \in {"retry", "handed"},
         SuspendAt(f, where), Reschedule(runnables), UNCHANGED <<prog, timers, born, ended>>
  PROVE  /\ SchedInv' /\ Stays({}) /\ Others(f)
         /\ Idle(f)' /\ at'[f] = where /\ ip'[f] = ip[f]
         /\ \A g \in Fiber : Queued(g)' # {} => Queued(g) # {}
         /\ current' \in Fiber => Queued(current') # {} /\ at'[current'] = at[current']
                                 /\ ip'[current'] = ip[current']
<1>1. SchedInv /\ SchedTypeOK /\ OneWakeup /\ where \in Place /\ where # "start"
  BY DEF WaitInv, SchedInv, Place
<1>2. SchedInv'
  BY <1>1, SuspendKeeps
<1>3. /\ current' \in Fiber \cup {Loop}
      /\ \A g \in Fiber : Queued(g)' # {} <=> Queued(g) # {} /\ g # current'
      /\ current' \in Fiber => Queued(current') # {}
  BY <1>1, RescheduleTakes DEF SchedTypeOK, OneWakeup
<1>4. /\ at' = [at EXCEPT ![f] = where] /\ ip' = ip
      /\ f = current /\ f \in born \ ended /\ Queued(f) = {}
  BY <1>1 DEF SuspendAt, Active, OneWakeup, Scheduled
<1>5. f # current' /\ Idle(f)'
  BY <1>3, <1>4 DEF Idle
<1>6. Stays({}) /\ Others(f)
  BY <1>1, <1>3, <1>4 DEF Stays, Others, Idle, SchedTypeOK
<1>7. QED
  BY <1>1, <1>2, <1>3, <1>4, <1>5, <1>6 DEF SchedTypeOK

LEMMA Switches ==
  ASSUME WaitInv, NEW f \in Fiber, Active(f), NEW where \in {"retry", "handed"},
         SuspendAt(f, where), NEW g \in Fiber, Idle(g), at[g] = "retry", Resume(g),
         UNCHANGED <<prog, runnables, timers, born, ended>>
  PROVE  /\ SchedInv' /\ Stays({g}) /\ Others(f)
         /\ Idle(f)' /\ at'[f] = where /\ ip'[f] = ip[f]
         /\ \A h \in Fiber : Queued(h)' # {} => Queued(h) # {}
         /\ current' = g /\ at'[g] = at[g] /\ ip'[g] = ip[g]
<1>1. SchedInv /\ SchedTypeOK /\ OneWakeup /\ where \in Place /\ where # "start"
  BY DEF WaitInv, SchedInv, Place
<1>2. g \notin timers
  BY <1>1 DEF OneWakeup, Sleeping
<1>3. /\ SchedInv' /\ current' = g
      /\ \A h \in Fiber : Queued(h)' = Queued(h)
  BY <1>1, <1>2, SwitchKeeps
<1>4. /\ at' = [at EXCEPT ![f] = where] /\ ip' = ip
      /\ f = current /\ f \in born \ ended /\ Queued(f) = {} /\ g # f
  BY <1>1 DEF SuspendAt, Active, OneWakeup, Scheduled, Idle
<1>5. QED
  BY <1>1, <1>3, <1>4 DEF Stays, Others, Idle, SchedTypeOK

(* What a step that releases the fibers of R, and may make f wait,         *)
(* preserves.                                                              *)
LEMMA ListsKeep ==
  ASSUME WaitInv, NEW f \in Fiber, NEW R, Stays(R),
         \A d \in Channels :
           /\ Distinct(senders'[d])
           /\ Mem(senders'[d]) \subseteq (Mem(senders[d]) \cup {f}) \ R
           /\ f \in Mem(senders'[d]) => Waits(f, d, {"send"})',
         \A d \in Channels :
           /\ Distinct(receivers'[d])
           /\ Mem(receivers'[d]) \subseteq (Mem(receivers[d]) \cup {f}) \ R
           /\ f \in Mem(receivers'[d]) => Waits(f, d, Receives)',
         \A d \in Unbuffered : contents'[d] # <<>> =>
           \/ contents'[d] = contents[d] /\ contents[d][1].from \notin R
           \/ Hands(contents[d][1].from, d)'
  PROVE  Parked' /\ Handing'
<1>1. /\ ChanTypeOK /\ Parked /\ Handing
  BY DEF WaitInv
<1>2. ASSUME NEW d \in Channels, NEW g \in Mem(senders'[d])
      PROVE  Waits(g, d, {"send"})'
  <2>1. CASE g = f
    BY <1>2, <2>1
  <2>2. CASE g # f
    <3>1. g \in Mem(senders[d]) /\ g \in Fiber \ R
      BY <1>1, <1>2, <2>2, MembersAreFibers
    <3>2. Waits(g, d, {"send"})
      BY <1>1, <3>1 DEF Parked
    <3>3. QED
      BY <3>1, <3>2, StillWaits
  <2>3. QED
    BY <2>1, <2>2
<1>3. ASSUME NEW d \in Channels, NEW g \in Mem(receivers'[d])
      PROVE  Waits(g, d, Receives)'
  <2>1. CASE g = f
    BY <1>3, <2>1
  <2>2. CASE g # f
    <3>1. g \in Mem(receivers[d]) /\ g \in Fiber \ R
      BY <1>1, <1>3, <2>2, MembersAreFibers
    <3>2. Waits(g, d, Receives)
      BY <1>1, <3>1 DEF Parked
    <3>3. QED
      BY <3>1, <3>2, StillWaits
  <2>3. QED
    BY <2>1, <2>2
<1>4. Parked'
  BY <1>2, <1>3 DEF Parked
<1>5. ASSUME NEW d \in Unbuffered, contents'[d] # <<>>
      PROVE  Hands(contents[d][1].from, d)'
  <2>1. CASE contents'[d] = contents[d] /\ contents[d][1].from \notin R
    <3>1. Hands(contents[d][1].from, d)
      BY <1>1, <1>5, <2>1 DEF Handing
    <3>2. contents[d][1].from \in Fiber \ R
      BY <2>1, <3>1 DEF Hands
    <3>3. QED
      BY <2>1, <3>1, <3>2, StillWaits
  <2>2. QED
    BY <1>5, <2>1
<1>6. QED
  BY <1>4, <1>5 DEF Handing

(* The queues of the other channels, when those of one change.             *)
LEMMA OneListChanges ==
  ASSUME WaitInv, NEW f \in Fiber, NEW R, Active(f), Stays(R), NEW c \in Channels,
         senders' \in [Channels -> Seq(Fiber)], receivers' \in [Channels -> Seq(Fiber)],
         \A d \in Channels \ {c} : senders'[d] = senders[d] /\ receivers'[d] = receivers[d],
         Distinct(senders'[c]), Distinct(receivers'[c]),
         Mem(senders'[c]) \subseteq (Mem(senders[c]) \cup {f}) \ R,
         Mem(receivers'[c]) \subseteq (Mem(receivers[c]) \cup {f}) \ R,
         f \in Mem(senders'[c]) => Waits(f, c, {"send"})',
         f \in Mem(receivers'[c]) => Waits(f, c, Receives)',
         \A g \in R : \/ g \in Mem(senders[c]) \/ g \in Mem(receivers[c]) \/ Hands(g, c),
         \A d \in Unbuffered : contents'[d] # <<>> =>
           \/ contents'[d] = contents[d]
              /\ (d = c => \A g \in R : ~Hands(g, c))
           \/ Hands(contents[d][1].from, d)'
  PROVE  Parked' /\ Handing'
<1>1. ChanTypeOK /\ Parked /\ Handing /\ ~Idle(f)
  BY DEF WaitInv, Idle, Active
<1>2. ASSUME NEW d \in Channels \ {c}
      PROVE  /\ Mem(senders[d]) \cap (R \cup {f}) = {}
             /\ Mem(receivers[d]) \cap (R \cup {f}) = {}
  <2>1. f \notin Mem(senders[d]) /\ f \notin Mem(receivers[d])
    BY <1>1 DEF Parked, Waits
  <2>2. ASSUME NEW g \in R PROVE g \notin Mem(senders[d]) /\ g \notin Mem(receivers[d])
    BY <1>1, WaitsOnce
  <2>3. QED
    BY <2>1, <2>2
<1>3. \A d \in Channels :
        /\ Distinct(senders'[d])
        /\ Mem(senders'[d]) \subseteq (Mem(senders[d]) \cup {f}) \ R
        /\ f \in Mem(senders'[d]) => Waits(f, d, {"send"})'
  BY <1>1, <1>2 DEF Parked
<1>4. \A d \in Channels :
        /\ Distinct(receivers'[d])
        /\ Mem(receivers'[d]) \subseteq (Mem(receivers[d]) \cup {f}) \ R
        /\ f \in Mem(receivers'[d]) => Waits(f, d, Receives)'
  BY <1>1, <1>2 DEF Parked
<1>5. ASSUME NEW d \in Unbuffered, contents'[d] # <<>>
      PROVE  \/ contents'[d] = contents[d] /\ contents[d][1].from \notin R
             \/ Hands(contents[d][1].from, d)'
  <2>1. CASE contents'[d] = contents[d] /\ (d = c => \A g \in R : ~Hands(g, c))
    <3> DEFINE g == contents[d][1].from
    <3>1. Hands(g, d)
      BY <1>1, <1>5, <2>1 DEF Handing
    <3>2. d \in Channels
      BY DEF Unbuffered
    <3> HIDE DEF g
    <3>3. ASSUME g \in R PROVE FALSE
      <4>1. g \notin Mem(senders[c]) /\ g \notin Mem(receivers[c])
        BY <1>1, <3>1, <3>2, WaitsOnce
      <4>2. Hands(g, c)
        BY <3>3, <4>1
      <4>3. c = d
        BY <3>1, <4>2 DEF Hands
      <4>4. QED
        BY <2>1, <3>3, <4>2, <4>3
    <3>4. QED
      BY <2>1, <3>3 DEF g
  <2>2. QED
    BY <1>5, <2>1
<1>6. QED
  BY <1>3, <1>4, <1>5, ListsKeep

(* Fiber g is inside a wait loop on channel c.                             *)
AtRetry(g, c) == g \in Fiber /\ at[g] = "retry" /\ ThisCall(g).ch = c

(* On an unbuffered channel, who waits for whom: a fiber resumed directly  *)
(* finds what it waits for; one that went through the run queue was        *)
(* released by close; and receivers and senders wait together only while   *)
(* the one sender that was resumed serves the one receiver.                *)
ServedAt(c) ==
  /\ receivers[c] # <<>> => ~closed[c]
  /\ \A g \in Fiber : AtRetry(g, c) /\ Queued(g) # {} => closed[c]
  /\ AtRetry(current, c) => \/ closed[c]
                            \/ ThisCall(current).op = "send" /\ Empty(c) /\ receivers[c] # <<>>
                            \/ ThisCall(current).op # "send" /\ ~Empty(c)
  /\ receivers[c] # <<>> => Empty(c) \/ AtRetry(current, c)
  /\ receivers[c] # <<>> /\ senders[c] # <<>> =>
       Len(receivers[c]) = 1 /\ AtRetry(current, c) /\ ThisCall(current).op = "send"

Served == \A c \in Unbuffered : ServedAt(c)

(* A fiber that is not created yet is at the start of its program.         *)
Unborn == \A g \in Fiber \ born : at[g] = "start"

(* A step that touches neither the channel nor a fiber at it.              *)
LEMMA ServedElsewhere ==
  ASSUME NEW f \in Fiber, NEW d \in Channels, ServedAt(d), Others(f),
         closed'[d] = closed[d], contents'[d] = contents[d],
         senders'[d] = senders[d], receivers'[d] = receivers[d],
         ~AtRetry(current, d), ~AtRetry(f, d)',
         \A g \in Fiber \ {f} : AtRetry(g, d) /\ (Queued(g)' # {} \/ current' = g) => Queued(g) # {}
  PROVE  ServedAt(d)'
<1>1. \A g \in Fiber : AtRetry(g, d)' => g # f /\ AtRetry(g, d)
  BY DEF AtRetry, Others, ThisCall
<1>2. \A g \in Fiber : AtRetry(g, d)' /\ (Queued(g)' # {} \/ current' = g) => closed[d]
  BY <1>1 DEF ServedAt
<1>3. AtRetry(current, d)' => closed[d]
  <2>1. AtRetry(current, d)' => current' \in Fiber
    BY DEF AtRetry
  <2>2. QED
    BY <1>2, <2>1 DEF AtRetry
<1>4. receivers[d] # <<>> => Empty(d) /\ senders[d] = <<>> /\ ~closed[d]
  BY DEF ServedAt
<1>5. QED
  BY <1>2, <1>3, <1>4 DEF ServedAt, Empty

(* What a step of the scheduler leaves alone.                              *)
LEMMA SchedMoves ==
  ASSUME SchedInv, Unborn, SchedNext
  PROVE  \E f \in born :
           /\ Others(f) /\ Stays({f}) /\ born \subseteq born'
           /\ current \in {f, Loop}
           /\ at[f] \notin {"retry", "handed"} /\ at'[f] \notin {"retry", "handed"}
           /\ \A g \in Fiber \ {f} :
                at[g] # "start" /\ (Queued(g)' # {} \/ current' = g) => Queued(g) # {}
<1> USE SchedulerAssumption DEF SchedulerAssumption
<1>0. SchedTypeOK /\ OneWakeup /\ LiveCurrent
  BY DEF SchedInv
<1> DEFINE Goal(f) ==
           /\ Others(f) /\ Stays({f}) /\ born \subseteq born'
           /\ current \in {f, Loop}
           /\ at[f] \notin {"retry", "handed"} /\ at'[f] \notin {"retry", "handed"}
           /\ \A g \in Fiber \ {f} :
                at[g] # "start" /\ (Queued(g)' # {} \/ current' = g) => Queued(g) # {}
<1>1. ASSUME NEW f \in Fiber, Spawn(f) PROVE f \in born /\ Goal(f)
  <2>1. ThisCall(f) \in Call /\ ThisCall(f).op = "spawn"
    BY <1>0, <1>1 DEF Spawn, Calls, ThisCall, SchedTypeOK
  <2> DEFINE h == ThisCall(f).fiber
  <2>2. h \in Fiber \ born
    BY <1>1, <2>1 DEF Spawn
  <2>3. /\ born' = born \cup {h} /\ Enqueue(<<h>>)
        /\ UNCHANGED <<prog, current, timers, ended>>
        /\ ip' = [ip EXCEPT ![f] = ip[f] + 1] /\ at' = [at EXCEPT ![f] = "start"]
        /\ current = f /\ f \in born \ ended /\ at[f] = "start"
    BY <1>1 DEF Spawn, Return, GoTo, Calls, Active
  <2> HIDE DEF h
  <2>4. Queued(h) = {}
    BY <1>0, <2>2 DEF OneWakeup, Scheduled
  <2>5. \A g \in Fiber : Queued(g)' # {} <=> Queued(g) # {} \/ g = h
    BY <2>2, <2>3, <2>4, EnqueueNew
  <2>6. Others(f) /\ at'[f] = "start"
    BY <1>0, <2>3 DEF Others, SchedTypeOK
  <2>7. Stays({f})
    BY <1>0, <2>2, <2>3, <2>5 DEF Stays, Idle, SchedTypeOK
  <2>8. at[h] = "start"
    BY <2>2 DEF Unborn
  <2>9. QED
    BY <2>3, <2>5, <2>6, <2>7, <2>8
<1>2. ASSUME NEW f \in Fiber, Sleep(f) \/ SleepForever(f) \/ Finish(f)
      PROVE  f \in born /\ Goal(f)
  <2>1. /\ Active(f) /\ Reschedule(runnables) /\ at[f] = "start"
        /\ ended \subseteq ended' /\ ended' \subseteq ended \cup {f} /\ born' = born
        /\ prog' = prog /\ ip' = ip
        /\ at' = at \/ at' = [at EXCEPT ![f] = "asleep"]
    BY <1>2 DEF Sleep, SleepForever, Finish, Calls, SuspendAt
  <2>2. /\ \A g \in Fiber : Queued(g)' # {} <=> Queued(g) # {} /\ g # current'
        /\ current' \in Fiber => Queued(current') # {}
    BY <1>0, <2>1, RescheduleTakes DEF SchedTypeOK, OneWakeup
  <2>3. Others(f) /\ at'[f] \in {"start", "asleep"}
    BY <1>0, <2>1 DEF Others, SchedTypeOK
  <2>4. Stays({f})
    BY <1>0, <2>1, <2>2, <2>3 DEF Stays, Idle, Others, SchedTypeOK
  <2>5. QED
    BY <2>1, <2>2, <2>3, <2>4 DEF Active
<1>3. ASSUME NEW f \in Fiber, Awake(f) \/ Jump(f) \/ (f = Main /\ Exit)
      PROVE  f \in born /\ Goal(f)
  <2>1. /\ Active(f) /\ at[f] \in {"start", "asleep"}
        /\ UNCHANGED <<prog, current, runnables, born, ended>>
    BY <1>3 DEF Awake, Jump, Exit, Calls, ResumedAt
  <2>2. Others(f) /\ at'[f] \in {"start", "exited"}
    BY <1>0, <1>3 DEF Awake, Jump, Exit, Return, GoTo, Others, SchedTypeOK
  <2>3. \A g \in Fiber : Queued(g)' = Queued(g)
    BY <2>1 DEF Queued
  <2>4. Stays({f})
    BY <2>1, <2>2, <2>3 DEF Stays, Idle, Others
  <2>5. current = f /\ f \in born
    BY <2>1 DEF Active
  <2>6. QED
    BY <2>1, <2>2, <2>3, <2>4, <2>5
<1>4. ASSUME NEW f \in Fiber, Fire(f) PROVE f \in born /\ Goal(f)
  <2>1. /\ current = Loop /\ current' = f /\ f \in timers
        /\ UNCHANGED <<prog, ip, at, runnables, born, ended>>
    BY <1>4 DEF Fire, Resume
  <2>2. f \in born /\ at[f] \in Sleeping
    BY <1>0, <2>1 DEF OneWakeup, Scheduled
  <2>3. \A g \in Fiber : Queued(g)' = Queued(g)
    BY <2>1 DEF Queued
  <2>4. Others(f) /\ Stays({f})
    BY <2>1, <2>3 DEF Stays, Idle, Others
  <2>5. QED
    BY <2>1, <2>2, <2>3, <2>4 DEF Sleeping
<1>5. Main \in Fiber
  OBVIOUS
<1> HIDE DEF Goal
<1>6. \E f \in born : Goal(f)
  BY <1>1, <1>2, <1>3, <1>4, <1>5 DEF SchedNext, SchedStep
<1>7. QED
  BY <1>6 DEF Goal

(* What a step preserves, the values of the channels apart.                *)
Kept == /\ SchedInv' /\ Parked' /\ Handing' /\ Unborn' /\ Served'
        /\ senders' \in [Channels -> Seq(Fiber)] /\ receivers' \in [Channels -> Seq(Fiber)]

ChanInv == FifoInv /\ WaitInv /\ Unborn /\ Served

(* What the operations of a channel share: the fiber that calls one waits  *)
(* at no other channel, and every other fiber is in one call.              *)
LEMMA AtOneChannel ==
  ASSUME ChanInv, NEW f \in Fiber, Active(f), NEW c \in Channels, ThisCall(f).ch = c,
         ip'[f] = ip[f] \/ at'[f] # "retry", Others(f)
  PROVE  /\ f \in born /\ (born' = born => Unborn')
         /\ \A d \in Channels \ {c} : ~AtRetry(current, d) /\ ~AtRetry(f, d)'
         /\ \A d \in Channels : f \notin Mem(senders[d]) /\ f \notin Mem(receivers[d])
<1>1. f = current /\ f \in born
  BY DEF Active
<1>2. born' = born => Unborn'
  BY <1>1 DEF ChanInv, Unborn, Others
<1>3. ASSUME NEW d \in Channels, d # c PROVE ~AtRetry(current, d) /\ ~AtRetry(f, d)'
  <2>1. ~AtRetry(current, d)
    BY <1>1, <1>3 DEF AtRetry
  <2>2. CASE at'[f] # "retry"
    BY <2>1, <2>2 DEF AtRetry
  <2>3. CASE ip'[f] = ip[f]
    <3>1. prog'[f][ip'[f]] = ThisCall(f)
      BY <2>3 DEF Others, ThisCall
    <3>2. QED
      BY <1>3, <2>1, <3>1 DEF AtRetry, ThisCall
  <2>4. QED
    BY <2>2, <2>3
<1>4. ASSUME NEW d \in Channels PROVE f \notin Mem(senders[d]) /\ f \notin Mem(receivers[d])
  BY <1>1 DEF ChanInv, WaitInv, Parked, Waits, Idle
<1>5. QED
  BY <1>1, <1>2, <1>3, <1>4

LEMMA SendBlocksKeeps ==
  ASSUME ChanInv, NEW f \in Fiber, SendBlocks(f), NEW c \in Channels, ThisCall(f).ch = c
  PROVE  Kept
<1>1. /\ Active(f) /\ at[f] \in {"start", "retry"} /\ ip[f] \in 1 .. Len(prog[f])
      /\ ThisCall(f).op = "send" /\ NoRoom(c) /\ ~closed[c]
      /\ senders' = [senders EXCEPT ![c] = Append(@, f)]
      /\ SuspendAt(f, "retry") /\ Reschedule(runnables)
      /\ UNCHANGED <<prog, timers, born, ended, closed, receivers, contents, sent, got>>
  BY DEF SendBlocks, Trying
<1>2. WaitInv /\ ChanTypeOK /\ Parked /\ Served
  BY DEF ChanInv, WaitInv
<1>3. /\ SchedInv' /\ Stays({}) /\ Others(f) /\ Idle(f)' /\ at'[f] = "retry" /\ ip'[f] = ip[f]
      /\ \A g \in Fiber : Queued(g)' # {} => Queued(g) # {}
      /\ current' \in Fiber => Queued(current') # {} /\ at'[current'] = at[current']
                              /\ ip'[current'] = ip[current']
  BY <1>1, <1>2, Suspends
<1>4. /\ f \in born /\ (born' = born => Unborn')
      /\ \A d \in Channels \ {c} : ~AtRetry(current, d) /\ ~AtRetry(f, d)'
      /\ \A d \in Channels : f \notin Mem(senders[d]) /\ f \notin Mem(receivers[d])
  BY <1>1, <1>3, AtOneChannel
<1>5. Waits(f, c, {"send"})'
  BY <1>1, <1>3 DEF Waits, ThisCall
<1>6. /\ senders[c] \in Seq(Fiber) /\ Distinct(senders[c])
      /\ senders' \in [Channels -> Seq(Fiber)] /\ senders'[c] = Append(senders[c], f)
      /\ Distinct(receivers[c])
  BY <1>1, <1>2, AppendMembers DEF ChanTypeOK, Parked
<1>7. Distinct(senders'[c]) /\ Mem(senders'[c]) = Mem(senders[c]) \cup {f}
  BY <1>4, <1>6, AppendMembers
<1>8. Parked' /\ Handing'
  <2>1. receivers' \in [Channels -> Seq(Fiber)]
    BY <1>1, <1>2 DEF ChanTypeOK
  <2>2. \A d \in Channels \ {c} : senders'[d] = senders[d] /\ receivers'[d] = receivers[d]
    BY <1>1, <1>2 DEF ChanTypeOK
  <2>3. \A d \in Unbuffered : contents'[d] = contents[d]
    BY <1>1
  <2> DEFINE R == {}
  <2>4. Stays(R) /\ Mem(senders'[c]) \subseteq (Mem(senders[c]) \cup {f}) \ R
        /\ Mem(receivers'[c]) \subseteq (Mem(receivers[c]) \cup {f}) \ R
    BY <1>1, <1>3, <1>7
  <2>5. \A g \in R : g \in Mem(senders[c]) \/ g \in Mem(receivers[c]) \/ Hands(g, c)
    OBVIOUS
  <2>6. f \notin Mem(receivers'[c])
    BY <1>1, <1>4
  <2>7. \A g \in R : ~Hands(g, c)
    OBVIOUS
  <2> HIDE DEF R
  <2>8. QED
    BY <1>1, <1>2, <1>5, <1>6, <1>7, <2>1, <2>2, <2>3, <2>4, <2>5, <2>6, <2>7, OneListChanges
<1>9. ASSUME NEW d \in Unbuffered PROVE ServedAt(d)'
  <2>1. d \in Channels /\ ServedAt(d) /\ f = current
    BY <1>1, <1>2 DEF Unbuffered, Served, Active
  <2>2. \A g \in Fiber : AtRetry(g, d) /\ (Queued(g)' # {} \/ current' = g) => Queued(g) # {}
    BY <1>3
  <2>3. CASE d # c
    <3>1. senders'[d] = senders[d] /\ receivers'[d] = receivers[d]
      BY <1>1, <1>2, <2>1, <2>3 DEF ChanTypeOK
    <3>2. QED
      BY <1>1, <1>3, <1>4, <2>1, <2>2, <2>3, <3>1, ServedElsewhere
  <2>4. CASE d = c
    <3>1. ~Empty(c) /\ ~AtRetry(f, c)
      BY <1>1, <2>1, <2>4 DEF NoRoom, Unbuffered, Empty, ServedAt
    <3>2. receivers'[c] = <<>> /\ ~closed'[c]
      BY <1>1, <2>1, <2>4, <3>1 DEF ServedAt
    <3>3. ASSUME NEW g \in Fiber, AtRetry(g, c)' PROVE Queued(g)' = {} /\ current' # g
      <4>1. CASE g = f
        BY <1>3, <4>1 DEF Idle
      <4>2. CASE g # f
        <5>1. AtRetry(g, c)
          BY <1>3, <3>3, <4>2 DEF AtRetry, Others, ThisCall
        <5>2. Queued(g) = {}
          BY <1>1, <2>1, <2>4, <5>1 DEF ServedAt
        <5>3. QED
          BY <2>2, <2>4, <5>1, <5>2
      <4>3. QED
        BY <4>1, <4>2
    <3>4. ~AtRetry(current, c)'
      BY <3>3 DEF AtRetry
    <3>5. QED
      BY <2>4, <3>2, <3>3, <3>4 DEF ServedAt
  <2>5. QED
    BY <2>3, <2>4
<1>10. receivers' \in [Channels -> Seq(Fiber)]
  BY <1>1, <1>2 DEF ChanTypeOK
<1>11. QED
  BY <1>1, <1>3, <1>4, <1>6, <1>8, <1>9, <1>10 DEF Kept, Served

LEMMA ReceiveBlocksKeeps ==
  ASSUME ChanInv, NEW f \in Fiber, ReceiveBlocks(f), NEW c \in Channels, ThisCall(f).ch = c
  PROVE  Kept
<1> DEFINE switching == c \in Unbuffered /\ senders[c] # <<>>
           g == Head(senders[c])
           R == IF switching THEN {g} ELSE {}
<1>1. /\ Active(f) /\ at[f] \in {"start", "retry"} /\ ip[f] \in 1 .. Len(prog[f])
      /\ ThisCall(f).op \in Receives /\ Empty(c) /\ ~closed[c]
      /\ receivers' = [receivers EXCEPT ![c] = Append(@, f)]
      /\ SuspendAt(f, "retry")
      /\ IF switching
         THEN /\ Resume(g)
              /\ senders' = [senders EXCEPT ![c] = Tail(@)]
              /\ UNCHANGED runnables
         ELSE Reschedule(runnables) /\ UNCHANGED senders
      /\ UNCHANGED <<prog, timers, born, ended, closed, contents, sent, got>>
  BY DEF ReceiveBlocks, Trying, Receives
<1>2. WaitInv /\ ChanTypeOK /\ Parked /\ Served
  BY DEF ChanInv, WaitInv
<1>3. /\ senders[c] \in Seq(Fiber) /\ Distinct(senders[c])
      /\ receivers[c] \in Seq(Fiber) /\ Distinct(receivers[c])
  BY <1>2 DEF ChanTypeOK, Parked
<1>4. switching => /\ g \in Mem(senders[c]) /\ g \in Fiber
                   /\ Waits(g, c, {"send"})
                   /\ Distinct(Tail(senders[c])) /\ Mem(Tail(senders[c])) = Mem(senders[c]) \ {g}
                   /\ Tail(senders[c]) \in Seq(Fiber)
  <2>1. ASSUME switching
        PROVE  /\ g \in Mem(senders[c])
               /\ Distinct(Tail(senders[c])) /\ Mem(Tail(senders[c])) = Mem(senders[c]) \ {g}
               /\ Tail(senders[c]) \in Seq(Fiber)
    BY <1>3, <2>1, TailMembers
  <2>2. g \in Mem(senders[c]) => g \in Fiber /\ Waits(g, c, {"send"})
    BY <1>2, MembersAreFibers DEF Parked
  <2>3. QED
    BY <2>1, <2>2
<1> HIDE DEF switching, g
<1>5. /\ SchedInv' /\ Stays(R) /\ Others(f) /\ Idle(f)' /\ at'[f] = "retry" /\ ip'[f] = ip[f]
      /\ \A h \in Fiber : Queued(h)' # {} => Queued(h) # {}
      /\ IF switching THEN current' = g /\ at'[g] = at[g] /\ ip'[g] = ip[g]
                      ELSE current' \in Fiber => Queued(current') # {}
  <2>1. CASE switching
    <3>1. /\ Idle(g) /\ at[g] = "retry" /\ g \in Fiber /\ Resume(g)
          /\ UNCHANGED <<prog, runnables, timers, born, ended>>
      BY <1>1, <1>4, <2>1 DEF Waits
    <3>2. /\ SchedInv' /\ Stays({g}) /\ Others(f) /\ Idle(f)' /\ at'[f] = "retry" /\ ip'[f] = ip[f]
          /\ \A h \in Fiber : Queued(h)' # {} => Queued(h) # {}
          /\ current' = g /\ at'[g] = at[g] /\ ip'[g] = ip[g]
      BY <1>1, <1>2, <3>1, Switches
    <3>3. QED
      BY <2>1, <3>2
  <2>2. CASE ~switching
    <3>1. /\ SchedInv' /\ Stays({}) /\ Others(f) /\ Idle(f)' /\ at'[f] = "retry" /\ ip'[f] = ip[f]
          /\ \A h \in Fiber : Queued(h)' # {} => Queued(h) # {}
          /\ current' \in Fiber => Queued(current') # {}
      BY <1>1, <1>2, <2>2, Suspends
    <3>2. QED
      BY <2>2, <3>1
  <2>3. QED
    BY <2>1, <2>2
<1>6. /\ f \in born /\ (born' = born => Unborn')
      /\ \A d \in Channels \ {c} : ~AtRetry(current, d) /\ ~AtRetry(f, d)'
      /\ \A d \in Channels : f \notin Mem(senders[d]) /\ f \notin Mem(receivers[d])
  BY <1>1, <1>5, AtOneChannel
<1>7. Waits(f, c, Receives)'
  BY <1>1, <1>5 DEF Waits, ThisCall
<1>8. /\ receivers' \in [Channels -> Seq(Fiber)] /\ receivers'[c] = Append(receivers[c], f)
      /\ receivers'[c] # <<>> /\ Len(receivers'[c]) = Len(receivers[c]) + 1
      /\ Distinct(receivers'[c]) /\ Mem(receivers'[c]) = Mem(receivers[c]) \cup {f}
  <2>1. receivers' \in [Channels -> Seq(Fiber)] /\ receivers'[c] = Append(receivers[c], f)
    BY <1>1, <1>2, <1>3 DEF ChanTypeOK
  <2>2. Len(Append(receivers[c], f)) = Len(receivers[c]) + 1
    BY <1>3
  <2>3. f \notin Mem(receivers[c])
    BY <1>6
  <2>4. /\ Append(receivers[c], f) # <<>> /\ Distinct(Append(receivers[c], f))
        /\ Mem(Append(receivers[c], f)) = Mem(receivers[c]) \cup {f}
    BY <1>3, <2>3, AppendMembers
  <2>5. QED
    BY <2>1, <2>2, <2>4
<1>9. /\ senders' \in [Channels -> Seq(Fiber)] /\ Distinct(senders'[c])
      /\ Mem(senders'[c]) = Mem(senders[c]) \ R
      /\ \A d \in Channels \ {c} : senders'[d] = senders[d]
      /\ IF switching THEN senders'[c] = Tail(senders[c]) ELSE senders' = senders
  <2>1. CASE switching
    BY <1>1, <1>2, <1>4, <2>1 DEF ChanTypeOK
  <2>2. CASE ~switching
    BY <1>1, <1>2, <1>3, <2>2 DEF ChanTypeOK
  <2>3. QED
    BY <2>1, <2>2
<1>10. \A h \in R : switching /\ h = g /\ ~Hands(h, c) /\ h \notin Mem(receivers[c]) /\ h # f
  <2>1. switching => ~Hands(g, c) /\ g \notin Mem(receivers[c]) /\ g # f
    BY <1>2, <1>4, <1>6, WaitsOnce
  <2>2. QED
    BY <2>1
<1>11. Parked' /\ Handing'
  <2>1. \A d \in Channels \ {c} : senders'[d] = senders[d] /\ receivers'[d] = receivers[d]
    BY <1>1, <1>2, <1>9 DEF ChanTypeOK
  <2>2. \A d \in Unbuffered : contents'[d] = contents[d]
    BY <1>1
  <2>3. /\ Mem(senders'[c]) \subseteq (Mem(senders[c]) \cup {f}) \ R
        /\ Mem(receivers'[c]) \subseteq (Mem(receivers[c]) \cup {f}) \ R
    BY <1>8, <1>9, <1>10
  <2>4. \A h \in R : h \in Mem(senders[c]) \/ h \in Mem(receivers[c]) \/ Hands(h, c)
    BY <1>4, <1>10
  <2>5. f \notin Mem(senders'[c])
    BY <1>6, <1>9
  <2>6. \A h \in R : ~Hands(h, c)
    BY <1>10
  <2> HIDE DEF R
  <2>7. QED
    BY <1>1, <1>2, <1>5, <1>7, <1>8, <1>9, <2>1, <2>2, <2>3, <2>4, <2>5, <2>6, OneListChanges
<1>12. ASSUME NEW d \in Unbuffered PROVE ServedAt(d)'
  <2>1. d \in Channels /\ ServedAt(d) /\ f = current
    BY <1>1, <1>2 DEF Unbuffered, Served, Active
  <2>2. CASE d # c
    <3>1. senders'[d] = senders[d] /\ receivers'[d] = receivers[d]
      BY <1>1, <1>2, <1>9, <2>1, <2>2 DEF ChanTypeOK
    <3>2. ASSUME NEW h \in Fiber \ {f}, AtRetry(h, d), Queued(h)' # {} \/ current' = h
          PROVE  Queued(h) # {}
      BY <1>4, <1>5, <2>2, <3>2 DEF AtRetry, Waits
    <3>3. QED
      BY <1>1, <1>5, <1>6, <2>1, <2>2, <3>1, <3>2, ServedElsewhere
  <2>3. CASE d = c
    <3>1. ~AtRetry(f, c)
      BY <1>1, <2>1, <2>3 DEF ServedAt, Receives
    <3>2. receivers[c] = <<>> \/ senders[c] = <<>>
      BY <2>1, <2>3, <3>1 DEF ServedAt
    <3>3. ASSUME NEW h \in Fiber, AtRetry(h, c)'
          PROVE  Queued(h)' = {} /\ (current' = h => switching)
      <4>1. CASE h = f
        BY <1>5, <4>1 DEF Idle
      <4>2. CASE h # f
        <5>1. AtRetry(h, c)
          BY <1>5, <3>3, <4>2 DEF AtRetry, Others, ThisCall
        <5>2. Queued(h) = {}
          BY <1>1, <2>1, <2>3, <5>1 DEF ServedAt
        <5>3. QED
          BY <1>5, <5>2
      <4>3. QED
        BY <4>1, <4>2
    <3>4. Empty(c)' /\ ~closed'[c]
      BY <1>1 DEF Empty
    <3>5. CASE ~switching
      <4>1. senders'[c] = <<>>
        BY <1>9, <2>3, <3>5 DEF switching
      <4>2. ~AtRetry(current, c)'
        BY <3>3, <3>5 DEF AtRetry
      <4>3. QED
        BY <2>3, <3>3, <3>4, <4>1, <4>2 DEF ServedAt
    <3>6. CASE switching
      <4>1. Len(receivers'[c]) = 1
        BY <1>3, <1>8, <3>2, <3>6 DEF switching
      <4>2. /\ g # f /\ g \in Fiber /\ at[g] = "retry"
            /\ ThisCall(g).op = "send" /\ ThisCall(g).ch = c /\ current' = g
        BY <1>4, <1>5, <1>10, <3>6 DEF Waits
      <4>3. AtRetry(current, c)' /\ ThisCall(current)'.op = "send"
        BY <1>5, <4>2 DEF AtRetry, ThisCall, Others
      <4>4. QED
        BY <1>8, <2>3, <3>3, <3>4, <4>1, <4>3 DEF ServedAt
    <3>7. QED
      BY <3>5, <3>6
  <2>4. QED
    BY <2>2, <2>3
<1>13. QED
  BY <1>1, <1>5, <1>6, <1>8, <1>9, <1>11, <1>12 DEF Kept, Served

(* The other channels, after a step on channel c.                          *)
LEMMA RestServed ==
  ASSUME ChanInv, NEW f \in Fiber, NEW c \in Channels, Others(f),
         \A d \in Channels \ {c} :
           /\ ~AtRetry(current, d) /\ ~AtRetry(f, d)'
           /\ closed'[d] = closed[d] /\ contents'[d] = contents[d]
           /\ senders'[d] = senders[d] /\ receivers'[d] = receivers[d],
         \A g \in Fiber \ {f} : Queued(g)' # {} \/ current' = g =>
           Queued(g) # {} \/ at[g] # "retry" \/ ThisCall(g).ch = c,
         c \in Unbuffered => ServedAt(c)'
  PROVE  Served'
<1>1. ASSUME NEW d \in Unbuffered, d # c PROVE ServedAt(d)'
  <2>1. d \in Channels /\ ServedAt(d)
    BY DEF Unbuffered, ChanInv, Served
  <2>2. \A g \in Fiber \ {f} : AtRetry(g, d) /\ (Queued(g)' # {} \/ current' = g) => Queued(g) # {}
    BY <1>1 DEF AtRetry
  <2>3. QED
    BY <1>1, <2>1, <2>2, ServedElsewhere
<1>2. QED
  BY <1>1 DEF Served

(* The ends of send and receive that wake nobody.                          *)
LEMMA EndsKeep ==
  ASSUME ChanInv, NEW f \in Fiber, Active(f), Return(f) \/ Raise(f),
         NEW c \in Channels, ThisCall(f).ch = c, closed[c],
         UNCHANGED <<prog, current, runnables, timers, born, ended,
                     closed, senders, receivers, contents>>
  PROVE  Kept
<1>1. WaitInv /\ ChanTypeOK /\ Served
  BY DEF ChanInv, WaitInv
<1>2. SchedInv' /\ Stays({}) /\ Others(f) /\ at'[f] = "start"
  BY <1>1, GoesOn
<1>3. /\ f \in born /\ Unborn'
      /\ \A d \in Channels \ {c} : ~AtRetry(current, d) /\ ~AtRetry(f, d)'
      /\ \A d \in Channels : f \notin Mem(senders[d]) /\ f \notin Mem(receivers[d])
  BY <1>2, AtOneChannel
<1>4. Parked' /\ Handing'
  <2> DEFINE R == {}
  <2>1. Stays(R) /\ \A d : d \notin R
    BY <1>2
  <2> HIDE DEF R
  <2>2. \A d \in Channels :
          /\ Distinct(senders'[d])
          /\ Mem(senders'[d]) \subseteq (Mem(senders[d]) \cup {f}) \ R
          /\ f \in Mem(senders'[d]) => Waits(f, d, {"send"})'
    BY <1>1, <1>3, <2>1 DEF WaitInv, Parked
  <2>3. \A d \in Channels :
          /\ Distinct(receivers'[d])
          /\ Mem(receivers'[d]) \subseteq (Mem(receivers[d]) \cup {f}) \ R
          /\ f \in Mem(receivers'[d]) => Waits(f, d, Receives)'
    BY <1>1, <1>3, <2>1 DEF WaitInv, Parked
  <2>4. \A d \in Unbuffered : contents'[d] # <<>> =>
          \/ contents'[d] = contents[d] /\ contents[d][1].from \notin R
          \/ Hands(contents[d][1].from, d)'
    BY <2>1
  <2>5. QED
    BY <1>1, <2>1, <2>2, <2>3, <2>4, ListsKeep
<1>5. \A g \in Fiber : Queued(g)' = Queued(g)
  BY DEF Queued
<1>6. current = f
  BY DEF Active
<1>7. c \in Unbuffered => ServedAt(c)'
  <2> SUFFICES ASSUME c \in Unbuffered PROVE ServedAt(c)'
    OBVIOUS
  <2>1. ServedAt(c)
    BY <1>1 DEF Served
  <2>2. QED
    BY <2>1 DEF ServedAt
<1>8. Served'
  BY <1>2, <1>3, <1>5, <1>6, <1>7, RestServed
<1>9. QED
  BY <1>1, <1>2, <1>3, <1>4, <1>8 DEF Kept, ChanTypeOK

(* Distinct fibers gs, parked at channel c, are released and the running   *)
(* fiber goes on; the queues of c lose them.                               *)
LEMMA WakingKeeps ==
  ASSUME ChanInv, NEW f \in Fiber, Active(f), Return(f), NEW c \in Channels, ThisCall(f).ch = c,
         NEW gs \in Seq(Fiber), Distinct(gs), Enqueue(gs),
         \A g \in Mem(gs) : g \in Mem(senders[c]) \/ g \in Mem(receivers[c]) \/ Hands(g, c),
         UNCHANGED <<prog, current, timers, born, ended>>,
         senders' \in [Channels -> Seq(Fiber)], receivers' \in [Channels -> Seq(Fiber)],
         \A d \in Channels \ {c} :
           /\ closed'[d] = closed[d] /\ contents'[d] = contents[d]
           /\ senders'[d] = senders[d] /\ receivers'[d] = receivers[d],
         Distinct(senders'[c]), Mem(senders'[c]) \subseteq Mem(senders[c]) \ Mem(gs),
         Distinct(receivers'[c]), Mem(receivers'[c]) \subseteq Mem(receivers[c]) \ Mem(gs),
         c \in Unbuffered => \/ contents'[c] = <<>>
                             \/ contents'[c] = contents[c] /\ \A g \in Mem(gs) : ~Hands(g, c),
         c \in Unbuffered =>
           /\ closed'[c] \/ (closed' = closed /\ \A g \in Mem(gs) : at[g] # "retry")
           /\ receivers'[c] # <<>> => ~closed'[c] /\ contents'[c] = <<>> /\ senders'[c] = <<>>
  PROVE  Kept
<1>1. WaitInv /\ ChanTypeOK /\ Parked /\ Served
  BY DEF ChanInv, WaitInv
<1>2. ASSUME NEW g \in Mem(gs)
      PROVE  Idle(g) /\ at[g] \in {"retry", "handed"} /\ ThisCall(g).ch = c
  BY <1>1 DEF Parked, Waits, Hands
<1>3. /\ SchedInv' /\ Stays(Mem(gs)) /\ Others(f) /\ at'[f] = "start"
      /\ \A g \in Fiber : Queued(g)' # {} <=> Queued(g) # {} \/ g \in Mem(gs)
  BY <1>1, <1>2, GoesOnWaking
<1>4. /\ f \in born /\ Unborn'
      /\ \A d \in Channels \ {c} : ~AtRetry(current, d) /\ ~AtRetry(f, d)'
      /\ \A d \in Channels : f \notin Mem(senders[d]) /\ f \notin Mem(receivers[d])
  BY <1>3, AtOneChannel
<1>5. Parked' /\ Handing'
  <2> DEFINE R == Mem(gs)
  <2>1. \A d \in Unbuffered : contents'[d] # <<>> =>
          \/ contents'[d] = contents[d] /\ (d = c => \A g \in R : ~Hands(g, c))
          \/ Hands(contents[d][1].from, d)'
    BY DEF Unbuffered
  <2>2. /\ Mem(senders'[c]) \subseteq (Mem(senders[c]) \cup {f}) \ R
        /\ Mem(receivers'[c]) \subseteq (Mem(receivers[c]) \cup {f}) \ R
        /\ f \notin Mem(senders'[c]) /\ f \notin Mem(receivers'[c])
    BY <1>4
  <2>3. \A g \in R : g \in Mem(senders[c]) \/ g \in Mem(receivers[c]) \/ Hands(g, c)
    OBVIOUS
  <2>4. Stays(R)
    BY <1>3
  <2>5. \A d \in Channels \ {c} : senders'[d] = senders[d] /\ receivers'[d] = receivers[d]
    OBVIOUS
  <2> HIDE DEF R
  <2>6. QED
    BY <1>1, <2>1, <2>2, <2>3, <2>4, <2>5, OneListChanges
<1>6. current = f /\ current' = f
  BY DEF Active
<1>7. c \in Unbuffered => ServedAt(c)'
  <2> SUFFICES ASSUME c \in Unbuffered PROVE ServedAt(c)'
    OBVIOUS
  <2>1. ServedAt(c)
    BY <1>1 DEF Served
  <2>2. ~AtRetry(current, c)'
    BY <1>3, <1>6 DEF AtRetry
  <2>3. ASSUME NEW g \in Fiber, AtRetry(g, c)', Queued(g)' # {}, ~closed'[c] PROVE FALSE
    <3>1. g # f
      BY <1>3, <2>3 DEF AtRetry
    <3>2. AtRetry(g, c)
      BY <1>3, <2>3, <3>1 DEF AtRetry, Others, ThisCall
    <3>3. Queued(g) # {}
      BY <1>3, <2>3, <3>2 DEF AtRetry
    <3>4. QED
      BY <2>1, <2>3, <3>2, <3>3 DEF ServedAt
  <2>4. QED
    BY <2>2, <2>3 DEF ServedAt, Empty
<1>8. Served'
  <2>1. \A g \in Fiber \ {f} : Queued(g)' # {} \/ current' = g =>
          Queued(g) # {} \/ at[g] # "retry" \/ ThisCall(g).ch = c
    BY <1>2, <1>3, <1>6
  <2>2. QED
    BY <1>3, <1>4, <1>7, <2>1, RestServed
<1>9. QED
  BY <1>3, <1>4, <1>5, <1>8 DEF Kept

(* An unbuffered send that hands its value over.                           *)
LEMMA HandOverKeeps ==
  ASSUME ChanInv, NEW f \in Fiber, Active(f), ip[f] \in 1 .. Len(prog[f]),
         NEW c \in Channels, ThisCall(f).ch = c, ~NoRoom(c),
         PutUnbuffered(f, c, senders, receivers),
         UNCHANGED <<prog, timers, born, ended>>
  PROVE  Kept
<1> DEFINE switching == receivers[c] # <<>>
           g == Head(receivers[c])
           R == IF switching THEN {g} ELSE {}
<1>1. /\ ~closed[c] /\ c \in Unbuffered /\ contents[c] = <<>>
      /\ contents' = [contents EXCEPT ![c] = <<ThisMessage(f)>>]
      /\ SuspendAt(f, "handed")
      /\ IF switching
         THEN /\ Resume(g)
              /\ receivers' = [receivers EXCEPT ![c] = Tail(@)]
              /\ UNCHANGED runnables
         ELSE Reschedule(runnables) /\ receivers' = receivers
      /\ UNCHANGED <<closed, senders>>
  BY DEF PutUnbuffered, NoRoom, Unbuffered
<1>2. WaitInv /\ ChanTypeOK /\ Parked /\ Served
  BY DEF ChanInv, WaitInv
<1>3. receivers[c] \in Seq(Fiber) /\ Distinct(receivers[c]) /\ Distinct(senders[c])
  BY <1>2 DEF ChanTypeOK, Parked
<1>4. switching => /\ g \in Mem(receivers[c]) /\ g \in Fiber
                   /\ Waits(g, c, Receives)
                   /\ Distinct(Tail(receivers[c]))
                   /\ Mem(Tail(receivers[c])) = Mem(receivers[c]) \ {g}
                   /\ Tail(receivers[c]) \in Seq(Fiber)
  <2>1. ASSUME switching
        PROVE  /\ g \in Mem(receivers[c]) /\ Distinct(Tail(receivers[c]))
               /\ Mem(Tail(receivers[c])) = Mem(receivers[c]) \ {g}
               /\ Tail(receivers[c]) \in Seq(Fiber)
    BY <1>3, <2>1, TailMembers
  <2>2. g \in Mem(receivers[c]) => g \in Fiber /\ Waits(g, c, Receives)
    BY <1>2, MembersAreFibers DEF Parked
  <2>3. QED
    BY <2>1, <2>2
<1> HIDE DEF switching, g
<1>5. /\ SchedInv' /\ Stays(R) /\ Others(f) /\ Idle(f)' /\ at'[f] = "handed" /\ ip'[f] = ip[f]
      /\ \A h \in Fiber : Queued(h)' # {} => Queued(h) # {}
      /\ IF switching THEN current' = g /\ at'[g] = at[g] /\ ip'[g] = ip[g]
                      ELSE current' \in Fiber => Queued(current') # {}
  <2>1. CASE switching
    <3>1. /\ Idle(g) /\ at[g] = "retry" /\ g \in Fiber /\ Resume(g)
          /\ UNCHANGED <<prog, runnables, timers, born, ended>>
      BY <1>1, <1>4, <2>1 DEF Waits
    <3>2. /\ SchedInv' /\ Stays({g}) /\ Others(f) /\ Idle(f)' /\ at'[f] = "handed" /\ ip'[f] = ip[f]
          /\ \A h \in Fiber : Queued(h)' # {} => Queued(h) # {}
          /\ current' = g /\ at'[g] = at[g] /\ ip'[g] = ip[g]
      BY <1>1, <1>2, <3>1, Switches
    <3>3. QED
      BY <2>1, <3>2
  <2>2. CASE ~switching
    <3>1. /\ SchedInv' /\ Stays({}) /\ Others(f) /\ Idle(f)' /\ at'[f] = "handed" /\ ip'[f] = ip[f]
          /\ \A h \in Fiber : Queued(h)' # {} => Queued(h) # {}
          /\ current' \in Fiber => Queued(current') # {}
      BY <1>1, <1>2, <2>2, Suspends
    <3>2. QED
      BY <2>2, <3>1
  <2>3. QED
    BY <2>1, <2>2
<1>6. /\ f \in born /\ Unborn'
      /\ \A d \in Channels \ {c} : ~AtRetry(current, d) /\ ~AtRetry(f, d)'
      /\ \A d \in Channels : f \notin Mem(senders[d]) /\ f \notin Mem(receivers[d])
  BY <1>1, <1>5, AtOneChannel
<1>7. Hands(f, c)' /\ contents'[c] = <<ThisMessage(f)>> /\ ThisMessage(f).from = f
  <2>1. Hands(f, c)'
    BY <1>5, <1>1 DEF Hands, ThisCall, Others
  <2>2. contents'[c] = <<ThisMessage(f)>>
    BY <1>1, <1>2 DEF ChanTypeOK
  <2>3. QED
    BY <2>1, <2>2 DEF ThisMessage
<1>8. /\ receivers' \in [Channels -> Seq(Fiber)] /\ Distinct(receivers'[c])
      /\ Mem(receivers'[c]) = Mem(receivers[c]) \ R
      /\ \A d \in Channels \ {c} : receivers'[d] = receivers[d]
      /\ IF switching THEN receivers'[c] = Tail(receivers[c]) ELSE receivers' = receivers
  <2>1. CASE switching
    BY <1>1, <1>2, <1>4, <2>1 DEF ChanTypeOK
  <2>2. CASE ~switching
    BY <1>1, <1>2, <1>3, <2>2 DEF ChanTypeOK
  <2>3. QED
    BY <2>1, <2>2
<1>9. \A h \in R : switching /\ h = g /\ ~Hands(h, c) /\ h \notin Mem(senders[c])
  <2>1. switching => ~Hands(g, c) /\ g \notin Mem(senders[c])
    BY <1>2, <1>4, WaitsOnce
  <2>2. QED
    BY <2>1
<1>10. Parked' /\ Handing'
  <2>1. \A d \in Channels \ {c} : senders'[d] = senders[d] /\ receivers'[d] = receivers[d]
    BY <1>1, <1>8
  <2>2. \A d \in Unbuffered : contents'[d] # <<>> =>
          \/ contents'[d] = contents[d] /\ (d = c => \A h \in R : ~Hands(h, c))
          \/ Hands(contents[d][1].from, d)'
    <3>1. \A d \in Channels \ {c} : contents'[d] = contents[d]
      BY <1>1, <1>2 DEF ChanTypeOK
    <3>2. contents'[c][1].from = f
      BY <1>7
    <3>3. Hands(contents[c][1].from, c)'
      BY <1>7, <3>2
    <3>4. QED
      BY <3>1, <3>3 DEF Unbuffered
  <2>3. /\ Mem(senders'[c]) \subseteq (Mem(senders[c]) \cup {f}) \ R
        /\ Mem(receivers'[c]) \subseteq (Mem(receivers[c]) \cup {f}) \ R
    BY <1>1, <1>8, <1>9
  <2>4. \A h \in R : h \in Mem(senders[c]) \/ h \in Mem(receivers[c]) \/ Hands(h, c)
    BY <1>4, <1>9
  <2>5. f \notin Mem(senders'[c]) /\ f \notin Mem(receivers'[c])
    BY <1>1, <1>6, <1>8
  <2>6. senders' \in [Channels -> Seq(Fiber)] /\ Distinct(senders'[c])
    BY <1>1, <1>2, <1>3 DEF ChanTypeOK
  <2> HIDE DEF R
  <2>7. QED
    BY <1>2, <1>5, <1>8, <2>1, <2>2, <2>3, <2>4, <2>5, <2>6, OneListChanges
<1>11. current = f /\ ServedAt(c)
  BY <1>1, <1>2 DEF Active, Served
<1>12. ASSUME NEW h \in Fiber, AtRetry(h, c)' PROVE Queued(h)' = {} /\ (current' = h => switching)
  <2>1. h # f
    BY <1>5, <1>12 DEF AtRetry
  <2>2. AtRetry(h, c)
    BY <1>5, <1>12, <2>1 DEF AtRetry, Others, ThisCall
  <2>3. Queued(h) = {}
    BY <1>1, <1>11, <2>2 DEF ServedAt
  <2>4. QED
    BY <1>5, <2>3
<1>13. ServedAt(c)'
  <2>1. ~Empty(c)'
    BY <1>7 DEF Empty
  <2>2. CASE ~switching
    <3>1. receivers'[c] = <<>>
      BY <1>8, <2>2 DEF switching
    <3>2. ~AtRetry(current, c)'
      BY <1>12, <2>2 DEF AtRetry
    <3>3. QED
      BY <1>12, <3>1, <3>2 DEF ServedAt
  <2>3. CASE switching
    <3>1. senders'[c] # <<>> => receivers'[c] = <<>>
      <4>1. senders'[c] # <<>> => Len(receivers[c]) = 1
        BY <1>1, <1>11, <2>3 DEF ServedAt, switching
      <4>2. Tail(receivers[c]) \in Seq(Fiber) /\ Len(Tail(receivers[c])) = Len(receivers[c]) - 1
        BY <1>3, <2>3 DEF switching
      <4>3. QED
        BY <1>3, <1>8, <2>3, <4>1, <4>2
    <3>2. /\ g # f /\ g \in Fiber /\ at[g] = "retry"
          /\ ThisCall(g).op \in Receives /\ ThisCall(g).ch = c /\ current' = g
      BY <1>4, <1>5, <1>6, <2>3 DEF Waits
    <3>3. AtRetry(current, c)' /\ ThisCall(current)'.op # "send"
      BY <1>5, <3>2 DEF AtRetry, ThisCall, Others, Receives
    <3>4. QED
      BY <1>1, <1>12, <2>1, <3>1, <3>3 DEF ServedAt
  <2>4. QED
    BY <2>2, <2>3
<1>14. Served'
  <2>1. ASSUME NEW h \in Fiber \ {f}, Queued(h)' # {} \/ current' = h
        PROVE  Queued(h) # {} \/ at[h] # "retry" \/ ThisCall(h).ch = c
    BY <1>4, <1>5, <2>1 DEF Waits
  <2>2. \A d \in Channels \ {c} :
          /\ closed'[d] = closed[d] /\ contents'[d] = contents[d]
          /\ senders'[d] = senders[d] /\ receivers'[d] = receivers[d]
    BY <1>1, <1>2, <1>8 DEF ChanTypeOK
  <2>3. QED
    BY <1>5, <1>6, <1>13, <2>1, <2>2, RestServed
<1>15. senders' \in [Channels -> Seq(Fiber)]
  BY <1>1, <1>2 DEF ChanTypeOK
<1>16. QED
  BY <1>5, <1>6, <1>8, <1>10, <1>14, <1>15 DEF Kept

LEMMA NoMembers == Distinct(<<>>) /\ Mem(<<>>) = {}
BY DEF Distinct, Mem

LEMMA SendKeeps ==
  ASSUME ChanInv, NEW f \in Fiber, Send(f), NEW c \in Channels, ThisCall(f).ch = c
  PROVE  Kept
<1>1. /\ Active(f) /\ ip[f] \in 1 .. Len(prog[f]) /\ (closed[c] \/ ~NoRoom(c))
      /\ FinishSend(f, c, senders, receivers)
      /\ UNCHANGED <<prog, timers, born, ended>>
  BY DEF Send, Trying
<1>2. ChanTypeOK /\ Parked
  BY DEF ChanInv, WaitInv
<1>3. CASE SendRaises(f, c, senders, receivers)
  BY <1>1, <1>3, EndsKeep DEF SendRaises
<1>4. CASE PutBuffered(f, c, senders, receivers)
  <2>1. /\ c \notin Unbuffered /\ Enqueue(receivers[c])
        /\ contents' = [contents EXCEPT ![c] = Append(@, ThisMessage(f))]
        /\ receivers' = [receivers EXCEPT ![c] = <<>>]
        /\ Return(f) /\ UNCHANGED <<current, closed, senders>>
    BY <1>4 DEF PutBuffered, Unbuffered
  <2> DEFINE gs == receivers[c]
  <2>2. /\ gs \in Seq(Fiber) /\ Distinct(gs) /\ Distinct(senders[c])
        /\ \A g \in Mem(gs) : g \in Mem(receivers[c]) /\ g \notin Mem(senders[c])
    BY <1>2, WaitsOnce DEF ChanTypeOK, Parked
  <2>3. /\ senders' \in [Channels -> Seq(Fiber)] /\ receivers' \in [Channels -> Seq(Fiber)]
        /\ receivers'[c] = <<>> /\ senders'[c] = senders[c]
        /\ \A d \in Channels \ {c} :
             /\ closed'[d] = closed[d] /\ contents'[d] = contents[d]
             /\ senders'[d] = senders[d] /\ receivers'[d] = receivers[d]
    BY <1>2, <2>1 DEF ChanTypeOK
  <2>4. /\ Distinct(senders'[c]) /\ Mem(senders'[c]) \subseteq Mem(senders[c]) \ Mem(gs)
        /\ Distinct(receivers'[c]) /\ Mem(receivers'[c]) \subseteq Mem(receivers[c]) \ Mem(gs)
    BY <2>2, <2>3, NoMembers
  <2>5. Enqueue(gs) /\ \A g \in Mem(gs) : g \in Mem(senders[c]) \/ g \in Mem(receivers[c]) \/ Hands(g, c)
    BY <2>1
  <2> HIDE DEF gs
  <2>6. QED
    BY <1>1, <2>1, <2>2, <2>3, <2>4, <2>5, WakingKeeps
<1>5. CASE PutUnbuffered(f, c, senders, receivers)
  BY <1>1, <1>5, HandOverKeeps DEF PutUnbuffered
<1>6. QED
  BY <1>1, <1>3, <1>4, <1>5 DEF FinishSend

LEMMA ReceiveKeeps ==
  ASSUME ChanInv, NEW f \in Fiber, Receive(f), NEW c \in Channels, ThisCall(f).ch = c
  PROVE  Kept
<1>1. /\ Active(f) /\ ThisCall(f).op \in Receives
      /\ FinishReceive(f, c, senders, receivers)
      /\ UNCHANGED <<prog, timers, born, ended>>
  BY DEF Receive, Trying, Receives
<1>2. ChanTypeOK /\ Parked /\ Handing /\ Served
  BY DEF ChanInv, WaitInv
<1>3. CASE ReceiveClosed(f, c, senders, receivers)
  BY <1>1, <1>3, EndsKeep DEF ReceiveClosed
<1>4. CASE TakeBuffered(f, c, senders, receivers)
  <2>1. /\ c \notin Unbuffered /\ Enqueue(senders[c])
        /\ contents' = [contents EXCEPT ![c] = Tail(@)]
        /\ senders' = [senders EXCEPT ![c] = <<>>]
        /\ Return(f) /\ UNCHANGED <<current, closed, receivers>>
    BY <1>4 DEF TakeBuffered, Unbuffered
  <2> DEFINE gs == senders[c]
  <2>2. /\ gs \in Seq(Fiber) /\ Distinct(gs) /\ Distinct(receivers[c])
        /\ \A g \in Mem(gs) : g \in Mem(senders[c]) /\ g \notin Mem(receivers[c])
    BY <1>2, WaitsOnce DEF ChanTypeOK, Parked
  <2>3. /\ senders' \in [Channels -> Seq(Fiber)] /\ receivers' \in [Channels -> Seq(Fiber)]
        /\ senders'[c] = <<>> /\ receivers'[c] = receivers[c]
        /\ \A d \in Channels \ {c} :
             /\ closed'[d] = closed[d] /\ contents'[d] = contents[d]
             /\ senders'[d] = senders[d] /\ receivers'[d] = receivers[d]
    BY <1>2, <2>1 DEF ChanTypeOK
  <2>4. /\ Distinct(senders'[c]) /\ Mem(senders'[c]) \subseteq Mem(senders[c]) \ Mem(gs)
        /\ Distinct(receivers'[c]) /\ Mem(receivers'[c]) \subseteq Mem(receivers[c]) \ Mem(gs)
    BY <2>2, <2>3, NoMembers
  <2>5. Enqueue(gs) /\ \A g \in Mem(gs) : g \in Mem(senders[c]) \/ g \in Mem(receivers[c]) \/ Hands(g, c)
    BY <2>1
  <2> HIDE DEF gs
  <2>6. QED
    BY <1>1, <2>1, <2>2, <2>3, <2>4, <2>5, WakingKeeps
<1>5. CASE TakeUnbuffered(f, c, senders, receivers)
  <2> DEFINE g == Head(contents[c]).from
             gs == <<g>>
  <2>1. /\ c \in Unbuffered /\ ~closed[c] /\ contents[c] # <<>> /\ Enqueue(gs)
        /\ contents' = [contents EXCEPT ![c] = <<>>]
        /\ Return(f) /\ UNCHANGED <<current, closed, senders, receivers>>
    BY <1>5 DEF TakeUnbuffered, Empty
  <2>2. Hands(g, c)
    <3>1. Head(contents[c]) = contents[c][1]
      BY <1>2, <2>1 DEF ChanTypeOK
    <3>2. QED
      BY <1>2, <2>1, <3>1 DEF Handing
  <2> HIDE DEF g
  <2>3. gs \in Seq(Fiber) /\ Distinct(gs) /\ Mem(gs) = {g}
    BY <2>2 DEF Hands, Distinct, Mem
  <2>4. g \notin Mem(senders[c]) /\ g \notin Mem(receivers[c])
    BY <1>2, <2>2, WaitsOnce
  <2> HIDE DEF gs
  <2>5. /\ senders' \in [Channels -> Seq(Fiber)] /\ receivers' \in [Channels -> Seq(Fiber)]
        /\ contents'[c] = <<>>
        /\ \A d \in Channels \ {c} :
             /\ closed'[d] = closed[d] /\ contents'[d] = contents[d]
             /\ senders'[d] = senders[d] /\ receivers'[d] = receivers[d]
    BY <1>2, <2>1 DEF ChanTypeOK
  <2>6. /\ Distinct(senders'[c]) /\ Mem(senders'[c]) \subseteq Mem(senders[c]) \ Mem(gs)
        /\ Distinct(receivers'[c]) /\ Mem(receivers'[c]) \subseteq Mem(receivers[c]) \ Mem(gs)
    BY <1>2, <2>1, <2>3, <2>4 DEF Parked
  <2>7. \A h \in Mem(gs) : h \in Mem(senders[c]) \/ h \in Mem(receivers[c]) \/ Hands(h, c)
    BY <2>2, <2>3
  <2>8. /\ closed' = closed /\ \A h \in Mem(gs) : at[h] # "retry"
        /\ receivers'[c] # <<>> => ~closed'[c] /\ contents'[c] = <<>> /\ senders'[c] = <<>>
    <3>1. ServedAt(c) /\ current = f
      BY <1>1, <1>2, <2>1 DEF Served, Active
    <3>2. receivers[c] # <<>> => senders[c] = <<>>
      BY <1>1, <3>1 DEF ServedAt, Receives
    <3>3. QED
      BY <2>1, <2>2, <2>3, <2>5, <3>2 DEF Hands
  <2>9. QED
    BY <1>1, <2>1, <2>3, <2>5, <2>6, <2>7, <2>8, WakingKeeps
<1>6. QED
  BY <1>1, <1>3, <1>4, <1>5 DEF FinishReceive

LEMMA CloseKeeps ==
  ASSUME ChanInv, NEW f \in Fiber, Close(f), NEW c \in Channels, ThisCall(f).ch = c
  PROVE  Kept
<1>1. /\ Active(f) /\ Return(f)
      /\ closed' = [closed EXCEPT ![c] = TRUE]
      /\ Enqueue(receivers[c]) /\ receivers' = [receivers EXCEPT ![c] = <<>>]
      /\ UNCHANGED <<prog, current, timers, born, ended, senders, contents>>
  BY DEF Close, Calls
<1>2. ChanTypeOK /\ Parked
  BY DEF ChanInv, WaitInv
<1> DEFINE gs == receivers[c]
<1>3. /\ gs \in Seq(Fiber) /\ Distinct(gs) /\ Distinct(senders[c])
      /\ \A g \in Mem(gs) : /\ g \in Mem(receivers[c]) /\ g \notin Mem(senders[c])
                            /\ ~Hands(g, c)
  BY <1>2, WaitsOnce DEF ChanTypeOK, Parked
<1>4. /\ senders' \in [Channels -> Seq(Fiber)] /\ receivers' \in [Channels -> Seq(Fiber)]
      /\ receivers'[c] = <<>> /\ senders'[c] = senders[c] /\ closed'[c]
      /\ \A d \in Channels \ {c} :
           /\ closed'[d] = closed[d] /\ contents'[d] = contents[d]
           /\ senders'[d] = senders[d] /\ receivers'[d] = receivers[d]
  BY <1>1, <1>2 DEF ChanTypeOK
<1>5. /\ Distinct(senders'[c]) /\ Mem(senders'[c]) \subseteq Mem(senders[c]) \ Mem(gs)
      /\ Distinct(receivers'[c]) /\ Mem(receivers'[c]) \subseteq Mem(receivers[c]) \ Mem(gs)
  BY <1>3, <1>4, NoMembers
<1>6. /\ Enqueue(gs) /\ contents'[c] = contents[c]
      /\ \A g \in Mem(gs) : ~Hands(g, c)
      /\ \A g \in Mem(gs) : g \in Mem(senders[c]) \/ g \in Mem(receivers[c]) \/ Hands(g, c)
  BY <1>1, <1>3
<1>7. \/ contents'[c] = <<>>
      \/ contents'[c] = contents[c] /\ \A g \in Mem(gs) : ~Hands(g, c)
  BY <1>6
<1>8. /\ closed'[c] \/ (closed' = closed /\ \A g \in Mem(gs) : at[g] # "retry")
      /\ receivers'[c] # <<>> => ~closed'[c] /\ contents'[c] = <<>> /\ senders'[c] = <<>>
  BY <1>4
<1>9. /\ Active(f) /\ Return(f) /\ ThisCall(f).ch = c
      /\ UNCHANGED <<prog, current, timers, born, ended>>
  BY <1>1
<1> HIDE DEF gs
<1>10. QED
  BY <1>3, <1>4, <1>5, <1>6, <1>7, <1>8, <1>9, WakingKeeps

(* A step that leaves the channels alone, of a fiber that waits at none.   *)
LEMMA QuietKeeps ==
  ASSUME ChanInv, SchedInv', UNCHANGED <<closed, senders, receivers, contents>>,
         NEW f \in born, Others(f), Stays({f}), born \subseteq born', current \in {f, Loop},
         at[f] # "retry", at'[f] # "retry", at[f] = "handed" => ~Idle(f),
         \A g \in Fiber \ {f} :
           at[g] # "start" /\ (Queued(g)' # {} \/ current' = g) => Queued(g) # {}
  PROVE  Kept
<1>1. WaitInv /\ ChanTypeOK /\ Parked /\ Handing /\ Served /\ f \in Fiber
  BY DEF ChanInv, WaitInv, ChanTypeOK, SchedTypeOK
<1>2. Unborn'
  BY DEF ChanInv, Unborn, Others
<1>3. \A d \in Channels : f \notin Mem(senders[d]) /\ f \notin Mem(receivers[d])
  BY <1>1 DEF Parked, Waits
<1>4. Parked' /\ Handing'
  <2> DEFINE R == {f}
  <2>1. Stays(R) /\ \A d : d \in R <=> d = f
    OBVIOUS
  <2>2. \A d \in Channels :
          /\ Distinct(senders'[d])
          /\ Mem(senders'[d]) \subseteq (Mem(senders[d]) \cup {f}) \ R
          /\ f \in Mem(senders'[d]) => Waits(f, d, {"send"})'
    BY <1>1, <1>3, <2>1 DEF Parked
  <2>3. \A d \in Channels :
          /\ Distinct(receivers'[d])
          /\ Mem(receivers'[d]) \subseteq (Mem(receivers[d]) \cup {f}) \ R
          /\ f \in Mem(receivers'[d]) => Waits(f, d, Receives)'
    BY <1>1, <1>3, <2>1 DEF Parked
  <2>4. \A d \in Unbuffered : contents'[d] # <<>> =>
          \/ contents'[d] = contents[d] /\ contents[d][1].from \notin R
          \/ Hands(contents[d][1].from, d)'
    BY <1>1, <2>1 DEF Handing, Hands
  <2> HIDE DEF R
  <2>5. QED
    BY <1>1, <2>1, <2>2, <2>3, <2>4, ListsKeep
<1>5. ASSUME NEW d \in Unbuffered PROVE ServedAt(d)'
  <2>1. ~AtRetry(current, d) /\ ~AtRetry(f, d)'
    BY SchedulerAssumption DEF AtRetry, SchedulerAssumption
  <2>2. \A g \in Fiber \ {f} : AtRetry(g, d) /\ (Queued(g)' # {} \/ current' = g) => Queued(g) # {}
    BY DEF AtRetry
  <2>3. d \in Channels /\ ServedAt(d)
    BY <1>1 DEF Unbuffered, Served
  <2>4. QED
    BY <1>1, <2>1, <2>2, <2>3, ServedElsewhere
<1>6. QED
  BY <1>1, <1>2, <1>4, <1>5 DEF Kept, Served, ChanTypeOK

LEMMA SentKeeps ==
  ASSUME ChanInv, NEW f \in Fiber, Sent(f)
  PROVE  Kept
<1>1. /\ Active(f) /\ at[f] = "handed" /\ Return(f) /\ current = f /\ f \in born
      /\ UNCHANGED <<prog, current, runnables, timers, born, ended>>
      /\ UNCHANGED <<closed, senders, receivers, contents>>
  BY DEF Sent, ResumedAt, Active, chanVars
<1>2. SchedInv' /\ Stays({}) /\ Others(f) /\ at'[f] = "start"
  BY <1>1, GoesOn DEF ChanInv
<1>3. Stays({f})
  BY <1>2 DEF Stays
<1>4. ~Idle(f) /\ \A g \in Fiber : Queued(g)' = Queued(g)
  BY <1>1 DEF Idle, Queued
<1>5. QED
  BY <1>1, <1>2, <1>3, <1>4, QuietKeeps

(* The programs that do not use Channel.select.                            *)
NoSelect ==
  \A p \in Programs, f \in Fiber : \A i \in DOMAIN p[f] : p[f][i].op # "select"

LEMMA ChanInitially == ChanInit => ChanInv
<1> SUFFICES ASSUME ChanInit PROVE ChanInv
  OBVIOUS
<1>1. FifoInv /\ SchedInv
  BY FifoInitially, SchedInitially DEF ChanInit
<1>2. ChanTypeOK /\ prog \in Programs
  BY <1>1 DEF ChanInit, SchedInit, ChanTypeOK, SchedInv, FifoInv, FifoTypes
<1>3. Parked /\ Handing
  BY NoMembers DEF ChanInit, Parked, Handing, Unbuffered
<1>4. \A g \in Fiber : at[g] = "start"
  BY DEF ChanInit, SchedInit
<1>5. Unborn
  BY <1>4 DEF Unborn
<1>6. ASSUME NEW c \in Unbuffered PROVE ServedAt(c)
  <2>1. \A g : ~AtRetry(g, c)
    BY <1>4 DEF AtRetry
  <2>2. receivers[c] = <<>>
    BY DEF ChanInit, Unbuffered
  <2>3. QED
    BY <2>1, <2>2 DEF ServedAt
<1>7. QED
  BY <1>1, <1>2, <1>3, <1>5, <1>6 DEF ChanInv, WaitInv, Served

LEMMA ChanInductive ==
  ASSUME NoSelect PROVE ChanInv /\ [ChanNext]_allChanVars => ChanInv'
<1> SUFFICES ASSUME ChanInv, [ChanNext]_allChanVars PROVE ChanInv'
  OBVIOUS
<1>1. /\ FifoInv /\ FifoTypes /\ WaitInv /\ SchedInv /\ SchedTypeOK /\ Unborn
      /\ prog \in Programs
  BY DEF ChanInv, WaitInv, SchedInv, FifoInv
<1>2. FifoInv'
  BY <1>1, FifoInductive
<1>3. ASSUME Kept PROVE ChanInv'
  BY <1>2, <1>3 DEF ChanInv, WaitInv, Kept, ChanTypeOK, SchedInv, FifoInv, FifoTypes
<1>4. ASSUME SchedNext, UNCHANGED chanVars PROVE Kept
  <2>1. SchedInv' /\ UNCHANGED <<closed, senders, receivers, contents>>
    BY <1>1, <1>4, SchedInductive DEF chanVars
  <2>2. PICK f \in born :
          /\ Others(f) /\ Stays({f}) /\ born \subseteq born'
          /\ current \in {f, Loop}
          /\ at[f] \notin {"retry", "handed"} /\ at'[f] \notin {"retry", "handed"}
          /\ \A g \in Fiber \ {f} :
               at[g] # "start" /\ (Queued(g)' # {} \/ current' = g) => Queued(g) # {}
    BY <1>1, <1>4, SchedMoves
  <2>3. QED
    BY <2>1, <2>2, QuietKeeps
<1>5. ASSUME NEW f \in Fiber, ChanStep(f) PROVE Kept
  <2>1. ASSUME ip[f] \in 1 .. Len(prog[f])
        PROVE  /\ ThisCall(f).op # "select"
               /\ ThisCall(f).op \in {"send", "receive", "receive?", "close"} =>
                    ThisCall(f).ch \in Channels
    <3>1. ThisCall(f) \in Call
      BY <1>1, <2>1, CallTyped
    <3>2. prog[f] \in Seq(Call)
      BY <1>1 DEF SchedTypeOK
    <3>3. ip[f] \in DOMAIN prog[f]
      BY <2>1, <3>2
    <3>4. QED
      BY <1>1, <3>1, <3>3, ChannelAssumption DEF NoSelect, ThisCall, ChannelAssumption
  <2>2. CASE SendBlocks(f)
    BY <2>1, <2>2, SendBlocksKeeps DEF SendBlocks, Trying
  <2>3. CASE Send(f)
    BY <2>1, <2>3, SendKeeps DEF Send, Trying
  <2>4. CASE Sent(f)
    BY <2>4, SentKeeps
  <2>5. CASE ReceiveBlocks(f)
    BY <2>1, <2>5, ReceiveBlocksKeeps DEF ReceiveBlocks, Trying
  <2>6. CASE Receive(f)
    BY <2>1, <2>6, ReceiveKeeps DEF Receive, Trying
  <2>7. CASE Close(f)
    BY <2>1, <2>7, CloseKeeps DEF Close, Calls, ThisCall
  <2>8. CASE Select(f) \/ SelectWaits(f)
    BY <2>1, <2>8 DEF Select, SelectWaits, Selecting
  <2>9. QED
    BY <1>5, <2>2, <2>3, <2>4, <2>5, <2>6, <2>7, <2>8 DEF ChanStep
<1>6. CASE UNCHANGED allChanVars
  <2>1. UNCHANGED <<prog, ip, at, current, runnables, timers, born, ended, closed, senders,
                    receivers, contents, sent, got>>
    BY <1>6 DEF allChanVars, schedVars, chanVars
  <2>2. Parked' /\ Handing' /\ Unborn' /\ Served'
    <3>1. Parked'
      <4>1. \A g, c, ops : Waits(g, c, ops) => Waits(g, c, ops)'
        BY <2>1 DEF Waits, Idle, Queued, ThisCall
      <4>2. QED
        BY <1>1, <2>1, <4>1 DEF WaitInv, Parked
    <3>2. Handing'
      BY <1>1, <2>1 DEF WaitInv, Handing, Hands, Idle, Queued, ThisCall
    <3>3. Unborn'
      BY <1>1, <2>1 DEF Unborn
    <3>4. Served'
      BY <2>1 DEF ChanInv, Served, ServedAt, Queued, AtRetry, ThisCall, Empty
    <3>5. QED
      BY <3>1, <3>2, <3>3, <3>4
  <2>3. SchedInv' /\ ChanTypeOK' /\ prog' \in Programs
    BY <1>1, <2>1 DEF WaitInv, ChanTypeOK, SchedInv, SchedTypeOK, OneWakeup, NoneLost, LiveCurrent,
                      Scheduled, Queued
  <2>4. QED
    BY <1>2, <2>2, <2>3 DEF ChanInv, WaitInv
<1>7. QED
  BY <1>3, <1>4, <1>5, <1>6 DEF ChanNext

LEMMA ChanInvariant == ASSUME NoSelect PROVE ChanSpec => []ChanInv
BY ChanInitially, ChanInductive, PTL DEF ChanSpec

(* A rendezvous (Channel::Unbuffered#send): in a program without select, a *)
(* sender is due to return only when its value has been received.          *)
THEOREM ChannelRendezvous == ASSUME NoSelect PROVE ChanSpec => []Rendezvous
<1>1. ChanInv => Rendezvous
  <2> SUFFICES ASSUME ChanInv, NEW f \in Fiber, at[f] = "handed",
                      current = f \/ Queued(f) # {}
               PROVE  f \in born /\ HandedOver(f) = {}
    BY DEF Rendezvous
  <2>1. OneWakeup /\ LiveCurrent /\ Handing
    BY DEF ChanInv, WaitInv, SchedInv
  <2>2. f \in born
    BY <2>1, SchedulerAssumption DEF OneWakeup, LiveCurrent, Scheduled, SchedulerAssumption
  <2>3. ~Idle(f)
    BY DEF Idle
  <2>4. QED
    BY <2>1, <2>2, <2>3 DEF HandedOver, Handing, Hands
<1>2. QED
  BY <1>1, ChanInvariant, PTL

-----------------------------------------------------------------------------
(***************************************************************************)
(* The queues of fibers, as Deque#delete and the scheduler leave them.     *)
(***************************************************************************)
LEMMA Least ==
  ASSUME NEW T \in SUBSET Nat, T # {}
  PROVE  \E m \in T : \A k \in T : m <= k
<1> DEFINE R == OpToRel(<, Nat)
<1>1. \A x, y \in Nat : x < y => <<x, y>> \in R
  BY Zenon DEF OpToRel
<1>2. IsWellFoundedOn(R, Nat)
  BY NatLessThanWellFounded, Zenon
<1> HIDE DEF R
<1>3. PICK m \in T : \A y \in T : ~ (<<y, m>> \in R)
  <2>1. \E x \in T : \A y \in T : ~ (<<y, x>> \in R)
    BY <1>2, WFMin
  <2>2. QED
    BY <2>1
<1>4. \A y \in T : ~(y < m)
  BY <1>1, <1>3, Zenon
<1>5. QED
  BY <1>4

(* Deque#delete removes every entry of f and nothing else.                 *)
LEMMA WithoutIs ==
  ASSUME NEW S, NEW q \in Seq(S), NEW f
  PROVE  Without(q, f) \in Seq(S) /\ Mem(Without(q, f)) = Mem(q) \ {f}
<1> DEFINE Step(w, n) == IF n = 0 THEN <<>>
                         ELSE IF q[n] = f THEN w[n - 1] ELSE Append(w[n - 1], q[n])
           N == Len(q)
           First(n) == {q[i] : i \in 1 .. n} \ {f}
           Fills(w, n) == /\ w \in [0 .. n -> Seq(S)]
                          /\ \A m \in 0 .. n : w[m] = Step(w, m)
<1>1. N \in Nat /\ DOMAIN q = 1 .. N /\ \A i \in 1 .. N : q[i] \in S
  OBVIOUS
<1>2. \E w : Fills(w, N)
  <2> DEFINE T == {n \in 0 .. N : ~ \E w : Fills(w, n)}
  <2> HIDE DEF Fills
  <2>1. SUFFICES ASSUME T # {} PROVE FALSE
    BY <1>1
  <2>2. PICK n \in T : \A k \in T : n <= k
    <3>1. T \in SUBSET Nat
      BY <1>1
    <3> HIDE DEF T
    <3>2. QED
      BY <2>1, <3>1, Least
  <2>0. n \in 0 .. N /\ (n # 0 => n - 1 \in 0 .. N /\ n - 1 \notin T /\ n \in 1 .. N)
    BY <1>1, <2>2
  <2> USE DEF Fills
  <2>3. CASE n = 0
    <3> DEFINE w == [m \in 0 .. 0 |-> <<>>]
    <3>1. Fills(w, 0)
      OBVIOUS
    <3>2. QED
      BY <2>2, <2>3, <3>1
  <2>4. CASE n # 0
    <3>1. n - 1 \in 0 .. N /\ n - 1 \notin T /\ n \in 1 .. N
      BY <2>0, <2>4
    <3>2. PICK v : Fills(v, n - 1)
      BY <3>1
    <3> DEFINE x == IF q[n] = f THEN v[n - 1] ELSE Append(v[n - 1], q[n])
               w == [m \in 0 .. n |-> IF m = n THEN x ELSE v[m]]
    <3>3. x \in Seq(S)
      BY <1>1, <3>1, <3>2
    <3>4. w \in [0 .. n -> Seq(S)]
      BY <3>1, <3>2, <3>3
    <3>5. ASSUME NEW m \in 0 .. n PROVE w[m] = Step(w, m)
      <4>1. CASE m = n
        <5>1. w[n] = x /\ w[n - 1] = v[n - 1]
          BY <3>1
        <5>2. QED
          BY <2>4, <4>1, <5>1
      <4>2. CASE m # n
        <5>1. m \in 0 .. n - 1 /\ w[m] = v[m] /\ (m # 0 => w[m - 1] = v[m - 1])
          BY <3>1, <4>2
        <5>2. v[m] = Step(v, m)
          BY <3>2, <5>1
        <5>3. QED
          BY <5>1, <5>2
      <4>3. QED
        BY <4>1, <4>2
    <3>6. Fills(w, n)
      BY <3>4, <3>5
    <3>7. QED
      BY <2>2, <3>6
  <2>5. QED
    BY <2>3, <2>4
<1> DEFINE kept == CHOOSE w : w = [n \in 0 .. N |-> Step(w, n)]
<1>3. Without(q, f) = kept[N]
  BY DEF Without
<1>4. kept = [n \in 0 .. N |-> Step(kept, n)]
  <2>1. PICK w : Fills(w, N)
    BY <1>2
  <2>2. w = [n \in 0 .. N |-> Step(w, n)]
    <3> HIDE DEF Step
    <3>1. QED
      BY <2>1
  <2> HIDE DEF Step
  <2>3. QED
    BY <2>2
<1> HIDE DEF kept
<1>5. \A n \in 0 .. N : kept[n] \in Seq(S) /\ Mem(kept[n]) = First(n)
  <2> DEFINE T == {n \in 0 .. N : ~ (kept[n] \in Seq(S) /\ Mem(kept[n]) = First(n))}
  <2>1. SUFFICES ASSUME T # {} PROVE FALSE
    OBVIOUS
  <2>2. PICK n \in T : \A k \in T : n <= k
    <3>1. T \in SUBSET Nat
      BY <1>1
    <3> HIDE DEF T
    <3>2. QED
      BY <2>1, <3>1, Least
  <2>3. n \in 0 .. N /\ kept[n] = Step(kept, n)
    <3> HIDE DEF Step
    <3>1. QED
      BY <1>4, <2>2
  <2>4. CASE n = 0
    <3>1. kept[n] = <<>> /\ First(n) = {}
      BY <2>3, <2>4
    <3>2. kept[n] \in Seq(S) /\ Mem(kept[n]) = {}
      BY <3>1, NoMembers
    <3> HIDE DEF First
    <3>3. QED
      BY <2>2, <3>1, <3>2
  <2>5. CASE n # 0
    <3>1. n - 1 \in 0 .. N /\ n \in 1 .. N
      BY <1>1, <2>3, <2>5
    <3>2. kept[n - 1] \in Seq(S) /\ Mem(kept[n - 1]) = First(n - 1)
      <4>1. n - 1 \notin T
        <5> HIDE DEF T
        <5>1. QED
          BY <2>2, <3>1
      <4> HIDE DEF First
      <4>2. QED
        BY <3>1, <4>1
    <3>3. First(n) = First(n - 1) \cup ({q[n]} \ {f})
      <4>1. 1 .. n = (1 .. n - 1) \cup {n}
        BY <3>1
      <4>2. QED
        BY <4>1
    <3>4. q[n] \in S
      BY <1>1, <3>1
    <3> HIDE DEF First
    <3>5. CASE q[n] = f
      BY <2>2, <2>3, <2>5, <3>2, <3>3, <3>5
    <3>6. CASE q[n] # f
      <4>1. kept[n] = Append(kept[n - 1], q[n])
        BY <2>3, <2>5, <3>6
      <4>2. kept[n] \in Seq(S) /\ Mem(kept[n]) = Mem(kept[n - 1]) \cup {q[n]}
        BY <3>2, <3>4, <4>1, AppendMembers
      <4>3. QED
        BY <2>2, <3>2, <3>3, <3>6, <4>2
    <3>7. QED
      BY <3>5, <3>6
  <2>6. QED
    BY <2>4, <2>5
<1>6. First(N) = Mem(q) \ {f}
  BY <1>1 DEF Mem
<1>7. N \in 0 .. N
  BY <1>1
<1> HIDE DEF First
<1>8. QED
  BY <1>3, <1>5, <1>6, <1>7

LEMMA EmptyMembers == ASSUME NEW S, NEW q \in Seq(S) PROVE Mem(q) = {} <=> q = <<>>
<1>1. ASSUME Mem(q) = {} PROVE q = <<>>
  <2>1. \A i \in DOMAIN q : q[i] \in Mem(q)
    BY DEF Mem
  <2>2. Len(q) \in Nat /\ Len(q) \notin DOMAIN q /\ DOMAIN q = 1 .. Len(q)
    BY <1>1, <2>1
  <2>3. QED
    BY <2>2
<1>2. QED
  BY <1>1, NoMembers

(* The run queue loses its head to the processor, and gains at its end.    *)
LEMMA QueueLoses ==
  ASSUME SchedTypeOK, Reschedule(runnables)
  PROVE  /\ runnables' \in Seq(Fiber) /\ current' \in Fiber \cup {Loop}
         /\ \A g \in Fiber : Queued(g) # {} => Queued(g)' # {} \/ current' = g
<1>1. CASE runnables = <<>>
  BY <1>1 DEF SchedTypeOK, Reschedule, Queued
<1>2. CASE runnables # <<>>
  <2>1. current' = runnables[1] /\ runnables' = Tail(runnables)
    BY <1>2 DEF Reschedule
  <2>2. /\ runnables' \in Seq(Fiber) /\ Len(runnables) \in Nat \ {0}
        /\ DOMAIN runnables = 1 .. Len(runnables)
        /\ DOMAIN runnables' = 1 .. (Len(runnables) - 1)
        /\ \A i \in DOMAIN runnables' : runnables'[i] = runnables[i + 1]
    BY <1>2, <2>1 DEF SchedTypeOK
  <2>3. current' \in Fiber
    BY <2>1, <2>2 DEF SchedTypeOK
  <2>4. ASSUME NEW g \in Fiber, NEW i \in DOMAIN runnables, runnables[i] = g, g # current'
        PROVE  Queued(g)' # {}
    <3>1. i - 1 \in DOMAIN runnables' /\ runnables'[i - 1] = g
      BY <2>1, <2>2, <2>4
    <3>2. QED
      BY <3>1 DEF Queued
  <2>5. QED
    BY <2>2, <2>3, <2>4 DEF Queued
<1>3. QED
  BY <1>1, <1>2

LEMMA QueueGains ==
  ASSUME SchedTypeOK, NEW gs \in Seq(Fiber), Enqueue(gs)
  PROVE  /\ runnables' \in Seq(Fiber)
         /\ \A g \in Fiber : Queued(g) # {} \/ g \in Mem(gs) => Queued(g)' # {}
<1>1. runnables' \in Seq(Fiber) /\ Mem(runnables') = Mem(runnables) \cup Mem(gs)
  BY ConcatMembers DEF SchedTypeOK, Enqueue
<1>2. /\ \A g : Queued(g) # {} <=> g \in Mem(runnables)
      /\ \A g : Queued(g)' # {} <=> g \in Mem(runnables')
  BY DEF Queued, Mem
<1>3. QED
  BY <1>1, <1>2

-----------------------------------------------------------------------------
(***************************************************************************)
(* Waiting, in every program.                                              *)
(* Whatever a select resumes by mistake, a channel with a buffer keeps     *)
(* nobody waiting for what it has.                                         *)
(***************************************************************************)
(* A buffered channel keeps nobody waiting for what it has.                *)
Level ==
  \A c \in Buffered : /\ receivers[c] # <<>> => Empty(c)
                      /\ senders[c] # <<>> => NoRoom(c)

ListTypes ==
  senders \in [Channels -> Seq(Fiber)] /\ receivers \in [Channels -> Seq(Fiber)]

(* A fiber inside a select is in the queue of each of its operations on    *)
(* buffered channels, unless it has been resumed or will be.               *)
Enrolled(g) ==
  \A i \in DOMAIN ThisCall(g).ops :
    LET op == ThisCall(g).ops[i] IN
    op.ch \in Buffered =>
      g \in Mem(IF op.do = "send" THEN senders[op.ch] ELSE receivers[op.ch])

SelectInv ==
  \A g \in Fiber : at[g] = "selecting" /\ current # g /\ Queued(g) = {} => Enrolled(g)

(* A step of f takes no other fiber from the queue of a buffered channel   *)
(* without resuming it.                                                    *)
Leaves(f) ==
  \A g \in Fiber \ {f} : current' # g /\ Queued(g)' = {} =>
    /\ Queued(g) = {}
    /\ \A c \in Buffered : /\ g \in Mem(senders[c]) => g \in Mem(senders'[c])
                           /\ g \in Mem(receivers[c]) => g \in Mem(receivers'[c])

Steps(f) == Others(f) /\ SchedTypeOK' /\ ListTypes' /\ Level' /\ Leaves(f)

(* Queues s are q but for entries of f.                                    *)
Thins(s, q, f) ==
  /\ s \in [Channels -> Seq(Fiber)]
  /\ \A c \in Channels : Mem(s[c]) \subseteq Mem(q[c]) /\ Mem(q[c]) \ {f} \subseteq Mem(s[c])

LEMMA UnwaitedThins ==
  ASSUME NEW f, NEW do, NEW q \in [Channels -> Seq(Fiber)]
  PROVE  Thins(Unwaited(f, do, q), q, f)
<1>1. \A c \in Channels : /\ q[c] \in Seq(Fiber) /\ Without(q[c], f) \in Seq(Fiber)
                          /\ Mem(Without(q[c], f)) = Mem(q[c]) \ {f}
  BY WithoutIs
<1> DEFINE s == Unwaited(f, do, q)
<1>2. /\ s \in [Channels -> Seq(Fiber)]
      /\ \A c \in Channels : s[c] = Without(q[c], f) \/ s[c] = q[c]
  BY <1>1 DEF Unwaited
<1> HIDE DEF s
<1>3. QED
  BY <1>1, <1>2 DEF Thins, s

LEMMA ThinsSelf == ASSUME NEW f, NEW q \in [Channels -> Seq(Fiber)] PROVE Thins(q, q, f)
BY DEF Thins

(* The ends of send and receive, alone or inside a select.                 *)
LEMMA FinishSendSteps ==
  ASSUME ChanTypeOK, Level, NEW f \in Fiber, Active(f), NEW c \in Channels, NEW s, NEW r,
         Thins(s, senders, f), Thins(r, receivers, f), closed[c] \/ ~NoRoom(c),
         FinishSend(f, c, s, r), UNCHANGED <<prog, timers, born, ended>>
  PROVE  Steps(f) /\ at'[f] # "selecting"
<1>0. /\ SchedTypeOK /\ s \in [Channels -> Seq(Fiber)] /\ r \in [Channels -> Seq(Fiber)]
      /\ current = f /\ f \in born
  BY DEF ChanTypeOK, Thins, Active
<1>1. /\ \A d \in Channels : senders[d] = <<>> => s[d] = <<>>
      /\ \A d \in Channels : receivers[d] = <<>> => r[d] = <<>>
  BY EmptyMembers DEF ChanTypeOK, Thins
<1>2. \A d \in Channels, g \in Fiber \ {f} :
        /\ g \in Mem(senders[d]) => g \in Mem(s[d])
        /\ g \in Mem(receivers[d]) => g \in Mem(r[d])
  BY DEF Thins
<1>3. Buffered \subseteq Channels
  BY ChannelAssumption DEF ChannelAssumption
<1>4. CASE SendRaises(f, c, s, r)
  <2>1. /\ senders' = s /\ receivers' = r
        /\ UNCHANGED <<prog, current, runnables, timers, born, ended, contents>>
    BY <1>4 DEF SendRaises
  <2>2. PICK i \in {ip[f] + 1, Len(prog[f]) + 1} : GoTo(f, i)
    BY <1>4 DEF SendRaises, Raise
  <2>3. i \in Nat
    BY <1>0, <2>2 DEF SchedTypeOK
  <2>4. SchedTypeOK' /\ Others(f) /\ at'[f] = "start"
    BY <1>0, <2>1, <2>2, <2>3 DEF SchedTypeOK, GoTo, Others, Place
  <2>5. \A g \in Fiber : Queued(g)' = Queued(g)
    BY <2>1 DEF Queued
  <2>6. Leaves(f)
    BY <1>2, <1>3, <2>1, <2>5 DEF Leaves
  <2>7. Level'
    BY <1>1, <1>3, <2>1 DEF Level, Empty, NoRoom
  <2>8. QED
    BY <1>0, <2>1, <2>4, <2>6, <2>7 DEF Steps, ListTypes
<1>5. CASE PutBuffered(f, c, s, r)
  <2>1. /\ ~closed[c] /\ c \in Buffered /\ senders' = s /\ receivers' = [r EXCEPT ![c] = <<>>]
        /\ contents' = [contents EXCEPT ![c] = Append(@, ThisMessage(f))]
        /\ Enqueue(r[c]) /\ GoTo(f, ip[f] + 1)
        /\ UNCHANGED <<prog, current, timers, born, ended>>
    BY <1>5 DEF PutBuffered, Return
  <2>2. ip[f] + 1 \in Nat
    BY <1>0 DEF SchedTypeOK
  <2>3. /\ runnables' \in Seq(Fiber)
        /\ \A g \in Fiber : Queued(g) # {} \/ g \in Mem(r[c]) => Queued(g)' # {}
    BY <1>0, <2>1, QueueGains
  <2>4. SchedTypeOK' /\ Others(f) /\ at'[f] = "start"
    BY <1>0, <2>1, <2>2, <2>3 DEF SchedTypeOK, GoTo, Others, Place
  <2>5. \A d \in Channels : receivers'[d] = IF d = c THEN <<>> ELSE r[d]
    BY <1>0, <2>1
  <2>6. Leaves(f)
    BY <1>2, <1>3, <2>1, <2>3, <2>5 DEF Leaves
  <2>7. Level'
    <3>1. s[c] = <<>>
      BY <1>1, <2>1 DEF Level
    <3>2. \A d \in Buffered \ {c} : contents'[d] = contents[d]
      BY <2>1 DEF ChanTypeOK
    <3>3. QED
      BY <1>1, <1>3, <2>1, <2>5, <3>1, <3>2 DEF Level, Empty, NoRoom
  <2>8. receivers' \in [Channels -> Seq(Fiber)]
    BY <1>0, <2>1
  <2>9. QED
    BY <1>0, <2>1, <2>4, <2>6, <2>7, <2>8 DEF Steps, ListTypes
<1>6. CASE PutUnbuffered(f, c, s, r)
  <2>1. /\ c \notin Buffered /\ senders' = s
        /\ contents' = [contents EXCEPT ![c] = <<ThisMessage(f)>>]
        /\ at' = [at EXCEPT ![f] = "handed"] /\ ip' = ip
    BY <1>6 DEF PutUnbuffered, Unbuffered, SuspendAt
  <2>2. /\ runnables' \in Seq(Fiber) /\ current' \in Fiber \cup {Loop}
        /\ \A g \in Fiber : Queued(g) # {} => Queued(g)' # {} \/ current' = g
        /\ receivers' \in [Channels -> Seq(Fiber)]
        /\ \A d \in Channels \ {c} : receivers'[d] = r[d]
    <3>1. CASE r[c] # <<>>
      <4>1. r[c] \in Seq(Fiber) /\ Head(r[c]) \in Fiber /\ Tail(r[c]) \in Seq(Fiber)
        BY <1>0, <3>1
      <4>2. /\ current' = Head(r[c]) /\ runnables' = runnables
            /\ receivers' = [r EXCEPT ![c] = Tail(@)]
        BY <1>6, <3>1 DEF PutUnbuffered, Resume
      <4>3. QED
        BY <1>0, <4>1, <4>2 DEF SchedTypeOK, Queued
    <3>2. CASE r[c] = <<>>
      <4>1. Reschedule(runnables) /\ receivers' = r
        BY <1>6, <3>2 DEF PutUnbuffered
      <4>2. QED
        BY <1>0, <4>1, QueueLoses
    <3>3. QED
      BY <3>1, <3>2
  <2>3. SchedTypeOK' /\ Others(f) /\ at'[f] = "handed"
    BY <1>0, <2>1, <2>2 DEF SchedTypeOK, Others, Place
  <2>4. Leaves(f)
    BY <1>2, <1>3, <2>1, <2>2 DEF Leaves
  <2>5. Level'
    <3>1. \A d \in Buffered : contents'[d] = contents[d] /\ receivers'[d] = r[d]
      BY <1>3, <2>1, <2>2 DEF ChanTypeOK
    <3>2. QED
      BY <1>1, <1>3, <2>1, <3>1 DEF Level, Empty, NoRoom
  <2>6. QED
    BY <1>0, <2>1, <2>2, <2>3, <2>4, <2>5 DEF Steps, ListTypes
<1>7. QED
  BY <1>4, <1>5, <1>6 DEF FinishSend

LEMMA FinishReceiveSteps ==
  ASSUME ChanTypeOK, Level, NEW f \in Fiber, Active(f), NEW c \in Channels, NEW s, NEW r,
         Thins(s, senders, f), Thins(r, receivers, f),
         FinishReceive(f, c, s, r), UNCHANGED <<prog, timers, born, ended>>
  PROVE  Steps(f) /\ at'[f] # "selecting"
<1>0. /\ SchedTypeOK /\ s \in [Channels -> Seq(Fiber)] /\ r \in [Channels -> Seq(Fiber)]
      /\ current = f /\ f \in born
  BY DEF ChanTypeOK, Thins, Active
<1>1. /\ \A d \in Channels : senders[d] = <<>> => s[d] = <<>>
      /\ \A d \in Channels : receivers[d] = <<>> => r[d] = <<>>
  BY EmptyMembers DEF ChanTypeOK, Thins
<1>2. \A d \in Channels, g \in Fiber \ {f} :
        /\ g \in Mem(senders[d]) => g \in Mem(s[d])
        /\ g \in Mem(receivers[d]) => g \in Mem(r[d])
  BY DEF Thins
<1>3. Buffered \subseteq Channels
  BY ChannelAssumption DEF ChannelAssumption
<1>4. CASE ReceiveClosed(f, c, s, r)
  <2>1. /\ senders' = s /\ receivers' = r
        /\ UNCHANGED <<prog, current, runnables, timers, born, ended, contents>>
    BY <1>4 DEF ReceiveClosed
  <2>2. PICK i \in {ip[f] + 1, Len(prog[f]) + 1} : GoTo(f, i)
    BY <1>4 DEF ReceiveClosed, Raise, Return
  <2>3. i \in Nat
    BY <1>0, <2>2 DEF SchedTypeOK
  <2>4. SchedTypeOK' /\ Others(f) /\ at'[f] = "start"
    BY <1>0, <2>1, <2>2, <2>3 DEF SchedTypeOK, GoTo, Others, Place
  <2>5. \A g \in Fiber : Queued(g)' = Queued(g)
    BY <2>1 DEF Queued
  <2>6. Leaves(f)
    BY <1>2, <1>3, <2>1, <2>5 DEF Leaves
  <2>7. Level'
    BY <1>1, <1>3, <2>1 DEF Level, Empty, NoRoom
  <2>8. QED
    BY <1>0, <2>1, <2>4, <2>6, <2>7 DEF Steps, ListTypes
<1>5. CASE TakeBuffered(f, c, s, r)
  <2>1. /\ ~Empty(c) /\ c \in Buffered /\ receivers' = r /\ senders' = [s EXCEPT ![c] = <<>>]
        /\ contents' = [contents EXCEPT ![c] = Tail(@)]
        /\ Enqueue(s[c]) /\ GoTo(f, ip[f] + 1)
        /\ UNCHANGED <<prog, current, timers, born, ended>>
    BY <1>5 DEF TakeBuffered, Return
  <2>2. ip[f] + 1 \in Nat
    BY <1>0 DEF SchedTypeOK
  <2>3. /\ runnables' \in Seq(Fiber)
        /\ \A g \in Fiber : Queued(g) # {} \/ g \in Mem(s[c]) => Queued(g)' # {}
    BY <1>0, <2>1, QueueGains
  <2>4. SchedTypeOK' /\ Others(f) /\ at'[f] = "start"
    BY <1>0, <2>1, <2>2, <2>3 DEF SchedTypeOK, GoTo, Others, Place
  <2>5. \A d \in Channels : senders'[d] = IF d = c THEN <<>> ELSE s[d]
    BY <1>0, <2>1
  <2>6. Leaves(f)
    BY <1>2, <1>3, <2>1, <2>3, <2>5 DEF Leaves
  <2>7. Level'
    <3>1. r[c] = <<>>
      BY <1>1, <2>1 DEF Level
    <3>2. \A d \in Buffered \ {c} : contents'[d] = contents[d]
      BY <2>1 DEF ChanTypeOK
    <3>3. QED
      BY <1>1, <1>3, <2>1, <2>5, <3>1, <3>2 DEF Level, Empty, NoRoom
  <2>8. senders' \in [Channels -> Seq(Fiber)]
    BY <1>0, <2>1
  <2>9. QED
    BY <1>0, <2>1, <2>4, <2>6, <2>7, <2>8 DEF Steps, ListTypes
<1>6. CASE TakeUnbuffered(f, c, s, r)
  <2> DEFINE gs == <<Head(contents[c]).from>>
  <2>1. /\ c \in Unbuffered /\ c \notin Buffered /\ contents[c] # <<>>
        /\ receivers' = r /\ senders' = s
        /\ contents' = [contents EXCEPT ![c] = <<>>]
        /\ Enqueue(gs) /\ GoTo(f, ip[f] + 1)
        /\ UNCHANGED <<prog, current, timers, born, ended>>
    BY <1>6 DEF TakeUnbuffered, Unbuffered, Empty, Return
  <2>2. ip[f] + 1 \in Nat
    BY <1>0 DEF SchedTypeOK
  <2>3. gs \in Seq(Fiber)
    <3>1. Head(contents[c]) \in Message
      BY <2>1 DEF ChanTypeOK
    <3>2. QED
      BY <3>1 DEF Message
  <2> HIDE DEF gs
  <2>4. /\ runnables' \in Seq(Fiber)
        /\ \A g \in Fiber : Queued(g) # {} => Queued(g)' # {}
    BY <1>0, <2>1, <2>3, QueueGains
  <2>5. SchedTypeOK' /\ Others(f) /\ at'[f] = "start"
    BY <1>0, <2>1, <2>2, <2>4 DEF SchedTypeOK, GoTo, Others, Place
  <2>6. Leaves(f)
    BY <1>2, <1>3, <2>1, <2>4 DEF Leaves
  <2>7. Level'
    <3>1. \A d \in Buffered : contents'[d] = contents[d]
      BY <1>3, <2>1 DEF ChanTypeOK
    <3>2. QED
      BY <1>1, <1>3, <2>1, <3>1 DEF Level, Empty, NoRoom
  <2>8. QED
    BY <1>0, <2>1, <2>5, <2>6, <2>7 DEF Steps, ListTypes
<1>7. QED
  BY <1>4, <1>5, <1>6 DEF FinishReceive

LEMMA SendBlocksSteps ==
  ASSUME ChanTypeOK, Level, NEW f \in Fiber, SendBlocks(f), ThisCall(f).ch \in Channels
  PROVE  Steps(f) /\ at'[f] # "selecting" /\ current = f /\ f \in born
<1> DEFINE c == ThisCall(f).ch
<1>1. /\ Active(f) /\ NoRoom(c) /\ Reschedule(runnables)
      /\ senders' = [senders EXCEPT ![c] = Append(@, f)]
      /\ at' = [at EXCEPT ![f] = "retry"] /\ ip' = ip
      /\ UNCHANGED <<prog, timers, born, ended, receivers, contents>>
  BY DEF SendBlocks, Trying, SuspendAt
<1>2. SchedTypeOK /\ c \in Channels /\ senders[c] \in Seq(Fiber)
  BY DEF ChanTypeOK
<1> HIDE DEF c
<1>3. /\ runnables' \in Seq(Fiber) /\ current' \in Fiber \cup {Loop}
      /\ \A g \in Fiber : Queued(g) # {} => Queued(g)' # {} \/ current' = g
  BY <1>1, <1>2, QueueLoses
<1>4. /\ Append(senders[c], f) \in Seq(Fiber)
      /\ Mem(Append(senders[c], f)) = Mem(senders[c]) \cup {f}
  BY <1>2, AppendMembers
<1>5. /\ senders' \in [Channels -> Seq(Fiber)]
      /\ \A d \in Channels : senders'[d] = IF d = c THEN Append(senders[c], f) ELSE senders[d]
  BY <1>1, <1>2, <1>4 DEF ChanTypeOK
<1>6. Buffered \subseteq Channels
  BY ChannelAssumption DEF ChannelAssumption
<1>7. SchedTypeOK' /\ Others(f) /\ at'[f] = "retry"
  BY <1>1, <1>2, <1>3 DEF SchedTypeOK, Others, Place
<1>8. Leaves(f)
  BY <1>1, <1>3, <1>4, <1>5, <1>6 DEF Leaves
<1>9. Level'
  BY <1>1, <1>5, <1>6 DEF Level, Empty, NoRoom
<1>10. QED
  BY <1>1, <1>5, <1>7, <1>8, <1>9 DEF Steps, ListTypes, ChanTypeOK, Active

LEMMA ReceiveBlocksSteps ==
  ASSUME ChanTypeOK, Level, NEW f \in Fiber, ReceiveBlocks(f), ThisCall(f).ch \in Channels
  PROVE  Steps(f) /\ at'[f] # "selecting" /\ current = f /\ f \in born
<1> DEFINE c == ThisCall(f).ch
<1>1. /\ Active(f) /\ Empty(c)
      /\ receivers' = [receivers EXCEPT ![c] = Append(@, f)]
      /\ at' = [at EXCEPT ![f] = "retry"] /\ ip' = ip
      /\ UNCHANGED <<prog, timers, born, ended, contents>>
  BY DEF ReceiveBlocks, Trying, SuspendAt
<1>2. SchedTypeOK /\ c \in Channels /\ receivers[c] \in Seq(Fiber) /\ senders[c] \in Seq(Fiber)
  BY DEF ChanTypeOK
<1>3. Buffered \subseteq Channels
  BY ChannelAssumption DEF ChannelAssumption
<1>4. /\ runnables' \in Seq(Fiber) /\ current' \in Fiber \cup {Loop}
      /\ \A g \in Fiber : Queued(g) # {} => Queued(g)' # {} \/ current' = g
      /\ senders' \in [Channels -> Seq(Fiber)]
      /\ \A d \in Buffered : senders'[d] = senders[d]
  <2>1. CASE c \in Unbuffered /\ senders[c] # <<>>
    <3>1. Head(senders[c]) \in Fiber /\ Tail(senders[c]) \in Seq(Fiber)
      BY <1>2, <2>1
    <3>2. /\ current' = Head(senders[c]) /\ runnables' = runnables
          /\ senders' = [senders EXCEPT ![c] = Tail(@)]
      BY <2>1 DEF ReceiveBlocks, Resume
    <3>3. QED
      BY <1>2, <1>3, <2>1, <3>1, <3>2 DEF SchedTypeOK, ChanTypeOK, Queued, Unbuffered
  <2>2. CASE ~(c \in Unbuffered /\ senders[c] # <<>>)
    <3>1. Reschedule(runnables) /\ senders' = senders
      BY <2>2 DEF ReceiveBlocks
    <3>2. QED
      BY <1>2, <3>1, QueueLoses DEF ChanTypeOK
  <2>3. QED
    BY <2>1, <2>2
<1> HIDE DEF c
<1>5. /\ Append(receivers[c], f) \in Seq(Fiber)
      /\ Mem(Append(receivers[c], f)) = Mem(receivers[c]) \cup {f}
  BY <1>2, AppendMembers
<1>6. /\ receivers' \in [Channels -> Seq(Fiber)]
      /\ \A d \in Channels : receivers'[d] = IF d = c THEN Append(receivers[c], f) ELSE receivers[d]
  BY <1>1, <1>2, <1>5 DEF ChanTypeOK
<1>7. SchedTypeOK' /\ Others(f) /\ at'[f] = "retry"
  BY <1>1, <1>2, <1>4 DEF SchedTypeOK, Others, Place
<1>8. Leaves(f)
  BY <1>3, <1>4, <1>5, <1>6 DEF Leaves
<1>9. Level'
  BY <1>1, <1>3, <1>4, <1>6 DEF Level, Empty, NoRoom
<1>10. QED
  BY <1>1, <1>4, <1>6, <1>7, <1>8, <1>9 DEF Steps, ListTypes, Active

(* A step of a fiber that is in no queue, or leaves the queues alone.      *)
LEMMA StandsStill ==
  ASSUME ChanTypeOK, Level, NEW f \in Fiber, SchedTypeOK', Others(f),
         UNCHANGED <<senders, receivers, contents>>,
         \A g \in Fiber \ {f} : Queued(g) # {} => Queued(g)' # {} \/ current' = g
  PROVE  Steps(f)
<1>1. Leaves(f)
  BY DEF Leaves
<1>2. Level' /\ ListTypes'
  BY DEF Level, Empty, NoRoom, ListTypes, ChanTypeOK
<1>3. QED
  BY <1>1, <1>2 DEF Steps

LEMMA SentSteps ==
  ASSUME ChanTypeOK, Level, NEW f \in Fiber, Sent(f)
  PROVE  Steps(f) /\ at'[f] # "selecting" /\ current = f /\ f \in born
<1>1. /\ Active(f) /\ GoTo(f, ip[f] + 1)
      /\ UNCHANGED <<prog, current, runnables, timers, born, ended>>
      /\ UNCHANGED <<senders, receivers, contents>>
  BY DEF Sent, ResumedAt, Return, chanVars
<1>2. SchedTypeOK /\ ip[f] + 1 \in Nat
  BY DEF ChanTypeOK, SchedTypeOK
<1>3. SchedTypeOK' /\ Others(f) /\ at'[f] = "start"
  BY <1>1, <1>2 DEF SchedTypeOK, GoTo, Others, Place
<1>4. \A g \in Fiber : Queued(g)' = Queued(g)
  BY <1>1 DEF Queued
<1>5. QED
  BY <1>1, <1>3, <1>4, StandsStill DEF Active

LEMMA CloseSteps ==
  ASSUME ChanTypeOK, Level, NEW f \in Fiber, Close(f), ThisCall(f).ch \in Channels
  PROVE  Steps(f) /\ at'[f] # "selecting" /\ current = f /\ f \in born
<1> DEFINE c == ThisCall(f).ch
<1>1. /\ Active(f) /\ GoTo(f, ip[f] + 1) /\ Enqueue(receivers[c])
      /\ receivers' = [receivers EXCEPT ![c] = <<>>]
      /\ UNCHANGED <<prog, current, timers, born, ended, senders, contents>>
  BY DEF Close, Calls, Return
<1>2. SchedTypeOK /\ ip[f] + 1 \in Nat /\ c \in Channels /\ receivers[c] \in Seq(Fiber)
  BY DEF ChanTypeOK, SchedTypeOK
<1> HIDE DEF c
<1>3. /\ runnables' \in Seq(Fiber)
      /\ \A g \in Fiber : Queued(g) # {} \/ g \in Mem(receivers[c]) => Queued(g)' # {}
  BY <1>1, <1>2, QueueGains
<1>4. SchedTypeOK' /\ Others(f) /\ at'[f] = "start"
  BY <1>1, <1>2, <1>3 DEF SchedTypeOK, GoTo, Others, Place
<1>5. /\ receivers' \in [Channels -> Seq(Fiber)]
      /\ \A d \in Channels : receivers'[d] = IF d = c THEN <<>> ELSE receivers[d]
  BY <1>1, <1>2 DEF ChanTypeOK
<1>6. Buffered \subseteq Channels
  BY ChannelAssumption DEF ChannelAssumption
<1>7. Leaves(f) /\ Level'
  BY <1>1, <1>3, <1>5, <1>6 DEF Leaves, Level, Empty, NoRoom
<1>8. QED
  BY <1>1, <1>4, <1>5, <1>7 DEF Steps, ListTypes, ChanTypeOK, Active

LEMMA SchedSteps ==
  ASSUME ChanTypeOK, Level, SchedNext, UNCHANGED chanVars
  PROVE  \E f \in Fiber : /\ Steps(f) /\ current \in {f, Loop}
                          /\ at'[f] = "selecting" => current' = f
<1> USE SchedulerAssumption DEF SchedulerAssumption
<1>0. SchedTypeOK /\ UNCHANGED <<senders, receivers, contents>>
  BY DEF ChanTypeOK, chanVars
<1> DEFINE Moves(f) == /\ SchedTypeOK' /\ Others(f)
                       /\ current \in {f, Loop} /\ (at'[f] = "selecting" => current' = f)
                       /\ \A g \in Fiber \ {f} : Queued(g) # {} => Queued(g)' # {} \/ current' = g
<1>1. ASSUME NEW f \in Fiber, Spawn(f) PROVE Moves(f)
  <2>1. ThisCall(f) \in Call /\ ThisCall(f).op = "spawn"
    BY <1>0, <1>1 DEF Spawn, Calls, ThisCall, SchedTypeOK
  <2> DEFINE h == ThisCall(f).fiber
  <2>2. h \in Fiber
    BY <2>1
  <2>3. /\ born' = born \cup {h} /\ Enqueue(<<h>>) /\ UNCHANGED <<prog, current, timers, ended>>
        /\ ip' = [ip EXCEPT ![f] = ip[f] + 1] /\ at' = [at EXCEPT ![f] = "start"]
        /\ current = f
    BY <1>1 DEF Spawn, Return, GoTo, Calls, Active
  <2> HIDE DEF h
  <2>4. <<h>> \in Seq(Fiber)
    BY <2>2
  <2>5. /\ runnables' \in Seq(Fiber)
        /\ \A g \in Fiber : Queued(g) # {} => Queued(g)' # {}
    BY <1>0, <2>3, <2>4, QueueGains
  <2>6. SchedTypeOK' /\ Others(f) /\ at'[f] = "start"
    BY <1>0, <2>2, <2>3, <2>5 DEF SchedTypeOK, Others, Place
  <2>7. QED
    BY <2>3, <2>5, <2>6
<1>2. ASSUME NEW f \in Fiber, Sleep(f) \/ SleepForever(f) \/ Finish(f) PROVE Moves(f)
  <2>1. /\ Active(f) /\ Reschedule(runnables) /\ at[f] = "start"
        /\ born' = born /\ ended' \subseteq ended \cup {f} /\ timers' \subseteq timers \cup {f}
        /\ prog' = prog /\ ip' = ip
        /\ at' = at \/ at' = [at EXCEPT ![f] = "asleep"]
    BY <1>2 DEF Sleep, SleepForever, Finish, Calls, SuspendAt
  <2>2. /\ runnables' \in Seq(Fiber) /\ current' \in Fiber \cup {Loop}
        /\ \A g \in Fiber : Queued(g) # {} => Queued(g)' # {} \/ current' = g
    BY <1>0, <2>1, QueueLoses
  <2>3. current = f /\ f \in born
    BY <2>1 DEF Active
  <2>4. SchedTypeOK' /\ Others(f) /\ at'[f] \in {"start", "asleep"}
    BY <1>0, <2>1, <2>2, <2>3 DEF SchedTypeOK, Others, Place
  <2>5. QED
    BY <2>2, <2>3, <2>4
<1>3. ASSUME NEW f \in Fiber, Awake(f) \/ Jump(f) \/ (f = Main /\ Exit) PROVE Moves(f)
  <2>1. /\ Active(f) /\ UNCHANGED <<prog, current, runnables, timers, born, ended>>
    BY <1>3 DEF Awake, Jump, Exit, Calls, ResumedAt
  <2>2. \A g \in Fiber : Queued(g)' = Queued(g)
    BY <2>1 DEF Queued
  <2>3. SchedTypeOK' /\ Others(f) /\ at'[f] \in {"start", "exited"}
    <3>1. CASE Awake(f)
      <4>1. GoTo(f, ip[f] + 1) /\ ip[f] + 1 \in Nat
        BY <1>0, <3>1 DEF Awake, Return, SchedTypeOK
      <4>2. QED
        BY <1>0, <2>1, <4>1 DEF GoTo, Others, SchedTypeOK, Place
    <3>2. CASE Jump(f)
      <4>1. ThisCall(f) \in Call /\ ThisCall(f).op = "goto"
        BY <1>0, <3>2 DEF Jump, Calls, ThisCall, SchedTypeOK
      <4>2. GoTo(f, ThisCall(f).to) /\ ThisCall(f).to \in Nat
        BY <3>2, <4>1 DEF Jump
      <4>3. QED
        BY <1>0, <2>1, <4>2 DEF GoTo, Others, SchedTypeOK, Place
    <3>3. CASE f = Main /\ Exit
      BY <1>0, <2>1, <3>3 DEF Exit, Others, SchedTypeOK, Place
    <3>4. QED
      BY <1>3, <3>1, <3>2, <3>3
  <2>4. QED
    BY <2>1, <2>2, <2>3 DEF Active
<1>4. ASSUME NEW f \in Fiber, Fire(f) PROVE Moves(f)
  <2>1. /\ current = Loop /\ current' = f /\ timers' \subseteq timers
        /\ UNCHANGED <<prog, ip, at, runnables, born, ended>>
    BY <1>4 DEF Fire, Resume
  <2>2. SchedTypeOK' /\ Others(f)
    BY <1>0, <2>1 DEF SchedTypeOK, Others
  <2>3. QED
    BY <2>1, <2>2 DEF Queued
<1> HIDE DEF Moves
<1>5. PICK f \in Fiber : Moves(f)
  BY <1>1, <1>2, <1>3, <1>4 DEF SchedNext, SchedStep
<1>6. QED
  BY <1>0, <1>5, StandsStill DEF Moves

(* What the waits of a select add to the queues.                           *)
LEMMA WaitedIs ==
  ASSUME NEW f \in Fiber, ThisCall(f).ops \in Seq(SelectAction), NEW do,
         NEW q \in [Channels -> Seq(Fiber)]
  PROVE  /\ Waited(f, do, q) \in [Channels -> Seq(Fiber)]
         /\ \A c \in Channels :
              /\ Mem(q[c]) \subseteq Mem(Waited(f, do, q)[c])
              /\ Waiting(f, do, c) => f \in Mem(Waited(f, do, q)[c])
              /\ ~Waiting(f, do, c) => Mem(Waited(f, do, q)[c]) = Mem(q[c])
<1> DEFINE ops == ThisCall(f).ops
           J(c) == {j \in DOMAIN ops : ops[j] = [do |-> do, ch |-> c]}
           more(c) == [i \in 1 .. Cardinality(J(c)) |-> f]
<1>1. DOMAIN ops = 1 .. Len(ops) /\ Len(ops) \in Nat
  OBVIOUS
<1>2. IsFiniteSet(DOMAIN ops)
  BY <1>1, FS_Interval
<1>3. ASSUME NEW c \in Channels
      PROVE  /\ q[c] \o more(c) \in Seq(Fiber)
             /\ Mem(q[c] \o more(c)) = Mem(q[c]) \cup {x \in {f} : Waiting(f, do, c)}
  <2>1. Cardinality(J(c)) \in Nat /\ (Cardinality(J(c)) = 0 <=> J(c) = {})
    <3>1. IsFiniteSet(J(c))
      BY <1>2, FS_Subset
    <3> HIDE DEF J
    <3>2. QED
      BY <3>1, FS_CardinalityType, FS_EmptySet
  <2>2. J(c) # {} <=> Waiting(f, do, c)
    BY DEF Waiting
  <2> DEFINE N == Cardinality(J(c))
  <2> HIDE DEF J
  <2>3. N \in Nat /\ (N # 0 <=> Waiting(f, do, c))
    BY <2>1, <2>2
  <2> HIDE DEF N
  <2>4. more(c) = [i \in 1 .. N |-> f]
    BY DEF N
  <2>5. more(c) \in Seq(Fiber) /\ Mem(more(c)) = {x \in {f} : Waiting(f, do, c)}
    <3>1. more(c) \in Seq(Fiber) /\ DOMAIN more(c) = 1 .. N /\ \A i \in 1 .. N : more(c)[i] = f
      <4> DEFINE m == [i \in 1 .. N |-> f]
      <4>1. DOMAIN m = 1 .. N /\ \A i \in 1 .. N : m[i] = f
        OBVIOUS
      <4>2. m \in Seq(Fiber)
        BY <2>3
      <4>3. QED
        BY <2>4, <4>1, <4>2
    <3>2. CASE N = 0
      <4>1. \A i : i \notin DOMAIN more(c)
        BY <3>1, <3>2
      <4>2. QED
        BY <2>3, <3>1, <3>2, <4>1 DEF Mem
    <3>3. CASE N # 0
      <4>1. 1 \in 1 .. N
        BY <2>3, <3>3
      <4>2. Mem(more(c)) = {f}
        BY <3>1, <4>1 DEF Mem
      <4>3. QED
        BY <2>3, <3>1, <3>3, <4>2
    <3>4. QED
      BY <3>2, <3>3
  <2> HIDE DEF more
  <2>6. QED
    BY <2>5, ConcatMembers
<1> DEFINE w == Waited(f, do, q)
<1>4. w = [c \in Channels |-> q[c] \o more(c)]
  BY DEF Waited
<1> HIDE DEF w, more
<1>5. w \in [Channels -> Seq(Fiber)] /\ \A c \in Channels : w[c] = q[c] \o more(c)
  BY <1>3, <1>4
<1>6. QED
  BY <1>3, <1>5 DEF w

(* The operations of a running select.                                     *)
LEMMA SelectTyped ==
  ASSUME FifoTypes, NEW f \in Fiber, Selecting(f)
  PROVE  /\ ThisCall(f).ops \in Seq(SelectAction)
         /\ \A i \in DOMAIN ThisCall(f).ops :
              /\ ThisCall(f).ops[i] \in SelectAction
              /\ ThisCall(f).ops[i].ch \in Channels
              /\ ThisCall(f).ops[i] = [do |-> ThisCall(f).ops[i].do, ch |-> ThisCall(f).ops[i].ch]
<1>1. ThisCall(f) \in Call /\ ThisCall(f).op = "select"
  BY CallTyped DEF Selecting
<1> DEFINE ops == ThisCall(f).ops
<1>2. ops \in Seq(SelectAction)
  BY <1>1, ChannelAssumption DEF ChannelAssumption
<1> HIDE DEF ops
<1>3. \A i \in DOMAIN ops : ops[i] \in SelectAction
  BY <1>2
<1>4. \A a \in SelectAction : a.ch \in Channels /\ a = [do |-> a.do, ch |-> a.ch]
  BY DEF SelectAction
<1>5. QED
  BY <1>2, <1>3, <1>4 DEF ops

LEMMA SelectSteps ==
  ASSUME FifoTypes, ChanTypeOK, Level, NEW f \in Fiber, Select(f)
  PROVE  Steps(f) /\ at'[f] # "selecting" /\ current = f /\ f \in born
<1> DEFINE ops == ThisCall(f).ops
           s == Unwaited(f, "send", senders)
           r == Unwaited(f, "receive", receivers)
<1>1. Thins(s, senders, f) /\ Thins(r, receivers, f)
  BY UnwaitedThins DEF ChanTypeOK
<1>2. PICK i \in DOMAIN ops :
        /\ Ready(ops[i], r)
        /\ IF ops[i].do = "send" THEN FinishSend(f, ops[i].ch, s, r)
                                 ELSE FinishReceive(f, ops[i].ch, s, r)
  BY DEF Select
<1>3. Selecting(f) /\ Active(f) /\ current = f /\ f \in born /\ UNCHANGED <<prog, timers, born, ended>>
  BY DEF Select, Selecting, Active
<1>4. ops[i].ch \in Channels
  BY <1>3, SelectTyped
<1> HIDE DEF ops, s, r
<1>5. CASE ops[i].do = "send"
  BY <1>1, <1>2, <1>3, <1>4, <1>5, FinishSendSteps DEF Ready, Full
<1>6. CASE ops[i].do # "send"
  BY <1>1, <1>2, <1>3, <1>4, <1>6, FinishReceiveSteps
<1>7. QED
  BY <1>3, <1>5, <1>6

LEMMA SelectWaitsSteps ==
  ASSUME FifoTypes, ChanTypeOK, Level, NEW f \in Fiber, SelectWaits(f)
  PROVE  /\ Steps(f) /\ current = f /\ f \in born
         /\ at'[f] = "selecting" => Enrolled(f)'
<1> DEFINE ops == ThisCall(f).ops
           s == Unwaited(f, "send", senders)
           r == Unwaited(f, "receive", receivers)
<1>1. Thins(s, senders, f) /\ Thins(r, receivers, f)
  BY UnwaitedThins DEF ChanTypeOK
<1>2. /\ Selecting(f) /\ Active(f) /\ current = f /\ f \in born
      /\ UNCHANGED <<prog, timers, born, ended, contents>>
      /\ \A i \in DOMAIN ops : ~Ready(ops[i], r)
  BY DEF SelectWaits, Selecting, Active
<1>3. /\ ops \in Seq(SelectAction)
      /\ \A i \in DOMAIN ops : /\ ops[i] \in SelectAction /\ ops[i].ch \in Channels
                               /\ ops[i] = [do |-> ops[i].do, ch |-> ops[i].ch]
  BY <1>2, SelectTyped
<1>4. /\ SchedTypeOK /\ s \in [Channels -> Seq(Fiber)] /\ r \in [Channels -> Seq(Fiber)]
      /\ \A d \in Channels : senders[d] = <<>> => s[d] = <<>>
      /\ \A d \in Channels : receivers[d] = <<>> => r[d] = <<>>
  <2> HIDE DEF s, r
  <2>1. QED
    BY <1>1, EmptyMembers DEF ChanTypeOK, Thins
<1>5. \A d \in Channels, g \in Fiber \ {f} :
        /\ g \in Mem(senders[d]) => g \in Mem(s[d])
        /\ g \in Mem(receivers[d]) => g \in Mem(r[d])
  <2> HIDE DEF s, r
  <2>1. QED
    BY <1>1 DEF Thins
<1>6. Buffered \subseteq Channels
  BY ChannelAssumption DEF ChannelAssumption
<1>7. CASE ThisCall(f).else
  <2>1. /\ GoTo(f, ip[f] + 1) /\ senders' = s /\ receivers' = r
        /\ UNCHANGED <<current, runnables>>
    BY <1>7 DEF SelectWaits, Return
  <2> HIDE DEF s, r, ops
  <2>2. ip[f] + 1 \in Nat
    BY <1>4 DEF SchedTypeOK
  <2>3. SchedTypeOK' /\ Others(f) /\ at'[f] = "start"
    BY <1>2, <1>4, <2>1, <2>2 DEF SchedTypeOK, GoTo, Others, Place
  <2>4. \A g \in Fiber : Queued(g)' = Queued(g)
    BY <2>1 DEF Queued
  <2>5. Leaves(f) /\ Level'
    BY <1>2, <1>4, <1>5, <1>6, <2>1, <2>4 DEF Leaves, Level, Empty, NoRoom
  <2>6. QED
    BY <1>2, <1>4, <2>1, <2>3, <2>5 DEF Steps, ListTypes
<1>8. CASE ~ThisCall(f).else
  <2> DEFINE x == Waited(f, "send", s)
             y == Waited(f, "receive", r)
  <2>1. /\ senders' = x /\ receivers' = y
        /\ at' = [at EXCEPT ![f] = "selecting"] /\ ip' = ip /\ Reschedule(runnables)
    BY <1>8 DEF SelectWaits, SuspendAt
  <2> HIDE DEF s, r
  <2>2. /\ x \in [Channels -> Seq(Fiber)]
        /\ \A c \in Channels : /\ Mem(s[c]) \subseteq Mem(x[c])
                               /\ Waiting(f, "send", c) => f \in Mem(x[c])
                               /\ ~Waiting(f, "send", c) => Mem(x[c]) = Mem(s[c])
    BY <1>3, <1>4, WaitedIs
  <2>3. /\ y \in [Channels -> Seq(Fiber)]
        /\ \A c \in Channels : /\ Mem(r[c]) \subseteq Mem(y[c])
                               /\ Waiting(f, "receive", c) => f \in Mem(y[c])
                               /\ ~Waiting(f, "receive", c) => Mem(y[c]) = Mem(r[c])
    BY <1>3, <1>4, WaitedIs
  <2> HIDE DEF x, y
  <2>4. /\ runnables' \in Seq(Fiber) /\ current' \in Fiber \cup {Loop}
        /\ \A g \in Fiber : Queued(g) # {} => Queued(g)' # {} \/ current' = g
    BY <1>4, <2>1, QueueLoses
  <2>5. SchedTypeOK' /\ Others(f)
    BY <1>2, <1>4, <2>1, <2>4 DEF SchedTypeOK, Others, Place
  <2>6. Leaves(f)
    BY <1>5, <1>6, <2>1, <2>2, <2>3, <2>4 DEF Leaves
  <2>7. Level'
    <3>1. ASSUME NEW c \in Buffered, y[c] # <<>> PROVE Empty(c)
      <4>1. CASE Waiting(f, "receive", c)
        <5>1. PICK i \in DOMAIN ops : ops[i] = [do |-> "receive", ch |-> c]
          BY <4>1 DEF Waiting
        <5> HIDE DEF ops
        <5>2. QED
          BY <1>2, <5>1 DEF Ready
      <4>2. CASE ~Waiting(f, "receive", c)
        <5>1. r[c] # <<>>
          BY <1>4, <1>6, <2>3, <3>1, <4>2, EmptyMembers
        <5>2. QED
          BY <1>4, <1>6, <5>1 DEF Level
      <4>3. QED
        BY <4>1, <4>2
    <3>2. ASSUME NEW c \in Buffered, x[c] # <<>> PROVE NoRoom(c)
      <4>1. CASE Waiting(f, "send", c)
        <5>1. PICK i \in DOMAIN ops : ops[i] = [do |-> "send", ch |-> c]
          BY <4>1 DEF Waiting
        <5> HIDE DEF ops
        <5>2. QED
          BY <1>2, <5>1 DEF Ready, Full, Unbuffered
      <4>2. CASE ~Waiting(f, "send", c)
        <5>1. s[c] # <<>>
          BY <1>4, <1>6, <2>2, <3>2, <4>2, EmptyMembers
        <5>2. QED
          BY <1>4, <1>6, <5>1 DEF Level
      <4>3. QED
        BY <4>1, <4>2
    <3>3. QED
      BY <1>2, <2>1, <3>1, <3>2 DEF Level, Empty, NoRoom
  <2>8. Enrolled(f)'
    <3>1. ThisCall(f)' = ThisCall(f)
      BY <1>2, <2>1 DEF ThisCall
    <3>2. ASSUME NEW i \in DOMAIN ops
          PROVE  f \in Mem(IF ops[i].do = "send" THEN x[ops[i].ch] ELSE y[ops[i].ch])
      <4>1. CASE ops[i].do = "send"
        <5>1. Waiting(f, "send", ops[i].ch)
          BY <1>3, <4>1 DEF Waiting
        <5>2. QED
          BY <1>3, <2>2, <4>1, <5>1
      <4>2. CASE ops[i].do # "send"
        <5>1. ops[i].do = "receive"
          BY <1>3, <4>2 DEF SelectAction
        <5>2. Waiting(f, "receive", ops[i].ch)
          BY <1>3, <5>1 DEF Waiting
        <5>3. QED
          BY <1>3, <2>3, <4>2, <5>2
      <4>3. QED
        BY <4>1, <4>2
    <3>3. QED
      BY <2>1, <3>1, <3>2 DEF Enrolled
  <2>9. QED
    BY <1>2, <2>1, <2>2, <2>3, <2>5, <2>6, <2>7, <2>8 DEF Steps, ListTypes
<1>9. QED
  BY <1>7, <1>8

LEMMA SelectInvKept ==
  ASSUME ChanTypeOK, SelectInv, NEW f \in Fiber, Steps(f), current \in {f, Loop},
         at'[f] = "selecting" => current' = f \/ Enrolled(f)'
  PROVE  SelectInv'
<1> SUFFICES ASSUME NEW g \in Fiber, at'[g] = "selecting", current' # g, Queued(g)' = {}
             PROVE  Enrolled(g)'
  BY DEF SelectInv
<1>1. CASE g = f
  BY <1>1
<1>2. CASE g # f
  <2>1. /\ prog' = prog /\ at[g] = "selecting" /\ ip'[g] = ip[g] /\ Queued(g) = {}
        /\ \A c \in Buffered : /\ g \in Mem(senders[c]) => g \in Mem(senders'[c])
                               /\ g \in Mem(receivers[c]) => g \in Mem(receivers'[c])
    BY <1>2 DEF Steps, Others, Leaves
  <2>2. current # g
    BY <1>2, SchedulerAssumption DEF SchedulerAssumption
  <2>3. Enrolled(g) /\ ThisCall(g)' = ThisCall(g)
    BY <2>1, <2>2 DEF SelectInv, ThisCall
  <2>4. QED
    BY <2>1, <2>3 DEF Enrolled
<1>3. QED
  BY <1>1, <1>2

(* The inductive invariant of every program, with select or without.       *)
EveryInv == FifoInv /\ ChanTypeOK /\ Level /\ SelectInv

LEMMA EveryInitially == ChanInit => EveryInv
<1> SUFFICES ASSUME ChanInit PROVE EveryInv
  OBVIOUS
<1>1. ChanInv
  BY ChanInitially
<1>2. FifoInv /\ ChanTypeOK
  BY <1>1 DEF ChanInv, WaitInv
<1>3. Level
  BY ChannelAssumption DEF ChanInit, Level, ChannelAssumption
<1>4. SelectInv
  BY DEF ChanInit, SchedInit, SelectInv
<1>5. QED
  BY <1>2, <1>3, <1>4 DEF EveryInv

LEMMA EveryInductive == EveryInv /\ [ChanNext]_allChanVars => EveryInv'
<1> SUFFICES ASSUME EveryInv, [ChanNext]_allChanVars PROVE EveryInv'
  OBVIOUS
<1>1. FifoInv /\ FifoTypes /\ ChanTypeOK /\ Level /\ SelectInv
  BY DEF EveryInv, FifoInv
<1>2. FifoInv'
  BY <1>1, FifoInductive
<1>3. ASSUME NEW f \in Fiber, Steps(f), current \in {f, Loop},
             at'[f] = "selecting" => current' = f \/ Enrolled(f)'
      PROVE  EveryInv'
  <2>1. SelectInv'
    BY <1>1, <1>3, SelectInvKept
  <2>2. ChanTypeOK' /\ Level'
    BY <1>2, <1>3 DEF Steps, ListTypes, ChanTypeOK, FifoInv, FifoTypes
  <2>3. QED
    BY <1>2, <2>1, <2>2 DEF EveryInv
<1>4. ASSUME SchedNext, UNCHANGED chanVars PROVE EveryInv'
  <2>1. PICK f \in Fiber : /\ Steps(f) /\ current \in {f, Loop}
                           /\ at'[f] = "selecting" => current' = f
    BY <1>1, <1>4, SchedSteps
  <2>2. QED
    BY <1>3, <2>1
<1>5. ASSUME NEW f \in Fiber, ChanStep(f) PROVE EveryInv'
  <2>1. ASSUME ip[f] \in 1 .. Len(prog[f]),
               ThisCall(f).op \in {"send", "receive", "receive?", "close"}
        PROVE  ThisCall(f).ch \in Channels
    <3>1. ThisCall(f) \in Call
      BY <1>1, <2>1, CallTyped
    <3>2. QED
      BY <2>1, <3>1, ChannelAssumption DEF ChannelAssumption
  <2>2. ASSUME Steps(f), current = f, at'[f] # "selecting" \/ Enrolled(f)' PROVE EveryInv'
    BY <1>3, <2>2
  <2>3. CASE SendBlocks(f)
    BY <1>1, <2>1, <2>2, <2>3, SendBlocksSteps DEF SendBlocks, Trying
  <2>4. CASE Send(f)
    <3>1. /\ Active(f) /\ ThisCall(f).ch \in Channels /\ UNCHANGED <<prog, timers, born, ended>>
          /\ (closed[ThisCall(f).ch] \/ ~NoRoom(ThisCall(f).ch))
          /\ FinishSend(f, ThisCall(f).ch, senders, receivers)
      BY <2>1, <2>4 DEF Send, Trying
    <3>2. Thins(senders, senders, f) /\ Thins(receivers, receivers, f) /\ current = f
      BY <1>1, <3>1, ThinsSelf DEF ChanTypeOK, Active
    <3>3. QED
      BY <1>1, <2>2, <3>1, <3>2, FinishSendSteps
  <2>5. CASE Sent(f)
    BY <1>1, <2>2, <2>5, SentSteps
  <2>6. CASE ReceiveBlocks(f)
    BY <1>1, <2>1, <2>2, <2>6, ReceiveBlocksSteps DEF ReceiveBlocks, Trying
  <2>7. CASE Receive(f)
    <3>1. /\ Active(f) /\ ThisCall(f).ch \in Channels /\ UNCHANGED <<prog, timers, born, ended>>
          /\ FinishReceive(f, ThisCall(f).ch, senders, receivers)
      BY <2>1, <2>7 DEF Receive, Trying
    <3>2. Thins(senders, senders, f) /\ Thins(receivers, receivers, f) /\ current = f
      BY <1>1, <3>1, ThinsSelf DEF ChanTypeOK, Active
    <3>3. QED
      BY <1>1, <2>2, <3>1, <3>2, FinishReceiveSteps
  <2>8. CASE Close(f)
    BY <1>1, <2>1, <2>2, <2>8, CloseSteps DEF Close, Calls, ThisCall
  <2>9. CASE Select(f)
    BY <1>1, <2>2, <2>9, SelectSteps
  <2>10. CASE SelectWaits(f)
    BY <1>1, <2>2, <2>10, SelectWaitsSteps
  <2>11. QED
    BY <1>5, <2>3, <2>4, <2>5, <2>6, <2>7, <2>8, <2>9, <2>10 DEF ChanStep
<1>6. CASE UNCHANGED allChanVars
  <2>1. UNCHANGED <<prog, ip, at, current, runnables, timers, born, ended, closed, senders,
                    receivers, contents, sent, got>>
    BY <1>6 DEF allChanVars, schedVars, chanVars
  <2>2. ChanTypeOK' /\ Level' /\ SelectInv'
    BY <1>1, <2>1 DEF ChanTypeOK, SchedTypeOK, Level, Empty, NoRoom, SelectInv, Enrolled, Queued,
                      ThisCall
  <2>3. QED
    BY <1>2, <2>2 DEF EveryInv
<1>7. QED
  BY <1>4, <1>5, <1>6 DEF ChanNext

LEMMA EveryInvariant == ChanSpec => []EveryInv
BY EveryInitially, EveryInductive, PTL DEF ChanSpec

(* A select misses nothing on buffered channels (Channel.select): once the *)
(* program is at rest, none waits for an operation that is ready.          *)
THEOREM ChannelNoMissedSelect == ChanSpec => []NoMissedSelect
<1>1. EveryInv => NoMissedSelect
  <2> SUFFICES ASSUME EveryInv, Quiet, NEW f \in born, at[f] = "selecting",
                      NEW i \in DOMAIN ThisCall(f).ops, ThisCall(f).ops[i].ch \in Buffered
               PROVE  ~Ready(ThisCall(f).ops[i], receivers)
    BY DEF NoMissedSelect
  <2> DEFINE op == ThisCall(f).ops[i]
  <2>1. ChanTypeOK /\ Level /\ SelectInv /\ f \in Fiber /\ op.ch \in Channels
    BY ChannelAssumption DEF EveryInv, ChanTypeOK, SchedTypeOK, ChannelAssumption
  <2>2. current # f /\ Queued(f) = {}
    BY <2>1, SchedulerAssumption DEF Quiet, Queued, SchedulerAssumption
  <2>3. f \in Mem(IF op.do = "send" THEN senders[op.ch] ELSE receivers[op.ch])
    BY <2>1, <2>2 DEF SelectInv, Enrolled
  <2> HIDE DEF op
  <2>4. IF op.do = "send" THEN senders[op.ch] # <<>> ELSE receivers[op.ch] # <<>>
    BY <2>1, <2>3, EmptyMembers DEF ChanTypeOK
  <2>5. IF op.do = "send" THEN NoRoom(op.ch) ELSE Empty(op.ch)
    BY <2>1, <2>4 DEF Level, op
  <2>6. ~Ready(op, receivers)
    BY <2>5 DEF Ready, Full
  <2>7. QED
    BY <2>6 DEF op
<1>2. QED
  BY <1>1, EveryInvariant, PTL

-----------------------------------------------------------------------------
(***************************************************************************)
(* What the two invariants give together, without a select.                *)
(***************************************************************************)
(* Nobody waits to receive on a closed channel, unless in a select.        *)
Open == \A c \in Channels : receivers[c] # <<>> => ~closed[c]

LEMMA OpenInductive ==
  ASSUME NoSelect, FifoTypes, ChanTypeOK, Open, [ChanNext]_allChanVars
  PROVE  Open'
<1>1. CASE UNCHANGED <<receivers, closed>>
  BY <1>1 DEF Open
<1>2. CASE \E f \in Fiber : ChanStep(f)
  <2>1. PICK f \in Fiber : ChanStep(f)
    BY <1>2
  <2> DEFINE c == ThisCall(f).ch
  <2>2. CASE ReceiveBlocks(f)
    <3>1. ~closed[c] /\ receivers' = [receivers EXCEPT ![c] = Append(@, f)] /\ closed' = closed
      BY <2>2 DEF ReceiveBlocks
    <3> HIDE DEF c
    <3>2. QED
      BY <3>1 DEF Open, ChanTypeOK
  <2>3. CASE Send(f)
    <3>1. /\ closed' = closed
          /\ \/ receivers' = receivers
             \/ receivers' = [receivers EXCEPT ![c] = <<>>]
             \/ receivers[c] # <<>> /\ receivers' = [receivers EXCEPT ![c] = Tail(@)]
      BY <2>3 DEF Send, FinishSend, SendRaises, PutBuffered, PutUnbuffered
    <3> HIDE DEF c
    <3>2. QED
      BY <3>1 DEF Open, ChanTypeOK
  <2>4. CASE Close(f)
    <3>1. /\ closed' = [closed EXCEPT ![c] = TRUE] /\ receivers' = [receivers EXCEPT ![c] = <<>>]
      BY <2>4 DEF Close
    <3> HIDE DEF c
    <3>2. QED
      BY <3>1 DEF Open, ChanTypeOK
  <2>5. CASE SendBlocks(f) \/ Sent(f) \/ Receive(f)
    BY <1>1, <2>5 DEF SendBlocks, Sent, Receive, FinishReceive, TakeBuffered, TakeUnbuffered,
                      ReceiveClosed, chanVars
  <2>6. CASE Select(f) \/ SelectWaits(f)
    <3>1. ip[f] \in 1 .. Len(prog[f]) /\ ThisCall(f).op = "select"
      BY <2>6 DEF Select, SelectWaits, Selecting
    <3>2. ip[f] \in DOMAIN prog[f]
      BY <3>1 DEF ChanTypeOK, SchedTypeOK
    <3>3. QED
      BY <3>1, <3>2 DEF NoSelect, FifoTypes, ThisCall
  <2>7. QED
    BY <2>1, <2>2, <2>3, <2>4, <2>5, <2>6 DEF ChanStep
<1>3. QED
  BY <1>1, <1>2 DEF ChanNext, chanVars, allChanVars

(* No wakeup is lost, in a program without select whose buffered channels  *)
(* have room for one value: nobody waits beside a value, beside room, on a *)
(* closed channel, or for someone who waits for them (send, receive_impl,  *)
(* close, both classes).                                                   *)
THEOREM ChannelNoLostWakeup ==
  ASSUME NoSelect, \A c \in Buffered : Capacity[c] # 0
  PROVE  ChanSpec => []NoLostWakeup
<1>1. ChanInit => Open
  BY DEF ChanInit, Open
<1>2. Open /\ ChanInv /\ [ChanNext]_allChanVars => Open'
  BY OpenInductive DEF ChanInv, FifoInv, WaitInv
<1>3. Open /\ ChanInv /\ EveryInv => NoLostWakeup
  <2> SUFFICES ASSUME Open, ChanInv, EveryInv, NEW c \in Channels
               PROVE  LET serving == /\ current \in Fiber
                                     /\ at[current] = "retry"
                                     /\ ThisCall(current).ch = c
                      IN
                      /\ receivers[c] # <<>> => ~closed[c] /\ (Empty(c) \/ serving)
                      /\ senders[c] # <<>> /\ c \in Buffered => NoRoom(c)
                      /\ receivers[c] # <<>> /\ senders[c] # <<>> => serving
    BY DEF NoLostWakeup
  <2>1. receivers[c] # <<>> => ~closed[c]
    BY DEF Open
  <2>2. CASE c \in Buffered
    <3>1. /\ receivers[c] # <<>> => Empty(c)
          /\ senders[c] # <<>> => NoRoom(c)
      BY <2>2 DEF EveryInv, Level
    <3>2. ~(Empty(c) /\ NoRoom(c))
      BY <2>2, ChannelAssumption DEF Empty, NoRoom, ChannelAssumption
    <3>3. QED
      BY <2>1, <3>1, <3>2
  <2>3. CASE c \notin Buffered
    <3>1. ServedAt(c)
      BY <2>3 DEF ChanInv, Served, Unbuffered
    <3>2. QED
      BY <2>1, <2>3, <3>1 DEF ServedAt, AtRetry
  <2>4. QED
    BY <2>2, <2>3
<1>4. QED
  BY <1>1, <1>2, <1>3, ChanInvariant, EveryInvariant, PTL DEF ChanSpec

(* Every variable of the channels keeps its type, whatever the program.    *)
THEOREM ChannelTypes == ChanSpec => []ChanTypeOK
BY EveryInvariant, PTL DEF EveryInv

(* One wakeup per wait, and nobody lost: what the scheduler guarantees on  *)
(* its own (Fiber#resume, Scheduler.reschedule) the channels keep, in a    *)
(* program without select.                                                 *)
THEOREM ChannelOneWakeup == ASSUME NoSelect PROVE ChanSpec => [](OneWakeup /\ NoneLost)
BY ChanInvariant, PTL DEF ChanInv, WaitInv, SchedInv

=============================================================================
