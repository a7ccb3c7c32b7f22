------------------------------- MODULE Channel -------------------------------
(***************************************************************************)
(* Channels between fibers: src/concurrent/channel.cr, buffered and        *)
(* unbuffered, with close and Channel.select.                              *)
(*                                                                         *)
(* A wait loop of the code ("while full? ... reschedule") is modelled by   *)
(* the label "retry": the resumed fiber evaluates the condition of the     *)
(* loop again, whatever resumed it.  The last switch of an unbuffered send *)
(* is in no loop: its label is "handed".  Channel.select is at             *)
(* "selecting" between its waits and its unwaits.                          *)
(***************************************************************************)
EXTENDS Scheduler

CONSTANTS
  Channels,   (* the channels of a run                                     *)
  Buffered,   (* those of class Channel::Buffered; the rest are Unbuffered *)
  Capacity,   (* the @capacity of the buffered ones                        *)
  Site        (* the positions of calls in program texts                   *)

(* The module SelectAction: ReceiveAction and SendAction.                  *)
SelectAction == [do : {"send", "receive"}, ch : Channels]

(* A select call has the fields "ops", a sequence of select actions, and   *)
(* "else"; the other channel calls have a field "ch".                      *)
ASSUME ChannelAssumption ==
  /\ Buffered \subseteq Channels
  /\ Capacity \in [Buffered -> Nat]
  /\ Site \subseteq Nat
  /\ \A p \in Programs, f \in Fiber : DOMAIN p[f] \subseteq Site
  /\ \A c \in Call :
       c.op \in {"send", "receive", "receive?", "close"} => c.ch \in Channels
  /\ \A c \in Call : c.op = "select" =>
       c.ops \in Seq(SelectAction)

VARIABLES
  closed,      (* @closed                                                  *)
  senders,     (* @senders                                                 *)
  receivers,   (* @receivers                                               *)
  contents,    (* @queue of a buffered channel; for an unbuffered one,     *)
               (* <<>> or <<the value with its @sender>> (@has_value)      *)
  sent,        (* history: the values accepted, in order                   *)
  got          (* history: the values received, in order                   *)

chanVars == <<closed, senders, receivers, contents, sent, got>>

-----------------------------------------------------------------------------
(* Values are told apart by the call that sent them.                       *)
Message == [from : Fiber, nth : Site]

ThisMessage(f) == [from |-> f, nth |-> ip[f]]

Unbuffered == Channels \ Buffered

(* A faulty variant of NoRoom: an unbuffered send ignores @has_value.      *)
NoRoomIfBuffered(c) == c \in Buffered /\ Len(contents[c]) >= Capacity[c]

(* The condition of the loop in send: full? of a buffered channel, and     *)
(* @has_value of an unbuffered one.                                        *)
NoRoom(c) == IF c \in Buffered THEN Len(contents[c]) >= Capacity[c]
                               ELSE contents[c] # <<>>

(* empty? *)
Empty(c) == contents[c] = <<>>

(* full?, when the waiting receivers are r. *)
Full(c, r) == NoRoom(c) \/ (c \in Unbuffered /\ r[c] = <<>>)

(* Fiber f starts one of the calls ops, or is resumed in its wait loop.    *)
Trying(f, ops) ==
  /\ Active(f)
  /\ at[f] \in {"start", "retry"}
  /\ ip[f] \in 1 .. Len(prog[f])
  /\ ThisCall(f).op \in ops

-----------------------------------------------------------------------------
(* The ends of send and receive_impl, once their loops are left.  s and r  *)
(* are the wait queues in force: a select has left them just before.       *)

SendRaises(f, c, s, r) ==
  /\ closed[c]
  /\ Raise(f)
  /\ senders' = s /\ receivers' = r
  /\ UNCHANGED <<current, runnables, closed, contents, sent, got>>

(* Faulty variants of PutBuffered: the receivers are not woken, or the     *)
(* channel may be closed.                                                  *)
PutSilently(f, c, s, r) ==
  /\ ~closed[c] /\ c \in Buffered
  /\ contents' = [contents EXCEPT ![c] = Append(@, ThisMessage(f))]
  /\ sent' = [sent EXCEPT ![c] = Append(@, ThisMessage(f))]
  /\ receivers' = r /\ senders' = s
  /\ Return(f)
  /\ UNCHANGED <<current, runnables, closed, got>>

PutIfClosed(f, c, s, r) ==
  /\ c \in Buffered
  /\ contents' = [contents EXCEPT ![c] = Append(@, ThisMessage(f))]
  /\ sent' = [sent EXCEPT ![c] = Append(@, ThisMessage(f))]
  /\ Enqueue(r[c])
  /\ receivers' = [r EXCEPT ![c] = <<>>]
  /\ senders' = s
  /\ Return(f)
  /\ UNCHANGED <<current, closed, got>>

(* Channel::Buffered#send: every receiver is woken, to race for the value. *)
PutBuffered(f, c, s, r) ==
  /\ ~closed[c] /\ c \in Buffered
  /\ contents' = [contents EXCEPT ![c] = Append(@, ThisMessage(f))]
  /\ sent' = [sent EXCEPT ![c] = Append(@, ThisMessage(f))]
  /\ Enqueue(r[c])
  /\ receivers' = [r EXCEPT ![c] = <<>>]
  /\ senders' = s
  /\ Return(f)
  /\ UNCHANGED <<current, closed, got>>

(* A faulty variant of PutUnbuffered: the sender does not wait to be       *)
(* enqueued by the receiver, it yields.                                    *)
PutYields(f, c, s, r) ==
  /\ ~closed[c] /\ c \in Unbuffered
  /\ contents' = [contents EXCEPT ![c] = <<ThisMessage(f)>>]
  /\ sent' = [sent EXCEPT ![c] = Append(@, ThisMessage(f))]
  /\ SuspendAt(f, "handed")
  /\ IF r[c] # <<>>
     THEN /\ Resume(Head(r[c]))
          /\ receivers' = [r EXCEPT ![c] = Tail(@)]
          /\ Enqueue(<<f>>)
     ELSE Reschedule(Append(runnables, f)) /\ receivers' = r
  /\ senders' = s
  /\ UNCHANGED <<closed, got>>

(* Channel::Unbuffered#send: the first receiver is resumed directly.       *)
PutUnbuffered(f, c, s, r) ==
  /\ ~closed[c] /\ c \in Unbuffered
  /\ contents' = [contents EXCEPT ![c] = <<ThisMessage(f)>>]
  /\ sent' = [sent EXCEPT ![c] = Append(@, ThisMessage(f))]
  /\ SuspendAt(f, "handed")
  /\ IF r[c] # <<>>
     THEN /\ Resume(Head(r[c]))
          /\ receivers' = [r EXCEPT ![c] = Tail(@)]
          /\ UNCHANGED runnables
     ELSE Reschedule(runnables) /\ receivers' = r
  /\ senders' = s
  /\ UNCHANGED <<closed, got>>

(* Channel::Buffered#receive_impl: every sender is woken, to race for the  *)
(* room; a closed channel is still drained.                                *)
TakeBuffered(f, c, s, r) ==
  /\ ~Empty(c) /\ c \in Buffered
  /\ contents' = [contents EXCEPT ![c] = Tail(@)]
  /\ got' = [got EXCEPT ![c] = Append(@, Head(contents[c]))]
  /\ Enqueue(s[c])
  /\ senders' = [s EXCEPT ![c] = <<>>]
  /\ receivers' = r
  /\ Return(f)
  /\ UNCHANGED <<current, closed, sent>>

(* Channel::Unbuffered#receive_impl: the sender of the value can return.   *)
TakeUnbuffered(f, c, s, r) ==
  /\ ~Empty(c) /\ ~closed[c] /\ c \in Unbuffered
  /\ contents' = [contents EXCEPT ![c] = <<>>]
  /\ got' = [got EXCEPT ![c] = Append(@, Head(contents[c]))]
  /\ Enqueue(<<Head(contents[c]).from>>)
  /\ senders' = s /\ receivers' = r
  /\ Return(f)
  /\ UNCHANGED <<current, closed, sent>>

(* "yield if @closed": receive raises and receive? returns nil.            *)
ReceiveClosed(f, c, s, r) ==
  /\ closed[c] /\ (Empty(c) \/ c \in Unbuffered)
  /\ IF ThisCall(f).op = "receive?" THEN Return(f) ELSE Raise(f)
  /\ senders' = s /\ receivers' = r
  /\ UNCHANGED <<current, runnables, closed, contents, sent, got>>

FinishSend(f, c, s, r) ==
  \/ SendRaises(f, c, s, r)
  \/ PutBuffered(f, c, s, r)
  \/ PutUnbuffered(f, c, s, r)

FinishReceive(f, c, s, r) ==
  \/ TakeBuffered(f, c, s, r)
  \/ TakeUnbuffered(f, c, s, r)
  \/ ReceiveClosed(f, c, s, r)

-----------------------------------------------------------------------------
(* Channel#send, both classes.                                             *)

SendBlocks(f) ==
  LET c == ThisCall(f).ch IN
  /\ Trying(f, {"send"})
  /\ NoRoom(c) /\ ~closed[c]
  /\ senders' = [senders EXCEPT ![c] = Append(@, f)]
  /\ SuspendAt(f, "retry")
  /\ Reschedule(runnables)
  /\ UNCHANGED <<prog, timers, born, ended, closed, receivers, contents, sent, got>>

Send(f) ==
  LET c == ThisCall(f).ch IN
  /\ Trying(f, {"send"})
  /\ closed[c] \/ ~NoRoom(c)
  /\ FinishSend(f, c, senders, receivers)
  /\ UNCHANGED <<prog, timers, born, ended>>

(* An unbuffered send returns once it is resumed, whatever resumed it.     *)
Sent(f) ==
  /\ ResumedAt(f, "handed")
  /\ Return(f)
  /\ UNCHANGED <<prog, current, runnables, timers, born, ended, chanVars>>

(* Channel#receive and Channel#receive?, both classes.  On an unbuffered   *)
(* channel the receiver resumes the first blocked sender directly.         *)
ReceiveBlocks(f) ==
  LET c == ThisCall(f).ch IN
  /\ Trying(f, {"receive", "receive?"})
  /\ Empty(c) /\ ~closed[c]
  /\ receivers' = [receivers EXCEPT ![c] = Append(@, f)]
  /\ SuspendAt(f, "retry")
  /\ IF c \in Unbuffered /\ senders[c] # <<>>
     THEN /\ Resume(Head(senders[c]))
          /\ senders' = [senders EXCEPT ![c] = Tail(@)]
          /\ UNCHANGED runnables
     ELSE Reschedule(runnables) /\ UNCHANGED senders
  /\ UNCHANGED <<prog, timers, born, ended, closed, contents, sent, got>>

Receive(f) ==
  LET c == ThisCall(f).ch IN
  /\ Trying(f, {"receive", "receive?"})
  /\ FinishReceive(f, c, senders, receivers)
  /\ UNCHANGED <<prog, timers, born, ended>>

(* A faulty variant of Close: the receivers are not woken.                 *)
CloseSilently(f) ==
  /\ Calls(f, "close")
  /\ closed' = [closed EXCEPT ![ThisCall(f).ch] = TRUE]
  /\ Return(f)
  /\ UNCHANGED <<prog, current, runnables, timers, born, ended,
                 senders, receivers, contents, sent, got>>

(* Channel#close: the receivers are woken; the blocked senders are not.    *)
Close(f) ==
  LET c == ThisCall(f).ch IN
  /\ Calls(f, "close")
  /\ closed' = [closed EXCEPT ![c] = TRUE]
  /\ Enqueue(receivers[c])
  /\ receivers' = [receivers EXCEPT ![c] = <<>>]
  /\ Return(f)
  /\ UNCHANGED <<prog, current, timers, born, ended, senders, contents, sent, got>>

-----------------------------------------------------------------------------
(* Channel.select.                                                         *)

Selecting(f) ==
  /\ Active(f)
  /\ at[f] \in {"start", "selecting"}
  /\ ip[f] \in 1 .. Len(prog[f])
  /\ ThisCall(f).op = "select"

Waiting(f, do, c) == \E i \in DOMAIN ThisCall(f).ops :
                       ThisCall(f).ops[i] = [do |-> do, ch |-> c]

(* Deque#delete: every entry of f leaves queue q.                          *)
Without(q, f) ==
  LET kept[n \in 0 .. Len(q)] ==
        IF n = 0 THEN <<>>
        ELSE IF q[n] = f THEN kept[n - 1] ELSE Append(kept[n - 1], q[n])
  IN kept[Len(q)]

(* The wait queues once f, resumed in a select, has done its unwaits.      *)
Unwaited(f, do, queues) ==
  [c \in Channels |->
     IF at[f] = "selecting" /\ Waiting(f, do, c)
     THEN Without(queues[c], f)
     ELSE queues[c]]

(* A faulty variant of Waited: select waits for its first operation only.  *)
WaitedFirst(f, do, queues) ==
  [c \in Channels |-> IF ThisCall(f).ops[1] = [do |-> do, ch |-> c]
                      THEN Append(queues[c], f) ELSE queues[c]]

(* The wait queues once f has done its waits, one entry per operation.     *)
Waited(f, do, queues) ==
  [c \in Channels |->
     queues[c] \o [i \in 1 .. Cardinality({j \in DOMAIN ThisCall(f).ops :
                     ThisCall(f).ops[j] = [do |-> do, ch |-> c]}) |-> f]]

Ready(op, r) == IF op.do = "send" THEN ~Full(op.ch, r) ELSE ~Empty(op.ch)

(* The first ready operation is executed; the switch of an unbuffered send *)
(* is inside it.                                                           *)
Select(f) ==
  LET ops   == ThisCall(f).ops
      s     == Unwaited(f, "send", senders)
      r     == Unwaited(f, "receive", receivers)
      ready == {i \in DOMAIN ops : Ready(ops[i], r)}
  IN
  /\ Selecting(f)
  /\ \E i \in ready :
       /\ \A j \in ready : i <= j
       /\ IF ops[i].do = "send" THEN FinishSend(f, ops[i].ch, s, r)
                                ELSE FinishReceive(f, ops[i].ch, s, r)
  /\ UNCHANGED <<prog, timers, born, ended>>

(* No operation is ready: select ... else returns, a plain select waits on *)
(* every channel.                                                          *)
SelectWaits(f) ==
  LET s == Unwaited(f, "send", senders)
      r == Unwaited(f, "receive", receivers)
  IN
  /\ Selecting(f)
  /\ \A i \in DOMAIN ThisCall(f).ops : ~Ready(ThisCall(f).ops[i], r)
  /\ IF ThisCall(f).else
     THEN /\ Return(f)
          /\ senders' = s /\ receivers' = r
          /\ UNCHANGED <<current, runnables>>
     ELSE /\ senders' = Waited(f, "send", s)
          /\ receivers' = Waited(f, "receive", r)
          /\ SuspendAt(f, "selecting")
          /\ Reschedule(runnables)
  /\ UNCHANGED <<prog, timers, born, ended, closed, contents, sent, got>>

-----------------------------------------------------------------------------
ChanInit ==
  /\ SchedInit
  /\ closed = [c \in Channels |-> FALSE]
  /\ senders = [c \in Channels |-> <<>>]
  /\ receivers = [c \in Channels |-> <<>>]
  /\ contents = [c \in Channels |-> <<>>]
  /\ sent = [c \in Channels |-> <<>>]
  /\ got = [c \in Channels |-> <<>>]

ChanStep(f) ==
  \/ SendBlocks(f)
  \/ Send(f)
  \/ Sent(f)
  \/ ReceiveBlocks(f)
  \/ Receive(f)
  \/ Close(f)
  \/ Select(f)
  \/ SelectWaits(f)

ChanNext ==
  \/ SchedNext /\ UNCHANGED chanVars
  \/ \E f \in Fiber : ChanStep(f)

allChanVars == <<schedVars, chanVars>>

ChanSpec == ChanInit /\ [][ChanNext]_allChanVars

-----------------------------------------------------------------------------
(* Every variable keeps its type.                                          *)
ChanTypeOK ==
  /\ SchedTypeOK
  /\ closed \in [Channels -> BOOLEAN]
  /\ senders \in [Channels -> Seq(Fiber)]
  /\ receivers \in [Channels -> Seq(Fiber)]
  /\ contents \in [Channels -> Seq(Message)]
  /\ sent \in [Channels -> Seq(Message)]
  /\ got \in [Channels -> Seq(Message)]

(* The values of a channel are delivered once each, in the order in which  *)
(* they were accepted, and none is overwritten while it waits              *)
(* (Channel#send, Channel#receive_impl, both classes).                     *)
Fifo == \A c \in Channels : sent[c] = got[c] \o contents[c]

HandedOver(f) == {c \in Unbuffered : contents[c] # <<>> /\ contents[c][1].from = f}

(* No wakeup is lost: a receiver does not wait beside a value, nor on a    *)
(* closed channel; a sender does not wait beside room; on an unbuffered    *)
(* channel a receiver and a sender do not wait for each other.  The        *)
(* exception is the moment at which the fiber that was resumed directly is *)
(* about to take the value, or to give one to the receiver.                *)
NoLostWakeup ==
  \A c \in Channels :
    LET serving == /\ current \in Fiber
                   /\ at[current] = "retry"
                   /\ ThisCall(current).ch = c
    IN
    /\ receivers[c] # <<>> => ~closed[c] /\ (Empty(c) \/ serving)
    /\ senders[c] # <<>> /\ c \in Buffered => NoRoom(c)
    /\ receivers[c] # <<>> /\ senders[c] # <<>> => serving

(* A rendezvous (Channel::Unbuffered#send): a sender is due to return only *)
(* when its value has been received.                                       *)
Rendezvous ==
  \A f \in Fiber : at[f] = "handed" /\ (current = f \/ Queued(f) # {})
                     => f \in born /\ HandedOver(f) = {}

Receiving(f, c) ==
  /\ at[f] = "retry"
  /\ ThisCall(f).op \in {"receive", "receive?"} /\ ThisCall(f).ch = c

(* Closing releases the receivers (Channel#close): unless the process      *)
(* exits, no fiber stays in a receive on a closed channel.                 *)
ClosedReleases ==
  \A f \in Fiber, c \in Channels :
    closed[c] /\ Receiving(f, c) ~> (~Receiving(f, c) \/ Exited)

(* Nothing runs and nothing is due.                                        *)
Quiet == current = Loop /\ timers = {} /\ runnables = <<>>

(* A select misses nothing on buffered channels (Channel.select): when the *)
(* program has come to rest, no select waits for an operation that is      *)
(* ready.                                                                  *)
NoMissedSelect ==
  Quiet => \A f \in born : at[f] = "selecting" =>
    \A i \in DOMAIN ThisCall(f).ops :
      ThisCall(f).ops[i].ch \in Buffered => ~Ready(ThisCall(f).ops[i], receivers)

-----------------------------------------------------------------------------
(* What a channel promises: FifoChannel.                                   *)

InTransit == [c \in Channels |-> IF c \in Buffered THEN Capacity[c] ELSE 1]

Promise == INSTANCE FifoChannel WITH Bound <- InTransit, Drained <- Buffered

(* Every channel is a bounded FIFO channel, whatever the fibers do.        *)
ImplementsFifo == Promise!FifoSpec
=============================================================================
