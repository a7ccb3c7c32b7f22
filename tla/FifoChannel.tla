----------------------------- MODULE FifoChannel -----------------------------
(***************************************************************************)
(* What src/concurrent/channel.cr promises of a channel, whatever its      *)
(* class: values are accepted while it is open and has room, and delivered *)
(* once each, in the order of their acceptance.  Fibers, wait queues and   *)
(* the scheduler are not part of the promise.                              *)
(***************************************************************************)
EXTENDS Naturals, Sequences

CONSTANTS
  Channels,
  Message,
  Bound,     (* how many values a channel holds                            *)
  Drained    (* the channels that deliver what they hold once closed       *)

VARIABLES
  closed,
  sent,      (* the values a channel accepted                              *)
  got        (* the values it delivered                                    *)

fifoVars == <<closed, sent, got>>

FifoInit ==
  /\ closed = [c \in Channels |-> FALSE]
  /\ sent = [c \in Channels |-> <<>>]
  /\ got = [c \in Channels |-> <<>>]

Accept(c, m) ==
  /\ ~closed[c]
  /\ Len(sent[c]) < Len(got[c]) + Bound[c]
  /\ sent' = [sent EXCEPT ![c] = Append(@, m)]
  /\ UNCHANGED <<closed, got>>

Deliver(c) ==
  /\ closed[c] => c \in Drained
  /\ Len(got[c]) < Len(sent[c])
  /\ got' = [got EXCEPT ![c] = Append(@, sent[c][Len(@) + 1])]
  /\ UNCHANGED <<closed, sent>>

Shut(c) ==
  /\ closed' = [closed EXCEPT ![c] = TRUE]
  /\ UNCHANGED <<sent, got>>

FifoNext ==
  \E c \in Channels : Shut(c) \/ Deliver(c) \/ \E m \in Message : Accept(c, m)

FifoSpec == FifoInit /\ [][FifoNext]_fifoVars
=============================================================================
