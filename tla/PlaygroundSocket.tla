--------------------------- MODULE PlaygroundSocket ---------------------------
(***************************************************************************)
(* The websocket between a page of the playground and its server, as       *)
(* public/session.js and server.cr use it: two queues, which a lost        *)
(* connection cuts off anywhere.  The fibers of the server write to it     *)
(* through one buffer (http/web_socket/protocol.cr, io/buffered.cr and     *)
(* io/file_descriptor.cr), and may have to wait in the middle of it.       *)
(***************************************************************************)
EXTENDS Integers, Sequences, FiniteSets

CONSTANTS
  Source,      \* texts of the editor
  LastLine,    \* the number of lines of a text
  MaxUnderWay, \* how many messages to the client the connection holds
  MaxWriters   \* bound on the fibers that wait to write at a time

VARIABLES
  ws,          \* the socket: "connecting", "open", "closing" until onclose has run,
               \* then "closed"; "gone" when the page was left
  toServer,    \* messages of the client, not yet taken
  toClient,    \* messages written by the server, not yet taken
  outBuffer,   \* the messages in @out_buffer, up to @out_count
  writers      \* @writers: the fibers that wait for room, each with the
               \* messages it has left to write

outVars == <<toClient, outBuffer, writers>>

ASSUME SocketAssumption ==
  Source # {} /\ LastLine \in [Source -> Nat \ {0}] /\ MaxUnderWay \in Nat \ {0}
  /\ MaxWriters \in Nat \ {0}

(* A run of a text, under the number that the client gave it.              *)
Execution == [tag : Nat, source : Source]

(* WebSocket.send of the browser, which drops what a closed socket is      *)
(* given; that it raises while the socket is connecting is with its users. *)
clientSend(m) == toServer' = IF ws = "open" THEN Append(toServer, m) ELSE toServer

(* How many of these fibers wait for room.                                 *)
Waiting(fiber) == Cardinality({i \in DOMAIN writers : writers[i].fiber = fiber})

(* flush by a fiber that has these messages left, while the others wait:   *)
(* unbuffered_write writes what there is room for; when that is all, the   *)
(* buffer counts as empty, whatever was added to it meanwhile, and else    *)
(* the fiber waits behind the others.                                      *)
flush(fiber, left, buffer, others) ==
  LET room == MaxUnderWay - Len(toClient) IN
  \/ /\ Len(left) <= room
     /\ toClient' = toClient \o left
     /\ outBuffer' = <<>>
     /\ writers' = others
  \/ /\ Len(left) > room
     /\ toClient' = toClient \o SubSeq(left, 1, room)
     /\ Len(others) < MaxWriters
     /\ outBuffer' = buffer
     /\ writers' = Append(others, [fiber |-> fiber, left |-> SubSeq(left, room + 1, Len(left))])

(* Protocol#send: the message goes behind those in the buffer, and all of  *)
(* the buffer is written, though other fibers still write the same.        *)
write(fiber, m) == LET buffer == Append(outBuffer, m) IN flush(fiber, buffer, buffer, writers)

(* The fiber that waited longest goes on, with room.                       *)
GoOn ==
  /\ writers # <<>> /\ Len(toClient) < MaxUnderWay
  /\ flush(Head(writers).fiber, Head(writers).left, outBuffer, Tail(writers))

(* The connection is lost, with any part of what is under way.             *)
Lose ==
  /\ ws \in {"connecting", "open"}
  /\ ws' = "closing"
  /\ \E i \in 0..Len(toServer) : toServer' = SubSeq(toServer, 1, i)
  /\ \E i \in 0..Len(toClient) : toClient' = SubSeq(toClient, 1, i)
  /\ UNCHANGED <<outBuffer, writers>>
=============================================================================
