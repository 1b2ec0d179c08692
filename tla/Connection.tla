----------------------------- MODULE Connection -----------------------------
(***************************************************************************)
(* The connection of src/connection.rs: a TCP stream to the client, a      *)
(* reader and a writer thread, a channel between each of them and the      *)
(* debugger's thread, and the end of all of it.  The debugger is reduced   *)
(* to what it does with the connection: it receives requests, answers      *)
(* them, sends events, and is dropped; Session says when.                  *)
(*                                                                         *)
(* The client is external: it writes, and closes its end at any time.      *)
(***************************************************************************)
EXTENDS Integers, Sequences, SequencesExt

CONSTANTS
  MaxWrites,  \* bound: how many messages the client writes
  MaxEvents   \* bound: how many events the debugger sends while it runs

ASSUME ConnectionAssumption == MaxWrites \in Nat /\ MaxEvents \in Nat

VARIABLES
  client_open,  \* the client has not closed the stream
  written,      \* what the client has written
  read,         \* how much of it the reader has read
  delivered,    \* the messages written to the stream for the client
  reader,       \* what the reader thread is about to do
  writer,       \* what the writer thread is about to do
  writing,      \* the message it has received and not written yet
  inbound,      \* the channel of requests, by their numbers in `written'
  inbound_rx,   \* its receiver is alive; its sender lives in the reader
  outbound,     \* the channel of messages; its receiver lives in the writer
  outbound_tx,  \* its sender is alive
  debugger,     \* what the debugger's thread is about to do
  request,      \* the request it is handling
  events,       \* bound: how many events it has sent
  sent          \* ghost: what it has put in the outbound channel

clientVars == <<client_open, written>>

readerVars == <<read, reader>>

writerVars == <<delivered, writer, writing>>

debuggerVars == <<inbound_rx, outbound_tx, debugger, request, events>>

vars == <<clientVars, readerVars, writerVars, inbound, outbound, debuggerVars, sent>>

Response(n) == [kind |-> "response", to |-> n]

Event(name) == [kind |-> "event", name |-> name]

inbound_tx == reader # "ended"

outbound_rx == writer \in {"recv", "write"}

After_threads_first ==
  [send_terminated  |-> "send_exited",
   send_exited      |-> "join_reader",
   join_reader      |-> "join_writer",
   join_writer      |-> "drop_inbound_rx",
   drop_inbound_rx  |-> "drop_outbound_tx",
   drop_outbound_tx |-> "dropped"]

(* What follows what in the drop: the two events of CairoDebugger's drop,  *)
(* then the members of Connection in their order, the last of which joins  *)
(* the threads.                                                            *)
After ==
  [send_terminated  |-> "send_exited",
   send_exited      |-> "drop_inbound_rx",
   drop_inbound_rx  |-> "drop_outbound_tx",
   drop_outbound_tx |-> "join_reader",
   join_reader      |-> "join_writer",
   join_writer      |-> "dropped"]

Stages ==
  {"send_terminated", "send_exited", "drop_inbound_rx", "drop_outbound_tx",
   "join_reader", "join_writer", "dropped"}

Dropping == debugger \notin {"running", "handling"}

----------------------------------------------------------------------------
(* The client. *)

ClientWrites ==
  /\ client_open
  /\ Len(written) < MaxWrites
  /\ \E m \in {"request", "disconnect", "garbage"} : written' = Append(written, m)
  /\ UNCHANGED <<client_open, readerVars, writerVars, inbound, outbound, debuggerVars, sent>>

ClientCloses ==
  /\ client_open
  /\ client_open' = FALSE
  /\ UNCHANGED <<written, readerVars, writerVars, inbound, outbound, debuggerVars, sent>>

----------------------------------------------------------------------------
(* The reader thread. *)

PollRequest_skipping_garbage ==
  /\ reader = "poll_request"
  /\ read < Len(written)
  /\ read' = read + 1
  /\ reader' = IF written[read + 1] = "garbage" THEN "poll_request" ELSE "send"
  /\ UNCHANGED <<clientVars, writerVars, inbound, outbound, debuggerVars, sent>>

PollRequest ==
  /\ reader = "poll_request"
  /\ read < Len(written)
  /\ written[read + 1] # "garbage"
  /\ read' = read + 1
  /\ reader' = "send"
  /\ UNCHANGED <<clientVars, writerVars, inbound, outbound, debuggerVars, sent>>

(* poll_request fails on what it cannot parse, and once the client has     *)
(* closed the stream; what was not read by then may be lost.               *)
PollRequestFails ==
  /\ reader = "poll_request"
  /\ \/ read < Len(written) /\ written[read + 1] = "garbage"
     \/ ~ client_open
  /\ reader' = "ended"
  /\ UNCHANGED <<clientVars, read, writerVars, inbound, outbound, debuggerVars, sent>>

ReaderSends_ignoring_errors ==
  /\ reader = "send"
  /\ inbound' = Append(inbound, read)
  /\ reader' = "poll_request"
  /\ UNCHANGED <<clientVars, read, writerVars, outbound, debuggerVars, sent>>

ReaderSends ==
  /\ reader = "send"
  /\ IF inbound_rx
     THEN inbound' = Append(inbound, read) /\ reader' = "poll_request"
     ELSE reader' = "ended" /\ UNCHANGED inbound
  /\ UNCHANGED <<clientVars, read, writerVars, outbound, debuggerVars, sent>>

Reader == PollRequest \/ PollRequestFails \/ ReaderSends

----------------------------------------------------------------------------
(* The writer thread. *)

WriterReceives ==
  /\ writer = "recv"
  /\ outbound # << >>
  /\ writing' = Head(outbound)
  /\ outbound' = Tail(outbound)
  /\ writer' = "write"
  /\ UNCHANGED <<clientVars, readerVars, delivered, inbound, debuggerVars, sent>>

WriterEnds_without_draining ==
  /\ writer = "recv"
  /\ ~ outbound_tx
  /\ writer' = "ended"
  /\ UNCHANGED <<clientVars, readerVars, delivered, writing, inbound, outbound, debuggerVars, sent>>

(* recv fails once the channel is drained and its sender dropped.          *)
WriterEnds ==
  /\ writer = "recv"
  /\ outbound = << >> /\ ~ outbound_tx
  /\ writer' = "ended"
  /\ UNCHANGED <<clientVars, readerVars, delivered, writing, inbound, outbound, debuggerVars, sent>>

(* Once the client has closed the stream a write is lost or fails.         *)
WriterWrites ==
  /\ writer = "write"
  /\ IF client_open
     THEN delivered' = Append(delivered, writing) /\ writer' = "recv"
     ELSE writer' \in {"recv", "panicked"} /\ UNCHANGED delivered
  /\ UNCHANGED <<clientVars, readerVars, writing, inbound, outbound, debuggerVars, sent>>

Writer == WriterReceives \/ WriterEnds \/ WriterWrites

----------------------------------------------------------------------------
(* The debugger's thread. *)

(* A send reaches the channel, or fails since the receiver is gone.        *)
SendTo(message) ==
  IF outbound_rx
  THEN outbound' = Append(outbound, message) /\ sent' = Append(sent, message)
  ELSE UNCHANGED <<outbound, sent>>

(* next_request and try_next_request.                                      *)
NextRequest ==
  /\ debugger = "running"
  /\ inbound # << >>
  /\ request' = Head(inbound)
  /\ inbound' = Tail(inbound)
  /\ debugger' = "handling"
  /\ UNCHANGED <<clientVars, readerVars, writerVars, outbound, inbound_rx, outbound_tx,
                 events, sent>>

InboundClosed_taken_for_empty ==
  /\ debugger = "running"
  /\ inbound = << >> /\ ~ inbound_tx
  /\ UNCHANGED vars

InboundClosed ==
  /\ debugger = "running"
  /\ inbound = << >> /\ ~ inbound_tx
  /\ debugger' = "send_terminated"
  /\ UNCHANGED <<clientVars, readerVars, writerVars, inbound, outbound, inbound_rx,
                 outbound_tx, request, events, sent>>

SendResponse_after_disconnect ==
  /\ debugger = "handling"
  /\ SendTo(Response(request))
  /\ debugger' = IF outbound_rx THEN "running" ELSE "send_terminated"
  /\ UNCHANGED <<clientVars, readerVars, writerVars, inbound, inbound_rx, outbound_tx,
                 request, events>>

SendResponse ==
  /\ debugger = "handling"
  /\ SendTo(Response(request))
  /\ debugger' = IF outbound_rx /\ written[request] # "disconnect"
                 THEN "running" ELSE "send_terminated"
  /\ UNCHANGED <<clientVars, readerVars, writerVars, inbound, inbound_rx, outbound_tx,
                 request, events>>

(* A stop is told between two requests; the event of a Pause, like the     *)
(* first one of the session, while its request is handled.                 *)
SendEvent ==
  /\ ~ Dropping
  /\ events < MaxEvents
  /\ events' = events + 1
  /\ SendTo(Event("stopped"))
  /\ debugger' = IF outbound_rx THEN debugger ELSE "send_terminated"
  /\ UNCHANGED <<clientVars, readerVars, writerVars, inbound, inbound_rx, outbound_tx, request>>

(* A handler refuses the request or panics, or the VM stops.               *)
RunEnds ==
  /\ ~ Dropping
  /\ debugger' = "send_terminated"
  /\ UNCHANGED <<clientVars, readerVars, writerVars, inbound, outbound, inbound_rx,
                 outbound_tx, request, events, sent>>

(* The drop.  An event that cannot be sent is logged and forgotten.        *)
DropEvents ==
  /\ debugger \in {"send_terminated", "send_exited"}
  /\ SendTo(Event(IF debugger = "send_terminated" THEN "terminated" ELSE "exited"))
  /\ debugger' = After[debugger]
  /\ UNCHANGED <<clientVars, readerVars, writerVars, inbound, inbound_rx, outbound_tx,
                 request, events>>

DropInboundRx ==
  /\ debugger = "drop_inbound_rx"
  /\ inbound_rx' = FALSE
  /\ inbound' = << >>
  /\ debugger' = After[debugger]
  /\ UNCHANGED <<clientVars, readerVars, writerVars, outbound, outbound_tx, request, events, sent>>

DropOutboundTx ==
  /\ debugger = "drop_outbound_tx"
  /\ outbound_tx' = FALSE
  /\ debugger' = After[debugger]
  /\ UNCHANGED <<clientVars, readerVars, writerVars, inbound, outbound, inbound_rx, request,
                 events, sent>>

JoinThreads_without_writer ==
  /\ \/ debugger = "join_reader" /\ reader = "ended"
     \/ debugger = "join_writer"
  /\ debugger' = After[debugger]
  /\ UNCHANGED <<clientVars, readerVars, writerVars, inbound, outbound, inbound_rx,
                 outbound_tx, request, events, sent>>

JoinThreads ==
  /\ \/ debugger = "join_reader" /\ reader = "ended"
     \/ debugger = "join_writer" /\ writer \in {"ended", "panicked"}
  /\ debugger' = After[debugger]
  /\ UNCHANGED <<clientVars, readerVars, writerVars, inbound, outbound, inbound_rx,
                 outbound_tx, request, events, sent>>

Drop == DropEvents \/ DropInboundRx \/ DropOutboundTx \/ JoinThreads

Debugger == NextRequest \/ InboundClosed \/ SendResponse \/ SendEvent \/ RunEnds \/ Drop

----------------------------------------------------------------------------
Init ==
  /\ client_open = TRUE /\ written = << >>
  /\ read = 0 /\ reader = "poll_request"
  /\ delivered = << >> /\ writer = "recv" /\ writing = Event("none")
  /\ inbound = << >> /\ inbound_rx = TRUE
  /\ outbound = << >> /\ outbound_tx = TRUE
  /\ debugger = "running" /\ request = 0 /\ events = 0
  /\ sent = << >>

Next ==
  \/ ClientWrites
  \/ ClientCloses
  \/ Reader
  \/ Writer
  \/ Debugger

Spec == Init /\ [][Next]_vars

(***************************************************************************)
(* Fairness: the threads are scheduled.  The debugger asks for requests    *)
(* again and again while it runs (RequestsAreServed of Session) and its    *)
(* drop goes on.  A client that has been told that the debuggee has exited *)
(* closes the stream in the end; before, it may do as it likes.            *)
(***************************************************************************)
Fairness ==
  /\ WF_vars(Reader)
  /\ WF_vars(Writer)
  /\ WF_vars(NextRequest \/ InboundClosed \/ SendResponse)
  /\ WF_vars(Drop)
  /\ WF_vars(ClientCloses /\ Contains(delivered, Event("exited")))

FairSpec == Spec /\ Fairness

----------------------------------------------------------------------------
Messages ==
  {Response(n) : n \in 1..MaxWrites}
    \union {Event(name) : name \in {"none", "stopped", "terminated", "exited"}}

ConnectionTypeOK ==
  /\ client_open \in BOOLEAN
  /\ written \in Seq({"request", "disconnect", "garbage"})
  /\ Len(written) <= MaxWrites
  /\ read \in 0..Len(written)
  /\ delivered \in Seq(Messages)
  /\ reader \in {"poll_request", "send", "ended"}
  /\ reader = "send" => read > 0
  /\ writer \in {"recv", "write", "ended", "panicked"}
  /\ writing \in Messages
  /\ inbound \in Seq(1..read)
  /\ inbound_rx \in BOOLEAN
  /\ inbound # << >> => inbound_rx
  /\ outbound \in Seq(Messages)
  /\ outbound_tx \in BOOLEAN
  /\ debugger \in {"running", "handling"} \union Stages
  /\ request \in 0..read
  /\ debugger = "handling" => request > 0
  /\ events \in 0..MaxEvents
  /\ sent \in Seq(Messages)

(* Whatever the debugger has sent, the answer to a Disconnect and the      *)
(* events of its drop included, has been written when it is gone (the      *)
(* process may exit then), unless the client closed the stream before it   *)
(* was told of the end.                                                    *)
EverythingIsDelivered ==
  debugger = "dropped" =>
    \/ delivered = sent /\ Last(delivered) = Event("exited")
    \/ ~ client_open /\ ~ Contains(delivered, Event("exited"))

(***************************************************************************)
(* Why it holds: as long as the client has not closed the stream early,    *)
(* what was sent is what was delivered, what is being written and what is  *)
(* in the channel, in this order; the debugger is gone only after the      *)
(* writer, and the writer only when the channel is empty for good.         *)
(***************************************************************************)
Exited == Event("exited")

ClosedEarly == ~ client_open /\ ~ Contains(delivered, Exited)

InFlight == IF writer = "write" THEN 1 ELSE 0

Pipe ==
  ~ ClosedEarly =>
    /\ writer # "panicked"
    /\ Len(sent) = Len(delivered) + InFlight + Len(outbound)
    /\ \A i \in DOMAIN delivered : delivered[i] = sent[i]
    /\ writer = "write" => writing = sent[Len(delivered) + 1]
    /\ \A i \in DOMAIN outbound : outbound[i] = sent[Len(delivered) + InFlight + i]

ExitedIsLast ==
  /\ \A i \in DOMAIN sent : sent[i] = Exited =>
       i = Len(sent) /\ debugger \notin {"running", "handling", "send_terminated", "send_exited"}
  /\ Dropping /\ debugger \notin {"send_terminated", "send_exited"} /\ ~ ClosedEarly =>
       sent # << >> /\ sent[Len(sent)] = Exited

WriterOutlivesSender ==
  /\ outbound_tx <=> debugger \notin {"join_reader", "join_writer", "dropped"}
  /\ writer = "ended" => outbound = << >> /\ ~ outbound_tx
  /\ debugger = "dropped" => writer \in {"ended", "panicked"}

ConnectionInv == ConnectionTypeOK /\ Pipe /\ ExitedIsLast /\ WriterOutlivesSender

(* The responses among these messages answer the requests one for one in   *)
(* their order, none of them twice or in place of a message that is not a  *)
(* request, and nothing after a Disconnect.                                *)
InOrder(messages) ==
  \A i \in DOMAIN messages : messages[i].kind = "response" =>
    /\ written[messages[i].to] # "garbage"
    /\ messages[i].to > 1 => \E j \in 1..(i - 1) : messages[j] = Response(messages[i].to - 1)
    /\ \A j \in 1..(i - 1) : messages[j].kind = "response" =>
         messages[j].to < messages[i].to /\ written[messages[j].to] # "disconnect"

(* The client gets its answers one for one in the order of its requests: a *)
(* request is never passed over, nor a message that is not one.            *)
AnswersInOrder == InOrder(delivered)

(***************************************************************************)
(* Why it holds: the reader passes on everything up to what it could not   *)
(* parse, the channel holds the requests that follow the one being         *)
(* handled, and while the debugger runs it has answered every request      *)
(* before that one, none of them a Disconnect; what the client gets is a   *)
(* part of what was sent, from its start.                                  *)
(***************************************************************************)
RequestsFollow ==
  /\ \A k \in 1..read : written[k] # "garbage"
  /\ \A i \in DOMAIN inbound : inbound[i] = request + i
  /\ inbound_rx => request + Len(inbound) = IF reader = "send" THEN read - 1 ELSE read

AnsweredSoFar == IF debugger = "handling" THEN request - 1 ELSE request

AnswersFollow ==
  /\ \A i \in DOMAIN sent : sent[i].kind = "response" => sent[i].to \in 1..AnsweredSoFar
  /\ ~ Dropping =>
       /\ \A n \in 1..AnsweredSoFar : \E i \in DOMAIN sent : sent[i] = Response(n)
       /\ \A i \in DOMAIN sent : sent[i].kind = "response" => written[sent[i].to] # "disconnect"

DeliveredIsPrefix ==
  /\ Len(delivered) <= Len(sent)
  /\ \A i \in DOMAIN delivered : delivered[i] = sent[i]

AnswersInv == RequestsFollow /\ AnswersFollow /\ DeliveredIsPrefix /\ InOrder(sent)

(* Once the debugger is being dropped it is gone in the end: the threads   *)
(* it joins do not wait for it ("The order of members matters here",       *)
(* connection.rs:20).                                                      *)
DropEnds == Dropping ~> debugger = "dropped"

(* A client that goes away ends the session, whatever the debugger and the *)
(* threads are doing.                                                      *)
ClosedClientEndsSession == ~ client_open ~> debugger = "dropped"
=============================================================================
