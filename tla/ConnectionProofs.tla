-------------------------- MODULE ConnectionProofs --------------------------
(***************************************************************************)
(* Proofs about Connection, for any number of messages written and events  *)
(* sent.                                                                   *)
(***************************************************************************)
EXTENDS Connection, TLAPS

(* A channel after a send, and after a receive.                            *)
LEMMA AppendFacts ==
  ASSUME NEW S, NEW q \in Seq(S), NEW e \in S
  PROVE  /\ Append(q, e) \in Seq(S)
         /\ Len(Append(q, e)) = Len(q) + 1
         /\ \A i \in 1..Len(q) : Append(q, e)[i] = q[i]
         /\ Append(q, e)[Len(q) + 1] = e
  OBVIOUS

LEMMA TailFacts ==
  ASSUME NEW S, NEW q \in Seq(S), q # << >>
  PROVE  /\ Len(q) >= 1
         /\ Head(q) = q[1] /\ Head(q) \in S
         /\ Tail(q) \in Seq(S)
         /\ Len(Tail(q)) = Len(q) - 1
         /\ \A i \in 1..Len(Tail(q)) : Tail(q)[i] = q[i + 1]
  OBVIOUS

LEMMA WiderType ==
  ASSUME NEW S, NEW T, S \subseteq T, NEW q \in Seq(S)
  PROVE  q \in Seq(T)
  OBVIOUS

(* The messages the debugger sends have their type.                        *)
LEMMA MessageTypes ==
  /\ \A n \in 1..MaxWrites : Response(n) \in Messages
  /\ \A name \in {"none", "stopped", "terminated", "exited"} : Event(name) \in Messages
BY DEF Messages

(* A send appends a message to both the channel and what was sent.         *)
LEMMA SendTypes ==
  ASSUME NEW message \in Messages, ConnectionTypeOK, SendTo(message)
  PROVE  outbound' \in Seq(Messages) /\ sent' \in Seq(Messages)
<1>1. outbound \in Seq(Messages) /\ sent \in Seq(Messages)
  BY DEF ConnectionTypeOK
<1>2. Append(outbound, message) \in Seq(Messages) /\ Append(sent, message) \in Seq(Messages)
  BY <1>1, AppendFacts
<1> QED
  BY <1>1, <1>2 DEF SendTo

(* Every action keeps the types.                                           *)
LEMMA TypesInductive ==
  ASSUME ConnectionTypeOK, [Next]_vars
  PROVE  ConnectionTypeOK'
<1> USE ConnectionAssumption
<1>1. CASE ClientWrites
  BY <1>1 DEF ConnectionTypeOK, ClientWrites, readerVars, writerVars, debuggerVars
<1>2. CASE ClientCloses
  BY <1>2 DEF ConnectionTypeOK, ClientCloses, readerVars, writerVars, debuggerVars
<1>3. CASE PollRequest
  <2>1. 1..read \subseteq 1..read' /\ inbound \in Seq(1..read)
    BY <1>3 DEF ConnectionTypeOK, PollRequest
  <2>2. inbound \in Seq(1..read')
    BY <2>1, WiderType
  <2> QED
    BY <1>3, <2>2 DEF ConnectionTypeOK, PollRequest, clientVars, writerVars, debuggerVars
<1>4. CASE PollRequestFails
  BY <1>4 DEF ConnectionTypeOK, PollRequestFails, clientVars, writerVars, debuggerVars
<1>5. CASE ReaderSends
  <2>1. read \in 1..read /\ inbound \in Seq(1..read)
    BY <1>5 DEF ConnectionTypeOK, ReaderSends
  <2>2. Append(inbound, read) \in Seq(1..read)
    BY <2>1, AppendFacts
  <2> QED
    BY <1>5, <2>1, <2>2
    DEF ConnectionTypeOK, ReaderSends, clientVars, writerVars, debuggerVars
<1>6. CASE WriterReceives
  BY <1>6 DEF ConnectionTypeOK, WriterReceives, clientVars, readerVars, debuggerVars
<1>7. CASE WriterEnds
  BY <1>7 DEF ConnectionTypeOK, WriterEnds, clientVars, readerVars, debuggerVars
<1>8. CASE WriterWrites
  <2>1. delivered \in Seq(Messages) /\ writing \in Messages
    BY DEF ConnectionTypeOK
  <2>2. Append(delivered, writing) \in Seq(Messages)
    BY <2>1, AppendFacts
  <2>3. delivered' \in Seq(Messages) /\ writer' \in {"recv", "panicked"}
    BY <1>8, <2>1, <2>2 DEF WriterWrites
  <2> QED
    BY <1>8, <2>3 DEF ConnectionTypeOK, WriterWrites, clientVars, readerVars, debuggerVars
<1>9. CASE NextRequest
  <2>1. inbound \in Seq(1..read) /\ inbound # << >>
    BY <1>9 DEF ConnectionTypeOK, NextRequest
  <2>2. Head(inbound) \in 1..read /\ Tail(inbound) \in Seq(1..read)
    BY <2>1, TailFacts
  <2> QED
    BY <1>9, <2>1, <2>2 DEF ConnectionTypeOK, NextRequest, clientVars, readerVars, writerVars
<1>10. CASE InboundClosed
  BY <1>10 DEF ConnectionTypeOK, InboundClosed, clientVars, readerVars, writerVars, Stages
<1>11. CASE SendResponse
  <2>1. Response(request) \in Messages
    BY <1>11, MessageTypes DEF ConnectionTypeOK, SendResponse
  <2>2. outbound' \in Seq(Messages) /\ sent' \in Seq(Messages)
    BY <1>11, <2>1, SendTypes DEF SendResponse
  <2> QED
    BY <1>11, <2>2 DEF ConnectionTypeOK, SendResponse, clientVars, readerVars, writerVars, Stages
<1>12. CASE SendEvent
  <2>1. outbound' \in Seq(Messages) /\ sent' \in Seq(Messages)
    BY <1>12, SendTypes, MessageTypes DEF SendEvent
  <2> QED
    BY <1>12, <2>1 DEF ConnectionTypeOK, SendEvent, clientVars, readerVars, writerVars, Stages
<1>13. CASE RunEnds
  BY <1>13 DEF ConnectionTypeOK, RunEnds, clientVars, readerVars, writerVars, Stages
<1>14. CASE DropEvents
  <2>1. outbound' \in Seq(Messages) /\ sent' \in Seq(Messages)
    BY <1>14, SendTypes, MessageTypes DEF DropEvents
  <2> QED
    BY <1>14, <2>1 DEF ConnectionTypeOK, DropEvents, clientVars, readerVars, writerVars, Stages, After
<1>15. CASE DropInboundRx
  <2>1. << >> \in Seq(1..read)
    OBVIOUS
  <2> QED
    BY <1>15, <2>1 DEF ConnectionTypeOK, DropInboundRx, clientVars, readerVars, writerVars, Stages, After
<1>16. CASE DropOutboundTx
  BY <1>16 DEF ConnectionTypeOK, DropOutboundTx, clientVars, readerVars, writerVars, Stages, After
<1>17. CASE JoinThreads
  BY <1>17 DEF ConnectionTypeOK, JoinThreads, clientVars, readerVars, writerVars, Stages, After
<1>18. CASE UNCHANGED vars
  BY <1>18 DEF ConnectionTypeOK, vars, clientVars, readerVars, writerVars, debuggerVars
<1> QED
  BY <1>1, <1>2, <1>3, <1>4, <1>5, <1>6, <1>7, <1>8, <1>9, <1>10, <1>11, <1>12, <1>13,
     <1>14, <1>15, <1>16, <1>17, <1>18
  DEF Next, Reader, Writer, Debugger, Drop

(* The variables of the connection keep their types.                       *)
THEOREM ConnectionTypes == Spec => []ConnectionTypeOK
<1>1. Init => ConnectionTypeOK
  BY ConnectionAssumption, MessageTypes DEF Init, ConnectionTypeOK
<1> QED
  BY <1>1, TypesInductive, PTL DEF Spec
----------------------------------------------------------------------------
(* Delivery. *)

LEMMA EventsDiffer ==
  /\ \A n : Response(n) # Exited
  /\ Event("stopped") # Exited
  /\ Event("terminated") # Exited
BY DEF Response, Event, Exited

(* Steps that touch neither the messages nor the writer, nor bring the     *)
(* drop beyond its events.                                                 *)
LEMMA QuietStep ==
  ASSUME ConnectionInv,
         UNCHANGED <<delivered, writer, writing, outbound, sent, outbound_tx>>,
         client_open' => client_open,
         \/ debugger' = debugger
         \/ ~ Dropping /\ debugger' \in {"running", "handling", "send_terminated"}
         \/ debugger = "drop_inbound_rx" /\ debugger' = "drop_outbound_tx"
         \/ debugger = "join_reader" /\ debugger' = "join_writer"
         \/ debugger = "join_writer" /\ debugger' = "dropped" /\ writer \in {"ended", "panicked"}
  PROVE  Pipe' /\ ExitedIsLast' /\ WriterOutlivesSender'
<1>1. ClosedEarly => ClosedEarly'
  BY DEF ClosedEarly, Contains
<1>2. Pipe'
  BY <1>1 DEF ConnectionInv, Pipe, InFlight
<1>3. ExitedIsLast'
  BY <1>1 DEF ConnectionInv, ExitedIsLast, Dropping
<1>4. WriterOutlivesSender'
  BY DEF ConnectionInv, WriterOutlivesSender, Dropping
<1> QED
  BY <1>2, <1>3, <1>4

(* A send that is not the one of "exited", and the one that is.            *)
LEMMA SendStep ==
  ASSUME ConnectionInv, NEW message \in Messages, SendTo(message),
         UNCHANGED <<client_open, delivered, writer, writing, outbound_tx>>,
         \/ /\ message # Exited
            /\ debugger \in {"running", "handling", "send_terminated"}
            /\ debugger' \in {"running", "handling", "send_terminated", "send_exited"}
            /\ debugger' = "send_exited" => debugger = "send_terminated"
         \/ /\ message = Exited
            /\ debugger = "send_exited"
            /\ debugger' = "drop_inbound_rx"
  PROVE  Pipe' /\ ExitedIsLast' /\ WriterOutlivesSender'
<1>1. /\ delivered \in Seq(Messages) /\ outbound \in Seq(Messages) /\ sent \in Seq(Messages)
      /\ writer \in {"recv", "write", "ended", "panicked"}
  BY DEF ConnectionInv, ConnectionTypeOK
<1>2. ClosedEarly' <=> ClosedEarly
  BY DEF ClosedEarly
<1>3. writer # "ended"
  BY DEF ConnectionInv, WriterOutlivesSender
<1>4. ~ ClosedEarly => outbound_rx
  BY <1>1, <1>3 DEF ConnectionInv, Pipe, outbound_rx
<1>5. /\ Len(Append(outbound, message)) = Len(outbound) + 1
      /\ \A i \in 1..Len(outbound) : Append(outbound, message)[i] = outbound[i]
      /\ Append(outbound, message)[Len(outbound) + 1] = message
      /\ DOMAIN Append(outbound, message) = 1..(Len(outbound) + 1)
  BY <1>1, AppendFacts
<1>6. /\ Len(Append(sent, message)) = Len(sent) + 1
      /\ \A i \in 1..Len(sent) : Append(sent, message)[i] = sent[i]
      /\ Append(sent, message)[Len(sent) + 1] = message
      /\ DOMAIN Append(sent, message) = 1..(Len(sent) + 1)
      /\ Append(sent, message) # << >>
  BY <1>1, AppendFacts
<1>7. /\ DOMAIN outbound = 1..Len(outbound) /\ DOMAIN sent = 1..Len(sent)
      /\ DOMAIN delivered = 1..Len(delivered)
      /\ Len(outbound) \in Nat /\ Len(sent) \in Nat /\ Len(delivered) \in Nat
  BY <1>1
<1>8. Pipe'
  <2> SUFFICES ASSUME ~ ClosedEarly'
               PROVE  /\ writer' # "panicked"
                      /\ Len(sent') = Len(delivered') + InFlight' + Len(outbound')
                      /\ \A i \in DOMAIN delivered' : delivered'[i] = sent'[i]
                      /\ writer' = "write" => writing' = sent'[Len(delivered') + 1]
                      /\ \A i \in DOMAIN outbound' :
                           outbound'[i] = sent'[Len(delivered') + InFlight' + i]
    BY DEF Pipe
  <2>1. /\ writer # "panicked"
        /\ Len(sent) = Len(delivered) + InFlight + Len(outbound)
        /\ \A i \in DOMAIN delivered : delivered[i] = sent[i]
        /\ writer = "write" => writing = sent[Len(delivered) + 1]
        /\ \A i \in DOMAIN outbound : outbound[i] = sent[Len(delivered) + InFlight + i]
    BY <1>2 DEF ConnectionInv, Pipe
  <2>2. outbound' = Append(outbound, message) /\ sent' = Append(sent, message)
    BY <1>2, <1>4 DEF SendTo
  <2>3. InFlight' = InFlight /\ InFlight \in {0, 1} /\ (writer = "write" => InFlight = 1)
    BY DEF InFlight
  <2>4. Len(sent') = Len(delivered') + InFlight' + Len(outbound')
    BY <1>5, <1>6, <1>7, <2>1, <2>2, <2>3
  <2>5. \A i \in DOMAIN delivered' : delivered'[i] = sent'[i]
    BY <1>6, <1>7, <2>1, <2>2, <2>3
  <2>6. writer' = "write" => writing' = sent'[Len(delivered') + 1]
    BY <1>6, <1>7, <2>1, <2>2, <2>3
  <2>7. \A i \in DOMAIN outbound' : outbound'[i] = sent'[Len(delivered') + InFlight' + i]
    BY <1>5, <1>6, <1>7, <2>1, <2>2, <2>3
  <2> QED
    BY <2>1, <2>4, <2>5, <2>6, <2>7
<1>9. ExitedIsLast'
  <2>1. \A i \in DOMAIN sent : sent[i] # Exited
    BY DEF ConnectionInv, ExitedIsLast
  <2>2. CASE ~ outbound_rx
    BY <1>2, <1>4, <2>1, <2>2 DEF SendTo, ExitedIsLast, Dropping
  <2>3. CASE outbound_rx
    <3>1. sent' = Append(sent, message)
      BY <2>3 DEF SendTo
    <3>2. \A i \in DOMAIN sent' : sent'[i] = Exited => i = Len(sent') /\ message = Exited
      BY <1>6, <1>7, <2>1, <3>1
    <3>3. CASE message = Exited
      BY <1>6, <1>7, <3>1, <3>2, <3>3 DEF ExitedIsLast, Dropping
    <3>4. CASE message # Exited
      BY <3>2, <3>4 DEF ExitedIsLast, Dropping
    <3> QED
      BY <3>3, <3>4
  <2> QED
    BY <2>2, <2>3
<1>10. WriterOutlivesSender'
  BY <1>3 DEF ConnectionInv, WriterOutlivesSender
<1> QED
  BY <1>8, <1>9, <1>10

(* What was sent is what was delivered, is being written and is in the     *)
(* channel, in this order, and the writer outlives the sender: the order   *)
(* in which the drop ends the events, the channels and the threads loses   *)
(* nothing.  Init and every action of Next.                                *)
THEOREM ConnectionInvariant == Spec => []ConnectionInv
<1>1. Init => ConnectionInv
  <2> SUFFICES ASSUME Init PROVE ConnectionInv
    OBVIOUS
  <2>1. ConnectionTypeOK
    BY ConnectionAssumption, MessageTypes DEF Init, ConnectionTypeOK
  <2>2. Pipe
    BY DEF Init, Pipe, InFlight
  <2>3. ExitedIsLast /\ WriterOutlivesSender
    BY DEF Init, ExitedIsLast, WriterOutlivesSender, Dropping
  <2> QED
    BY <2>1, <2>2, <2>3 DEF ConnectionInv
<1>2. ConnectionInv /\ [Next]_vars => ConnectionInv'
  <2> SUFFICES ASSUME ConnectionInv, [Next]_vars
               PROVE  Pipe' /\ ExitedIsLast' /\ WriterOutlivesSender'
    BY TypesInductive DEF ConnectionInv
  <2>0. /\ delivered \in Seq(Messages) /\ outbound \in Seq(Messages) /\ sent \in Seq(Messages)
        /\ writing \in Messages /\ client_open \in BOOLEAN
        /\ writer \in {"recv", "write", "ended", "panicked"}
        /\ debugger \in {"running", "handling"} \union Stages
    BY DEF ConnectionInv, ConnectionTypeOK
  <2>1. CASE ClientWrites \/ ClientCloses
    BY <2>1, QuietStep DEF ClientWrites, ClientCloses, writerVars, debuggerVars
  <2>2. CASE Reader
    BY <2>2, QuietStep
    DEF Reader, PollRequest, PollRequestFails, ReaderSends, clientVars, writerVars, debuggerVars
  <2>3. CASE NextRequest \/ InboundClosed \/ RunEnds
    BY <2>3, QuietStep DEF NextRequest, InboundClosed, RunEnds, clientVars, writerVars, Dropping
  <2>4. CASE DropInboundRx \/ JoinThreads
    BY <2>4, QuietStep DEF DropInboundRx, JoinThreads, clientVars, writerVars, After
  <2>5. CASE SendResponse
    <3>1. Response(request) \in Messages
      BY <2>5, MessageTypes, ConnectionAssumption DEF SendResponse, ConnectionInv, ConnectionTypeOK
    <3> QED
      BY <2>5, <3>1, SendStep, EventsDiffer DEF SendResponse, clientVars, writerVars
  <2>6. CASE SendEvent
    <3>1. /\ SendTo(Event("stopped"))
          /\ UNCHANGED <<client_open, delivered, writer, writing, outbound_tx>>
          /\ debugger \in {"running", "handling"}
          /\ debugger' \in {"running", "handling", "send_terminated"}
      BY <2>6 DEF SendEvent, Dropping, clientVars, writerVars
    <3> QED
      BY <3>1, SendStep, MessageTypes, EventsDiffer
  <2>7. CASE DropEvents
    <3>1. CASE debugger = "send_terminated"
      BY <2>7, <3>1, SendStep, MessageTypes, EventsDiffer
      DEF DropEvents, clientVars, writerVars, After
    <3>2. CASE debugger = "send_exited"
      BY <2>7, <3>2, SendStep, MessageTypes DEF DropEvents, clientVars, writerVars, After, Exited
    <3> QED
      BY <2>7, <3>1, <3>2 DEF DropEvents
  <2>8. CASE DropOutboundTx
    <3>1. ClosedEarly' <=> ClosedEarly
      BY <2>8 DEF DropOutboundTx, clientVars, writerVars, ClosedEarly
    <3>2. Pipe'
      BY <2>8, <3>1 DEF DropOutboundTx, ConnectionInv, Pipe, InFlight, writerVars
    <3>3. ExitedIsLast'
      BY <2>8, <3>1 DEF DropOutboundTx, ConnectionInv, ExitedIsLast, Dropping, After
    <3>4. WriterOutlivesSender'
      BY <2>8 DEF DropOutboundTx, ConnectionInv, WriterOutlivesSender, writerVars, After
    <3> QED
      BY <3>2, <3>3, <3>4
  <2>9. CASE WriterReceives
    <3>1. /\ Len(outbound) >= 1 /\ Len(outbound) \in Nat /\ Len(delivered) \in Nat
          /\ Head(outbound) = outbound[1]
          /\ Len(Tail(outbound)) = Len(outbound) - 1
          /\ Tail(outbound) \in Seq(Messages)
          /\ \A i \in 1..Len(Tail(outbound)) : Tail(outbound)[i] = outbound[i + 1]
          /\ DOMAIN outbound = 1..Len(outbound)
          /\ DOMAIN Tail(outbound) = 1..Len(Tail(outbound))
      BY <2>0, <2>9, TailFacts DEF WriterReceives
    <3>2. /\ writer = "recv" /\ writer' = "write"
          /\ writing' = Head(outbound) /\ outbound' = Tail(outbound)
          /\ UNCHANGED <<client_open, delivered, sent, debugger, outbound_tx>>
      BY <2>9 DEF WriterReceives, clientVars, debuggerVars
    <3>3. InFlight = 0 /\ InFlight' = 1
      BY <3>2 DEF InFlight
    <3>4. ClosedEarly' <=> ClosedEarly
      BY <3>2 DEF ClosedEarly
    <3>5. Pipe'
      <4> SUFFICES ASSUME ~ ClosedEarly
                   PROVE  /\ Len(sent) = Len(delivered) + 1 + Len(outbound')
                          /\ \A i \in DOMAIN delivered : delivered[i] = sent[i]
                          /\ writing' = sent[Len(delivered) + 1]
                          /\ \A i \in DOMAIN outbound' :
                               outbound'[i] = sent[Len(delivered) + 1 + i]
        BY <3>2, <3>3, <3>4 DEF Pipe
      <4>1. /\ Len(sent) = Len(delivered) + Len(outbound)
            /\ \A i \in DOMAIN delivered : delivered[i] = sent[i]
            /\ \A i \in DOMAIN outbound : outbound[i] = sent[Len(delivered) + i]
        BY <3>1, <3>3 DEF ConnectionInv, Pipe
      <4>2. writing' = sent[Len(delivered) + 1]
        BY <3>1, <3>2, <4>1
      <4>3. ASSUME NEW i \in DOMAIN outbound'
            PROVE  outbound'[i] = sent[Len(delivered) + 1 + i]
        <5>1. i + 1 \in 1..Len(outbound) /\ outbound'[i] = outbound[i + 1] /\ i \in Nat
          BY <3>1, <3>2
        <5>2. outbound[i + 1] = sent[Len(delivered) + (i + 1)]
          BY <3>1, <4>1, <5>1
        <5>3. Len(delivered) + (i + 1) = Len(delivered) + 1 + i
          BY <3>1, <5>1
        <5> QED
          BY <5>1, <5>2, <5>3
      <4> QED
        BY <3>1, <3>2, <4>1, <4>2, <4>3
    <3>6. ExitedIsLast'
      BY <3>2, <3>4 DEF ConnectionInv, ExitedIsLast, Dropping
    <3>7. WriterOutlivesSender'
      BY <3>2 DEF ConnectionInv, WriterOutlivesSender
    <3> QED
      BY <3>5, <3>6, <3>7
  <2>10. CASE WriterEnds
    <3>1. /\ writer = "recv" /\ writer' = "ended" /\ outbound = << >> /\ ~ outbound_tx
          /\ UNCHANGED <<client_open, delivered, writing, outbound, sent, debugger, outbound_tx>>
      BY <2>10 DEF WriterEnds, clientVars, debuggerVars
    <3>2. (ClosedEarly' <=> ClosedEarly) /\ InFlight' = InFlight
      BY <3>1 DEF ClosedEarly, InFlight
    <3>3. Pipe'
      BY <3>1, <3>2 DEF ConnectionInv, Pipe
    <3>4. ExitedIsLast' /\ WriterOutlivesSender'
      BY <3>1, <3>2 DEF ConnectionInv, ExitedIsLast, WriterOutlivesSender, Dropping
    <3> QED
      BY <3>3, <3>4
  <2>11. CASE WriterWrites /\ client_open
    <3>1. /\ writer = "write" /\ writer' = "recv" /\ delivered' = Append(delivered, writing)
          /\ UNCHANGED <<client_open, writing, outbound, sent, debugger, outbound_tx>>
      BY <2>11 DEF WriterWrites, clientVars, debuggerVars
    <3>2. ~ ClosedEarly /\ ~ ClosedEarly'
      BY <2>11, <3>1 DEF ClosedEarly
    <3>3. InFlight = 1 /\ InFlight' = 0
      BY <3>1 DEF InFlight
    <3>4. /\ Len(Append(delivered, writing)) = Len(delivered) + 1
          /\ \A i \in 1..Len(delivered) : Append(delivered, writing)[i] = delivered[i]
          /\ Append(delivered, writing)[Len(delivered) + 1] = writing
          /\ DOMAIN Append(delivered, writing) = 1..(Len(delivered) + 1)
          /\ DOMAIN delivered = 1..Len(delivered) /\ Len(delivered) \in Nat
          /\ DOMAIN outbound = 1..Len(outbound) /\ Len(outbound) \in Nat
      BY <2>0, AppendFacts
    <3>5. /\ Len(sent) = Len(delivered) + 1 + Len(outbound)
          /\ \A i \in DOMAIN delivered : delivered[i] = sent[i]
          /\ writing = sent[Len(delivered) + 1]
          /\ \A i \in DOMAIN outbound : outbound[i] = sent[Len(delivered) + 1 + i]
      BY <3>1, <3>2, <3>3 DEF ConnectionInv, Pipe
    <3>6. Len(sent') = Len(delivered') + InFlight' + Len(outbound')
      BY <3>1, <3>3, <3>4, <3>5
    <3>7. \A i \in DOMAIN delivered' : delivered'[i] = sent'[i]
      BY <3>1, <3>4, <3>5
    <3>8. \A i \in DOMAIN outbound' : outbound'[i] = sent'[Len(delivered') + InFlight' + i]
      BY <3>1, <3>3, <3>4, <3>5
    <3>9. Pipe'
      BY <3>1, <3>6, <3>7, <3>8 DEF Pipe
    <3>10. ExitedIsLast' /\ WriterOutlivesSender'
      BY <3>1, <3>2 DEF ConnectionInv, ExitedIsLast, WriterOutlivesSender, Dropping
    <3> QED
      BY <3>9, <3>10
  <2>12. CASE WriterWrites /\ ~ client_open
    <3>1. /\ writer = "write" /\ writer' \in {"recv", "panicked"}
          /\ UNCHANGED <<client_open, delivered, writing, outbound, sent, debugger, outbound_tx>>
      BY <2>12 DEF WriterWrites, clientVars, debuggerVars
    <3>2. ClosedEarly
      <4> SUFFICES ASSUME ~ ClosedEarly PROVE FALSE
        OBVIOUS
      <4>1. PICK i \in 1..Len(delivered) : delivered[i] = Exited
        BY <2>0, <2>12 DEF ClosedEarly, Contains
      <4>2. /\ Len(sent) = Len(delivered) + 1 + Len(outbound)
            /\ delivered[i] = sent[i]
        BY <2>0, <3>1, <4>1 DEF ConnectionInv, Pipe, InFlight
      <4>3. i \in DOMAIN sent /\ i < Len(sent)
        BY <2>0, <4>1, <4>2
      <4> QED
        BY <4>1, <4>2, <4>3 DEF ConnectionInv, ExitedIsLast
    <3>3. ClosedEarly'
      BY <3>1, <3>2 DEF ClosedEarly
    <3>4. Pipe'
      BY <3>3 DEF Pipe
    <3>5. ExitedIsLast' /\ WriterOutlivesSender'
      BY <3>1, <3>3 DEF ConnectionInv, ExitedIsLast, WriterOutlivesSender
    <3> QED
      BY <3>4, <3>5
  <2>13. CASE UNCHANGED vars
    BY <2>13, QuietStep DEF vars, clientVars, writerVars, debuggerVars
  <2> QED
    BY <2>1, <2>2, <2>3, <2>4, <2>5, <2>6, <2>7, <2>8, <2>9, <2>10, <2>11, <2>12, <2>13
    DEF Next, Writer, Debugger, Drop
<1> QED
  BY <1>1, <1>2, PTL DEF Spec

(* Nothing the debugger has sent is lost by the order in which it, its     *)
(* connection and its threads are dropped, unless the client closed the    *)
(* stream before it was told of the end.                                   *)
THEOREM Delivered == Spec => []EverythingIsDelivered
<1>1. ConnectionInv => EverythingIsDelivered
  <2> SUFFICES ASSUME ConnectionInv, debugger = "dropped", ~ ClosedEarly
               PROVE  delivered = sent /\ Last(delivered) = Exited
    BY DEF EverythingIsDelivered, ClosedEarly, Exited
  <2>1. delivered \in Seq(Messages) /\ sent \in Seq(Messages)
    BY DEF ConnectionInv, ConnectionTypeOK
  <2>2. writer = "ended" /\ outbound = << >>
    BY DEF ConnectionInv, WriterOutlivesSender, Pipe
  <2>3. Len(sent) = Len(delivered) /\ \A i \in 1..Len(delivered) : delivered[i] = sent[i]
    BY <2>1, <2>2 DEF ConnectionInv, Pipe, InFlight
  <2>4. delivered = sent
    BY <2>1, <2>3
  <2>5. sent[Len(sent)] = Exited
    BY DEF ConnectionInv, ExitedIsLast, Dropping
  <2> QED
    BY <2>4, <2>5 DEF Last
<1> QED
  BY <1>1, ConnectionInvariant, PTL

(***************************************************************************)
(* The order of the answers.  The steps that leave all that AnswersInv     *)
(* says alone, a receive and a send among them, and then the steps that    *)
(* touch one part of it.                                                   *)
(***************************************************************************)

(* What is written is only added to.                                       *)
LEMMA WrittenStays ==
  ASSUME ConnectionTypeOK, [Next]_vars
  PROVE  \A k \in 1..Len(written) : written'[k] = written[k]
<1>1. CASE ClientWrites
  <2>1. PICK m \in {"request", "disconnect", "garbage"} : written' = Append(written, m)
    BY <1>1 DEF ClientWrites
  <2> QED
    BY <2>1 DEF ConnectionTypeOK
<1>2. CASE ~ ClientWrites
  <2>1. written' = written
    BY <1>2 DEF Next, vars, clientVars, ClientCloses, Reader, Writer, Debugger, Drop,
       PollRequest, PollRequestFails, ReaderSends, WriterReceives, WriterEnds, WriterWrites,
       NextRequest, InboundClosed, SendResponse, SendEvent, RunEnds, DropEvents,
       DropInboundRx, DropOutboundTx, JoinThreads
  <2> QED
    BY <2>1
<1> QED
  BY <1>1, <1>2

(* The requests answered have been read.                                   *)
LEMMA AnsweredAreRead ==
  ASSUME ConnectionTypeOK
  PROVE  /\ AnsweredSoFar \in Nat /\ AnsweredSoFar <= request
         /\ request \in Nat /\ request <= read /\ read \in Nat /\ read <= Len(written)
         /\ Len(written) \in Nat
BY DEF ConnectionTypeOK, AnsweredSoFar

(* A step that sends nothing keeps what was sent in order, and what was    *)
(* answered before the debugger received or dropped a request.             *)
LEMMA NothingSent ==
  ASSUME ConnectionTypeOK, AnswersInv, [Next]_vars, sent' = sent,
         AnsweredSoFar' = AnsweredSoFar \/ (Dropping' /\ AnsweredSoFar <= AnsweredSoFar'),
         AnsweredSoFar' \in Nat,
         ~ Dropping' => ~ Dropping
  PROVE  AnswersFollow' /\ InOrder(sent)'
<1>1. sent \in Seq(Messages) /\ \A i \in DOMAIN sent : i \in Nat
  BY DEF ConnectionTypeOK
<1>2. \A i \in DOMAIN sent : sent[i].kind = "response" => sent[i].to \in 1..AnsweredSoFar
  BY DEF AnswersInv, AnswersFollow
<1>3. \A i \in DOMAIN sent : sent[i].kind = "response" => written'[sent[i].to] = written[sent[i].to]
  BY <1>2, AnsweredAreRead, WrittenStays
<1>4. AnswersFollow'
  <2>1. \A i \in DOMAIN sent : sent[i].kind = "response" => sent[i].to \in 1..AnsweredSoFar'
    BY <1>2, AnsweredAreRead
  <2>2. ASSUME ~ Dropping'
        PROVE  /\ \A n \in 1..AnsweredSoFar' : \E i \in DOMAIN sent : sent[i] = Response(n)
               /\ \A i \in DOMAIN sent : sent[i].kind = "response" => written'[sent[i].to] # "disconnect"
    BY <1>3, <2>2 DEF AnswersInv, AnswersFollow
  <2> QED
    BY <2>1, <2>2 DEF AnswersFollow
<1>5. InOrder(sent)'
  <2> SUFFICES ASSUME NEW i \in DOMAIN sent, sent[i].kind = "response"
               PROVE  /\ written'[sent[i].to] # "garbage"
                      /\ sent[i].to > 1 =>
                           \E j \in 1..(i - 1) : sent[j] = Response(sent[i].to - 1)
                      /\ \A j \in 1..(i - 1) : sent[j].kind = "response" =>
                           sent[j].to < sent[i].to /\ written'[sent[j].to] # "disconnect"
    BY DEF InOrder
  <2>1. /\ written[sent[i].to] # "garbage"
        /\ sent[i].to > 1 =>
             \E j \in 1..(i - 1) : sent[j] = Response(sent[i].to - 1)
        /\ \A j \in 1..(i - 1) : sent[j].kind = "response" =>
             sent[j].to < sent[i].to /\ written[sent[j].to] # "disconnect"
    BY DEF AnswersInv, InOrder
  <2>2. \A j \in 1..(i - 1) : j \in DOMAIN sent
    BY <1>1
  <2> QED
    BY <1>3, <2>1, <2>2
<1> QED
  BY <1>4, <1>5

(* A step that leaves the requests alone.                                  *)
LEMMA RequestsStay ==
  ASSUME ConnectionTypeOK, AnswersInv, [Next]_vars,
         UNCHANGED <<inbound, inbound_rx, request, read>>,
         reader' = reader \/ (reader # "send" /\ reader' # "send") \/ ~ inbound_rx
  PROVE  RequestsFollow'
<1>1. \A k \in 1..read : written'[k] = written[k]
  BY AnsweredAreRead, WrittenStays
<1>2. \A k \in 1..read' : written'[k] # "garbage"
  BY <1>1 DEF AnswersInv, RequestsFollow
<1>3. inbound_rx' => request' + Len(inbound') = IF reader' = "send" THEN read' - 1 ELSE read'
  BY DEF AnswersInv, RequestsFollow
<1>4. \A i \in DOMAIN inbound' : inbound'[i] = request' + i
  BY DEF AnswersInv, RequestsFollow
<1> QED
  BY <1>2, <1>3, <1>4 DEF RequestsFollow

(* What was sent is added to, what was delivered is not.                   *)
LEMMA SentGrows ==
  ASSUME ConnectionTypeOK, DeliveredIsPrefix, delivered' = delivered,
         NEW message \in Messages, SendTo(message)
  PROVE  DeliveredIsPrefix'
<1>1. delivered \in Seq(Messages) /\ sent \in Seq(Messages)
  BY DEF ConnectionTypeOK
<1>2. Len(delivered) \in Nat /\ Len(sent) \in Nat /\ DOMAIN delivered = 1..Len(delivered)
  BY <1>1
<1>3. CASE sent' = sent
  BY <1>3 DEF DeliveredIsPrefix
<1>4. CASE sent' = Append(sent, message)
  <2>1. Len(sent') = Len(sent) + 1 /\ \A i \in 1..Len(sent) : sent'[i] = sent[i]
    BY <1>1, <1>4, AppendFacts
  <2> QED
    BY <1>2, <2>1 DEF DeliveredIsPrefix
<1> QED
  BY <1>3, <1>4 DEF SendTo

(* The answer to the request being handled is the next one.                *)
LEMMA AnswerIsNext ==
  ASSUME ConnectionTypeOK, AnswersInv, SendResponse
  PROVE  AnswersFollow' /\ InOrder(sent)'
<1>1. /\ sent \in Seq(Messages) /\ debugger = "handling" /\ request > 0 /\ ~ Dropping
      /\ request \in Nat /\ request \in 1..read /\ AnsweredSoFar = request - 1
      /\ AnsweredSoFar' = request
      /\ UNCHANGED <<written, request>>
  BY DEF ConnectionTypeOK, SendResponse, Dropping, AnsweredSoFar, clientVars
<1>2. DOMAIN sent = 1..Len(sent) /\ Len(sent) \in Nat
  BY <1>1
<1>3. /\ \A i \in DOMAIN sent : sent[i].kind = "response" => sent[i].to \in 1..(request - 1)
      /\ \A n \in 1..(request - 1) : \E i \in DOMAIN sent : sent[i] = Response(n)
      /\ \A i \in DOMAIN sent : sent[i].kind = "response" => written[sent[i].to] # "disconnect"
  BY <1>1 DEF AnswersInv, AnswersFollow
<1>4. CASE ~ outbound_rx
  <2>1. sent' = sent /\ Dropping'
    BY <1>4 DEF SendResponse, SendTo, Dropping
  <2>2. AnswersFollow'
    BY <1>1, <1>3, <2>1 DEF AnswersFollow
  <2>3. InOrder(sent)'
    BY <1>1, <2>1 DEF AnswersInv, InOrder
  <2> QED
    BY <2>2, <2>3
<1>5. CASE outbound_rx
  <2>1. Response(request) \in Messages
    BY <1>1, MessageTypes, ConnectionAssumption DEF ConnectionTypeOK
  <2>2. /\ sent' = Append(sent, Response(request))
        /\ ~ Dropping' => written[request] # "disconnect"
    BY <1>5 DEF SendResponse, SendTo, Dropping
  <2>3. /\ DOMAIN sent' = 1..(Len(sent) + 1)
        /\ \A i \in 1..Len(sent) : sent'[i] = sent[i]
        /\ sent'[Len(sent) + 1] = Response(request)
    BY <1>1, <2>1, <2>2, AppendFacts
  <2>4. Response(request).kind = "response" /\ Response(request).to = request
    BY DEF Response
  <2>5. AnswersFollow'
    <3>1. \A i \in DOMAIN sent' : sent'[i].kind = "response" => sent'[i].to \in 1..request
      BY <1>1, <1>2, <1>3, <2>3, <2>4
    <3>2. \A n \in 1..request : \E i \in DOMAIN sent' : sent'[i] = Response(n)
      <4> SUFFICES ASSUME NEW n \in 1..request PROVE \E i \in DOMAIN sent' : sent'[i] = Response(n)
        OBVIOUS
      <4>1. CASE n = request
        BY <1>2, <2>3, <4>1
      <4>2. CASE n # request
        <5>1. n \in 1..(request - 1)
          BY <1>1, <4>2
        <5>2. PICK i \in DOMAIN sent : sent[i] = Response(n)
          BY <1>3, <5>1
        <5> QED
          BY <1>2, <2>3, <5>2
      <4> QED
        BY <4>1, <4>2
    <3>3. ~ Dropping' => \A i \in DOMAIN sent' : sent'[i].kind = "response" =>
                           written[sent'[i].to] # "disconnect"
      BY <1>2, <1>3, <2>2, <2>3, <2>4
    <3> QED
      BY <1>1, <3>1, <3>2, <3>3 DEF AnswersFollow
  <2>6. InOrder(sent)'
    <3> SUFFICES ASSUME NEW i \in DOMAIN sent', sent'[i].kind = "response"
                 PROVE  /\ written[sent'[i].to] # "garbage"
                        /\ sent'[i].to > 1 =>
                             \E j \in 1..(i - 1) : sent'[j] = Response(sent'[i].to - 1)
                        /\ \A j \in 1..(i - 1) : sent'[j].kind = "response" =>
                             sent'[j].to < sent'[i].to /\ written[sent'[j].to] # "disconnect"
      BY <1>1 DEF InOrder
    <3>1. CASE i # Len(sent) + 1
      <4>1. i \in 1..Len(sent) /\ \A j \in 1..(i - 1) : j \in 1..Len(sent)
        BY <1>2, <2>3, <3>1
      <4>2. sent'[i] = sent[i] /\ \A j \in 1..(i - 1) : sent'[j] = sent[j]
        BY <2>3, <4>1
      <4>3. i \in DOMAIN sent /\ sent[i].kind = "response"
        BY <1>2, <4>1, <4>2
      <4>4. /\ written[sent[i].to] # "garbage"
            /\ sent[i].to > 1 => \E j \in 1..(i - 1) : sent[j] = Response(sent[i].to - 1)
            /\ \A j \in 1..(i - 1) : sent[j].kind = "response" =>
                 sent[j].to < sent[i].to /\ written[sent[j].to] # "disconnect"
        BY <4>3 DEF AnswersInv, InOrder
      <4> QED
        BY <4>2, <4>4
    <3>2. CASE i = Len(sent) + 1
      <4>1. sent'[i].to = request /\ i - 1 = Len(sent)
        BY <1>2, <2>3, <2>4, <3>2
      <4>2. written[request] # "garbage"
        BY <1>1 DEF AnswersInv, RequestsFollow
      <4>3. ASSUME request > 1 PROVE \E j \in 1..(i - 1) : sent'[j] = Response(request - 1)
        <5>1. request - 1 \in 1..(request - 1)
          BY <1>1, <4>3
        <5>2. PICK j \in DOMAIN sent : sent[j] = Response(request - 1)
          BY <1>3, <5>1
        <5> QED
          BY <1>2, <2>3, <4>1, <5>2
      <4>4. \A j \in 1..(i - 1) : sent'[j].kind = "response" =>
              sent'[j].to < request /\ written[sent'[j].to] # "disconnect"
        <5> SUFFICES ASSUME NEW j \in 1..Len(sent), sent'[j].kind = "response"
                     PROVE  sent'[j].to < request /\ written[sent'[j].to] # "disconnect"
          BY <4>1
        <5>1. sent'[j] = sent[j] /\ j \in DOMAIN sent
          BY <1>2, <2>3
        <5>2. sent[j].to \in 1..(request - 1) /\ written[sent[j].to] # "disconnect"
          BY <1>3, <5>1
        <5> QED
          BY <1>1, <5>1, <5>2
      <4> QED
        BY <4>1, <4>2, <4>3, <4>4
    <3> QED
      BY <3>1, <3>2
  <2> QED
    BY <2>5, <2>6
<1> QED
  BY <1>4, <1>5

(* An event is not an answer.                                              *)
LEMMA EventIsNoAnswer ==
  ASSUME ConnectionTypeOK, AnswersInv, NEW name \in {"stopped", "terminated", "exited"},
         SendTo(Event(name)), UNCHANGED written,
         AnsweredSoFar' = AnsweredSoFar \/ (Dropping' /\ AnsweredSoFar <= AnsweredSoFar'),
         AnsweredSoFar' \in Nat,
         ~ Dropping' => ~ Dropping
  PROVE  AnswersFollow' /\ InOrder(sent)'
<1>1. sent \in Seq(Messages) /\ AnsweredSoFar \in Nat
  BY AnsweredAreRead DEF ConnectionTypeOK
<1>2. DOMAIN sent = 1..Len(sent) /\ Len(sent) \in Nat
  BY <1>1
<1>3. CASE sent' = sent
  BY <1>1, <1>3 DEF AnswersInv, AnswersFollow, InOrder
<1>4. CASE sent' = Append(sent, Event(name))
  <2>1. Event(name) \in Messages /\ Event(name).kind # "response"
    BY MessageTypes DEF Event
  <2>2. /\ DOMAIN sent' = 1..(Len(sent) + 1)
        /\ \A i \in 1..Len(sent) : sent'[i] = sent[i]
        /\ sent'[Len(sent) + 1] = Event(name)
    BY <1>1, <1>4, <2>1, AppendFacts
  <2>3. \A i \in DOMAIN sent' : sent'[i].kind = "response" =>
          i \in DOMAIN sent /\ sent'[i] = sent[i] /\ \A j \in 1..(i - 1) : sent'[j] = sent[j]
    BY <1>2, <2>1, <2>2
  <2>4. AnswersFollow'
    <3>1. \A i \in DOMAIN sent' : sent'[i].kind = "response" => sent'[i].to \in 1..AnsweredSoFar'
      <4>1. \A i \in DOMAIN sent : sent[i].kind = "response" => sent[i].to \in 1..AnsweredSoFar
        BY DEF AnswersInv, AnswersFollow
      <4>2. 1..AnsweredSoFar \subseteq 1..AnsweredSoFar'
        BY <1>1
      <4> QED
        BY <2>3, <4>1, <4>2
    <3>2. ASSUME ~ Dropping'
          PROVE  /\ \A n \in 1..AnsweredSoFar' : \E i \in DOMAIN sent' : sent'[i] = Response(n)
                 /\ \A i \in DOMAIN sent' : sent'[i].kind = "response" =>
                      written[sent'[i].to] # "disconnect"
      <4>1. /\ \A n \in 1..AnsweredSoFar' : \E i \in DOMAIN sent : sent[i] = Response(n)
            /\ \A i \in DOMAIN sent : sent[i].kind = "response" =>
                 written[sent[i].to] # "disconnect"
        BY <3>2 DEF AnswersInv, AnswersFollow
      <4>2. \A i \in DOMAIN sent : i \in DOMAIN sent' /\ sent'[i] = sent[i]
        BY <1>2, <2>2
      <4> QED
        BY <2>3, <4>1, <4>2
    <3> QED
      BY <1>1, <3>1, <3>2 DEF AnswersFollow
  <2>5. InOrder(sent)'
    <3> SUFFICES ASSUME NEW i \in DOMAIN sent', sent'[i].kind = "response"
                 PROVE  /\ written[sent'[i].to] # "garbage"
                        /\ sent'[i].to > 1 =>
                             \E j \in 1..(i - 1) : sent'[j] = Response(sent'[i].to - 1)
                        /\ \A j \in 1..(i - 1) : sent'[j].kind = "response" =>
                             sent'[j].to < sent'[i].to /\ written[sent'[j].to] # "disconnect"
      BY DEF InOrder
    <3>1. i \in DOMAIN sent /\ sent'[i] = sent[i] /\ \A j \in 1..(i - 1) : sent'[j] = sent[j]
      BY <2>3
    <3>2. /\ written[sent[i].to] # "garbage"
          /\ sent[i].to > 1 => \E j \in 1..(i - 1) : sent[j] = Response(sent[i].to - 1)
          /\ \A j \in 1..(i - 1) : sent[j].kind = "response" =>
               sent[j].to < sent[i].to /\ written[sent[j].to] # "disconnect"
      BY <3>1 DEF AnswersInv, InOrder
    <3> QED
      BY <3>1, <3>2
  <2> QED
    BY <2>4, <2>5
<1> QED
  BY <1>3, <1>4 DEF SendTo

(* Every action keeps the answers in order.                                *)
LEMMA AnswersInductive ==
  ASSUME ConnectionInv, AnswersInv, [Next]_vars
  PROVE  AnswersInv'
<1> USE DEF ConnectionInv
<1>0. /\ delivered \in Seq(Messages) /\ sent \in Seq(Messages) /\ writing \in Messages
      /\ request \in Nat /\ read \in Nat /\ inbound \in Seq(1..read)
      /\ AnsweredSoFar \in Nat
  BY AnsweredAreRead DEF ConnectionTypeOK
<1>1. CASE ClientWrites \/ ClientCloses
  <2>1. UNCHANGED <<readerVars, writerVars, inbound, debuggerVars, sent>>
    BY <1>1 DEF ClientWrites, ClientCloses
  <2>2. UNCHANGED <<read, reader, delivered, inbound, inbound_rx, debugger, request, sent>>
    BY <2>1 DEF readerVars, writerVars, debuggerVars
  <2> QED
    BY <1>0, <2>2, NothingSent, RequestsStay
    DEF AnswersInv, AnsweredSoFar, Dropping, DeliveredIsPrefix
<1>2. CASE PollRequest
  <2>1. /\ UNCHANGED <<written, delivered, inbound, inbound_rx, debugger, request, sent>>
        /\ read' = read + 1 /\ reader' = "send" /\ reader = "poll_request"
        /\ written[read + 1] # "garbage"
    BY <1>2 DEF PollRequest, clientVars, writerVars, debuggerVars
  <2>2. RequestsFollow'
    <3>1. \A k \in 1..(read + 1) : written[k] # "garbage"
      BY <1>0, <2>1 DEF AnswersInv, RequestsFollow
    <3>2. inbound_rx => request + Len(inbound) = (read + 1) - 1
      BY <1>0, <2>1 DEF AnswersInv, RequestsFollow
    <3> QED
      BY <2>1, <3>1, <3>2 DEF AnswersInv, RequestsFollow
  <2> QED
    BY <1>0, <2>1, <2>2, NothingSent DEF AnswersInv, AnsweredSoFar, Dropping, DeliveredIsPrefix
<1>3. CASE PollRequestFails
  <2>1. /\ UNCHANGED <<written, read, delivered, inbound, inbound_rx, debugger, request, sent>>
        /\ reader = "poll_request" /\ reader' = "ended"
    BY <1>3 DEF PollRequestFails, clientVars, writerVars, debuggerVars
  <2> QED
    BY <1>0, <2>1, NothingSent, RequestsStay
    DEF AnswersInv, AnsweredSoFar, Dropping, DeliveredIsPrefix
<1>4. CASE ReaderSends
  <2>1. /\ UNCHANGED <<written, read, delivered, inbound_rx, debugger, request, sent>>
        /\ reader = "send" /\ read > 0
    BY <1>4 DEF ReaderSends, clientVars, writerVars, debuggerVars, ConnectionTypeOK
  <2>2. RequestsFollow'
    <3>1. CASE inbound_rx
      <4>1. inbound' = Append(inbound, read) /\ reader' = "poll_request"
        BY <1>4, <3>1 DEF ReaderSends
      <4>2. read \in 1..read
        BY <1>0, <2>1
      <4>3. /\ Len(inbound') = Len(inbound) + 1
            /\ DOMAIN inbound' = 1..(Len(inbound) + 1)
            /\ \A i \in 1..Len(inbound) : inbound'[i] = inbound[i]
            /\ inbound'[Len(inbound) + 1] = read
        BY <1>0, <4>1, <4>2, AppendFacts
      <4>4. request + Len(inbound) = read - 1 /\ Len(inbound) \in Nat
            /\ DOMAIN inbound = 1..Len(inbound)
        BY <1>0, <2>1, <3>1 DEF AnswersInv, RequestsFollow
      <4>5. \A i \in DOMAIN inbound' : inbound'[i] = request + i
        <5>1. \A i \in 1..Len(inbound) : inbound'[i] = request + i
          BY <4>3, <4>4 DEF AnswersInv, RequestsFollow
        <5>2. inbound'[Len(inbound) + 1] = request + (Len(inbound) + 1)
          BY <1>0, <2>1, <4>3, <4>4
        <5>3. \A i \in 1..(Len(inbound) + 1) : i \in 1..Len(inbound) \/ i = Len(inbound) + 1
          BY <4>4
        <5> QED
          BY <4>3, <5>1, <5>2, <5>3
      <4>6. request + Len(inbound') = read
        BY <1>0, <4>3, <4>4
      <4> QED
        BY <2>1, <4>1, <4>5, <4>6 DEF AnswersInv, RequestsFollow
    <3>2. CASE ~ inbound_rx
      BY <1>4, <2>1, <3>2 DEF ReaderSends, AnswersInv, RequestsFollow
    <3> QED
      BY <3>1, <3>2
  <2> QED
    BY <1>0, <2>1, <2>2, NothingSent DEF AnswersInv, AnsweredSoFar, Dropping, DeliveredIsPrefix
<1>5. CASE WriterReceives \/ WriterEnds
  <2>1. UNCHANGED <<written, read, reader, delivered, inbound, inbound_rx, debugger, request, sent>>
    BY <1>5 DEF WriterReceives, WriterEnds, clientVars, readerVars, debuggerVars
  <2> QED
    BY <1>0, <2>1, NothingSent, RequestsStay
    DEF AnswersInv, AnsweredSoFar, Dropping, DeliveredIsPrefix
<1>6. CASE WriterWrites
  <2>1. /\ UNCHANGED <<written, read, reader, inbound, inbound_rx, debugger, request, sent>>
        /\ writer = "write"
    BY <1>6 DEF WriterWrites, clientVars, readerVars, debuggerVars
  <2>2. DeliveredIsPrefix'
    <3>1. CASE client_open
      <4>1. delivered' = Append(delivered, writing)
        BY <1>6, <3>1 DEF WriterWrites
      <4>2. /\ Len(sent) = Len(delivered) + 1 + Len(outbound)
            /\ writing = sent[Len(delivered) + 1]
            /\ outbound \in Seq(Messages)
        BY <2>1, <3>1 DEF Pipe, ClosedEarly, InFlight, ConnectionTypeOK
      <4>3. /\ Len(delivered') = Len(delivered) + 1
            /\ DOMAIN delivered' = 1..(Len(delivered) + 1)
            /\ \A i \in 1..Len(delivered) : delivered'[i] = delivered[i]
            /\ delivered'[Len(delivered) + 1] = writing
        BY <1>0, <4>1, AppendFacts
      <4>4. DOMAIN delivered = 1..Len(delivered) /\ Len(delivered) \in Nat /\ Len(outbound) \in Nat
        BY <1>0, <4>2
      <4> QED
        BY <2>1, <4>2, <4>3, <4>4 DEF AnswersInv, DeliveredIsPrefix
    <3>2. CASE ~ client_open
      BY <1>6, <2>1, <3>2 DEF WriterWrites, AnswersInv, DeliveredIsPrefix
    <3> QED
      BY <3>1, <3>2
  <2> QED
    BY <1>0, <2>1, <2>2, NothingSent, RequestsStay DEF AnswersInv, AnsweredSoFar, Dropping
<1>7. CASE NextRequest
  <2>1. /\ UNCHANGED <<written, read, reader, delivered, inbound_rx, sent>>
        /\ debugger = "running" /\ debugger' = "handling"
        /\ inbound # << >> /\ request' = Head(inbound) /\ inbound' = Tail(inbound)
    BY <1>7 DEF NextRequest, clientVars, readerVars, writerVars
  <2>2. /\ Len(inbound) >= 1 /\ Len(inbound) \in Nat /\ DOMAIN inbound = 1..Len(inbound)
        /\ Head(inbound) = inbound[1] /\ Len(Tail(inbound)) = Len(inbound) - 1
        /\ DOMAIN Tail(inbound) = 1..Len(Tail(inbound))
        /\ \A i \in 1..Len(Tail(inbound)) : Tail(inbound)[i] = inbound[i + 1]
    BY <1>0, <2>1, TailFacts
  <2>3. request' = request + 1
    BY <2>1, <2>2 DEF AnswersInv, RequestsFollow
  <2>4. RequestsFollow'
    <3>1. \A i \in DOMAIN inbound' : inbound'[i] = request' + i
      <4> SUFFICES ASSUME NEW i \in DOMAIN inbound' PROVE inbound'[i] = request' + i
        OBVIOUS
      <4>1. i \in Nat /\ i + 1 \in DOMAIN inbound /\ inbound'[i] = inbound[i + 1]
        BY <2>1, <2>2
      <4>2. inbound[i + 1] = request + (i + 1)
        BY <4>1 DEF AnswersInv, RequestsFollow
      <4> QED
        BY <1>0, <2>3, <4>1, <4>2
    <3>2. request' + Len(inbound') = request + Len(inbound)
      BY <1>0, <2>1, <2>2, <2>3
    <3> QED
      BY <2>1, <3>1, <3>2 DEF AnswersInv, RequestsFollow
  <2>5. AnsweredSoFar' = AnsweredSoFar
    BY <1>0, <2>1, <2>3 DEF AnsweredSoFar
  <2>6. ~ Dropping
    BY <2>1 DEF Dropping
  <2> QED
    BY <1>0, <2>1, <2>4, <2>5, <2>6, NothingSent DEF AnswersInv, DeliveredIsPrefix
<1>8. CASE InboundClosed \/ RunEnds \/ JoinThreads \/ DropOutboundTx
  <2>1. UNCHANGED <<written, read, reader, delivered, inbound, inbound_rx, request, sent>>
    BY <1>8 DEF InboundClosed, RunEnds, JoinThreads, DropOutboundTx, clientVars, readerVars, writerVars
  <2>2. debugger' \notin {"running", "handling"}
    BY <1>8 DEF InboundClosed, RunEnds, JoinThreads, DropOutboundTx, After
  <2>3. Dropping' /\ AnsweredSoFar' = request
    BY <2>1, <2>2 DEF Dropping, AnsweredSoFar
  <2>4. AnsweredSoFar <= AnsweredSoFar' /\ AnsweredSoFar' \in Nat
    BY <1>0, <2>3, AnsweredAreRead
  <2> QED
    BY <2>1, <2>3, <2>4, NothingSent, RequestsStay DEF AnswersInv, DeliveredIsPrefix
<1>9. CASE DropInboundRx
  <2>1. /\ UNCHANGED <<written, read, reader, delivered, request, sent>>
        /\ debugger = "drop_inbound_rx" /\ debugger' = "drop_outbound_tx"
        /\ inbound' = << >> /\ ~ inbound_rx'
    BY <1>9 DEF DropInboundRx, clientVars, readerVars, writerVars, After
  <2>2. RequestsFollow'
    BY <2>1 DEF AnswersInv, RequestsFollow
  <2>3. Dropping' /\ AnsweredSoFar' = AnsweredSoFar
    BY <2>1 DEF Dropping, AnsweredSoFar
  <2> QED
    BY <1>0, <2>1, <2>2, <2>3, NothingSent DEF AnswersInv, DeliveredIsPrefix
<1>10. CASE SendResponse
  <2>1. /\ UNCHANGED <<read, reader, delivered, inbound, inbound_rx, request>>
        /\ SendTo(Response(request))
    BY <1>10 DEF SendResponse, readerVars, writerVars
  <2>2. Response(request) \in Messages
    BY <1>10, MessageTypes, ConnectionAssumption DEF SendResponse, ConnectionTypeOK
  <2> QED
    BY <1>10, <2>1, <2>2, AnswerIsNext, RequestsStay, SentGrows DEF AnswersInv
<1>11. CASE SendEvent \/ DropEvents
  <2>1. PICK name \in {"stopped", "terminated", "exited"} : SendTo(Event(name))
    BY <1>11 DEF SendEvent, DropEvents
  <2>2. UNCHANGED <<written, read, reader, delivered, inbound, inbound_rx, request>>
    BY <1>11 DEF SendEvent, DropEvents, clientVars, readerVars, writerVars
  <2>3. ~ Dropping' => ~ Dropping
    BY <1>11 DEF SendEvent, DropEvents, After, Dropping
  <2>4. debugger' = debugger \/ debugger' \notin {"running", "handling"}
    BY <1>11 DEF SendEvent, DropEvents, After
  <2>5. /\ AnsweredSoFar' = AnsweredSoFar \/ (Dropping' /\ AnsweredSoFar <= AnsweredSoFar')
        /\ AnsweredSoFar' \in Nat
    <3>1. CASE debugger' = debugger
      BY <1>0, <2>2, <3>1 DEF AnsweredSoFar
    <3>2. CASE debugger' \notin {"running", "handling"}
      <4>1. Dropping' /\ AnsweredSoFar' = request
        BY <2>2, <3>2 DEF Dropping, AnsweredSoFar
      <4> QED
        BY <1>0, <4>1, AnsweredAreRead
    <3> QED
      BY <2>4, <3>1, <3>2
  <2>6. Event(name) \in Messages
    BY MessageTypes
  <2> QED
    BY <2>1, <2>2, <2>3, <2>5, <2>6, EventIsNoAnswer, RequestsStay, SentGrows DEF AnswersInv
<1>12. CASE UNCHANGED vars
  <2>1. UNCHANGED <<written, read, reader, delivered, inbound, inbound_rx, debugger, request, sent>>
    BY <1>12 DEF vars, clientVars, readerVars, writerVars, debuggerVars
  <2> QED
    BY <1>0, <2>1, NothingSent, RequestsStay
    DEF AnswersInv, AnsweredSoFar, Dropping, DeliveredIsPrefix
<1> QED
  BY <1>1, <1>2, <1>3, <1>4, <1>5, <1>6, <1>7, <1>8, <1>9, <1>10, <1>11, <1>12
  DEF Next, Reader, Writer, Debugger, Drop

(* Between the client's messages and the responses it gets there are two   *)
(* threads, two channels and the debugger: what was read is passed on in   *)
(* order, what was received is answered before the next is, and nothing is *)
(* answered after a Disconnect.                                            *)
THEOREM AnswersFollowRequests == Spec => []AnswersInv
<1>1. Init => AnswersInv
  <2> SUFFICES ASSUME Init PROVE AnswersInv
    OBVIOUS
  <2>1. RequestsFollow /\ DeliveredIsPrefix /\ InOrder(sent)
    BY DEF Init, RequestsFollow, DeliveredIsPrefix, InOrder
  <2>2. AnswersFollow
    BY DEF Init, AnswersFollow, AnsweredSoFar
  <2> QED
    BY <2>1, <2>2 DEF AnswersInv
<1>2. ConnectionInv /\ AnswersInv /\ [Next]_vars => AnswersInv'
  BY AnswersInductive
<1> QED
  BY <1>1, <1>2, ConnectionInvariant, PTL DEF Spec

(* However the threads interleave, and wherever the stream breaks, the     *)
(* client gets its answers one for one in the order of its requests: what  *)
(* it gets is the start of what was sent.                                  *)
THEOREM AnsweredInOrder == Spec => []AnswersInOrder
<1>1. ConnectionTypeOK /\ AnswersInv => AnswersInOrder
  <2> SUFFICES ASSUME ConnectionTypeOK, AnswersInv,
                      NEW i \in DOMAIN delivered, delivered[i].kind = "response"
               PROVE  /\ written[delivered[i].to] # "garbage"
                      /\ delivered[i].to > 1 =>
                           \E j \in 1..(i - 1) : delivered[j] = Response(delivered[i].to - 1)
                      /\ \A j \in 1..(i - 1) : delivered[j].kind = "response" =>
                           /\ delivered[j].to < delivered[i].to
                           /\ written[delivered[j].to] # "disconnect"
    BY DEF AnswersInOrder, InOrder
  <2>1. delivered \in Seq(Messages) /\ sent \in Seq(Messages)
    BY DEF ConnectionTypeOK
  <2>2. /\ i \in DOMAIN sent /\ sent[i] = delivered[i]
        /\ \A j \in 1..(i - 1) : sent[j] = delivered[j]
    BY <2>1 DEF AnswersInv, DeliveredIsPrefix
  <2>3. /\ written[sent[i].to] # "garbage"
        /\ sent[i].to > 1 => \E j \in 1..(i - 1) : sent[j] = Response(sent[i].to - 1)
        /\ \A j \in 1..(i - 1) : sent[j].kind = "response" =>
             sent[j].to < sent[i].to /\ written[sent[j].to] # "disconnect"
    BY <2>2 DEF AnswersInv, InOrder
  <2> QED
    BY <2>2, <2>3
<1> QED
  BY <1>1, ConnectionTypes, AnswersFollowRequests, PTL
=============================================================================
