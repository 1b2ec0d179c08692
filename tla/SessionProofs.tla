--------------------------- MODULE SessionProofs ---------------------------
(***************************************************************************)
(* Session is safe because it does two things at once.  To the call stack  *)
(* it is a run of CallStack: what is proved of that module holds of a      *)
(* session.  To the client it is a run of DapSession.                      *)
(***************************************************************************)
EXTENDS Session, CallStackProofs, SequenceTheorems

Request == Requests \union HandshakeRequests

InboundType == inbound \in Seq(Request)

LEMMA HeadOfInbound ==
  ASSUME InboundType, inbound # << >>
  PROVE  Head(inbound) \in Request /\ Tail(inbound) \in Seq(Request)
  BY DEF InboundType

LEMMA RequestFacts ==
  ASSUME NEW r \in Request, r.cmd = "Variables"
  PROVE  r.ref \in References
  BY SessionAssumption DEF Request

LEMMA InboundTypeInit == SessionInit => InboundType
<1>1. \A h \in Handshakes : h \in Seq(HandshakeRequests)
  BY SessionAssumption
<1>2. \A h \in Seq(HandshakeRequests) : h \in Seq(Request)
  BY DEF Request
<1>3. QED
  BY <1>1, <1>2 DEF SessionInit, InboundType

(* The queue loses its head, keeps what it has, or gets one request.       *)
LEMMA InboundSteps ==
  ASSUME [SessionNext]_allVars
  PROVE  \/ inbound' = inbound
         \/ inbound # << >> /\ inbound' = Tail(inbound)
         \/ \E r \in Requests : inbound' = Append(inbound, r)
<1>1. CASE HandleRequest
  BY <1>1 DEF HandleRequest, HandleQuery, HandleVariables, HandleSetBreakpoints, HandlePause,
    HandleContinue, HandleStep, HandleStepOut, HandleDisconnect, HandleRefused, Take
<1>2. CASE \/ InitSetBreakpoints \/ InitAnswered \/ InitConfigurationDone \/ InitRefused
           \/ InboundClosed \/ SendFails
  BY <1>2 DEF InitSetBreakpoints, InitAnswered, InitConfigurationDone, InitRefused,
    InboundClosed, SendFails, Take
<1>3. CASE \/ PreStepSkips \/ PreStepEnters \/ maybe_handle_breakpoint_hit
           \/ maybe_handle_step_action \/ NothingToPoll \/ RunVm \/ VmStops
  BY <1>3 DEF PreStepSkips, PreStepEnters, maybe_handle_breakpoint_hit,
    maybe_handle_step_action, NothingToPoll, RunVm, VmStops, sessionVars
<1>4. CASE ClientSends \/ InboundCloses \/ UNCHANGED allVars
  BY <1>4 DEF ClientSends, InboundCloses, allVars, sessionVars
<1>5. QED
  BY <1>1, <1>2, <1>3, <1>4 DEF SessionNext, DebuggerStep

LEMMA InboundTypeInductive == InboundType /\ [SessionNext]_allVars => InboundType'
<1> SUFFICES ASSUME InboundType, [SessionNext]_allVars PROVE InboundType'
  OBVIOUS
<1>1. CASE inbound' = inbound
  BY <1>1 DEF InboundType
<1>2. CASE inbound # << >> /\ inbound' = Tail(inbound)
  BY <1>2, HeadOfInbound DEF InboundType
<1>3. CASE \E r \in Requests : inbound' = Append(inbound, r)
  BY <1>3 DEF InboundType, Request
<1>4. QED
  BY <1>1, <1>2, <1>3, InboundSteps

----------------------------------------------------------------------------
(* The call stack of a session. *)

LEMMA DropIsStackStep ==
  ASSUME NEW messages, NEW how, Drop(messages, how)
  PROVE  Next
  BY DEF Drop, Next

LEMMA RequestIsStackStep ==
  ASSUME InboundType, HandleRequest
  PROVE  [Next]_vars
<1>1. CASE HandleVariables
  <2>1. Head(inbound) \in Request /\ Head(inbound).cmd = "Variables"
    BY <1>1, HeadOfInbound DEF HandleVariables, Take
  <2>2. Head(inbound).ref \in References
    BY <2>1, RequestFacts
  <2>3. get_variables(Head(inbound).ref)
    BY <1>1 DEF HandleVariables
  <2>4. QED
    BY <2>2, <2>3 DEF Next
<1>2. CASE HandleDisconnect \/ HandleRefused
  BY <1>2, DropIsStackStep DEF HandleDisconnect, HandleRefused
<1>3. CASE HandleStep
  BY <1>3, DropIsStackStep DEF HandleStep, Resume, SameProgram
<1>4. CASE \/ HandleQuery \/ HandleSetBreakpoints \/ HandlePause \/ HandleContinue
           \/ HandleStepOut
  BY <1>4 DEF HandleQuery, HandleSetBreakpoints, HandlePause, HandleContinue, HandleStepOut,
    Resume, SameProgram
<1>5. QED
  BY <1>1, <1>2, <1>3, <1>4 DEF HandleRequest

(* Whatever a session does is a step of the call stack, or leaves it and   *)
(* the VM alone.                                                           *)
LEMMA SessionIsStackStep ==
  ASSUME InboundType, [SessionNext]_allVars
  PROVE  [Next]_vars
<1>1. CASE HandleRequest
  BY <1>1, RequestIsStackStep
<1>2. CASE InitRefused \/ InboundClosed \/ SendFails
  BY <1>2, DropIsStackStep DEF InitRefused, InboundClosed, SendFails
<1>3. CASE PreStepSkips \/ PreStepEnters \/ NothingToPoll \/ RunVm \/ VmStops
  BY <1>3 DEF PreStepSkips, PreStepEnters, NothingToPoll, RunVm, VmStops, Next
<1>4. CASE \/ InitSetBreakpoints \/ InitAnswered \/ InitConfigurationDone
           \/ maybe_handle_breakpoint_hit \/ maybe_handle_step_action
  BY <1>4, DropIsStackStep DEF InitSetBreakpoints, InitAnswered, InitConfigurationDone,
    maybe_handle_breakpoint_hit, maybe_handle_step_action, SameProgram
<1>5. CASE ClientSends \/ InboundCloses \/ UNCHANGED allVars
  BY <1>5 DEF ClientSends, InboundCloses, allVars
<1>6. QED
  BY <1>1, <1>2, <1>3, <1>4, <1>5 DEF SessionNext, DebuggerStep

(* The debugger between its VM and its client drives the call stack as the *)
(* hooks alone would: every session is a run of CallStack.                 *)
THEOREM SessionRefinesCallStack == SessionSpec => Spec
<1>1. SessionInit => Init
  BY DEF SessionInit
<1>2. InboundType /\ [SessionNext]_allVars => [Next]_vars
  BY SessionIsStackStep
<1>3. QED
  BY <1>1, <1>2, InboundTypeInit, InboundTypeInductive, PTL DEF SessionSpec, Spec

(* At every request of every session, whatever the client does and the     *)
(* breakpoints are, the stack the client is shown is the VM's: what        *)
(* StackMirrors says of the hooks alone.                                   *)
THEOREM SessionStackMirrors ==
  ASSUME NoTailRecursion
  PROVE  SessionSpec => []StackMirrorsVm
  BY SessionRefinesCallStack, StackMirrors, PTL

----------------------------------------------------------------------------
(* What a sequence of messages tells. *)

LEMMA LastTells ==
  ASSUME NEW messages, NEW k \in DOMAIN messages, DOMAIN messages \subseteq Int,
         Tells(messages[k]) # "nothing",
         \A j \in DOMAIN messages : j > k => Tells(messages[j]) = "nothing"
  PROVE  Told(messages) = Tells(messages[k])
<1> DEFINE telling == {i \in DOMAIN messages : Tells(messages[i]) # "nothing"}
<1>1. k \in telling /\ \A j \in telling : j <= k
  OBVIOUS
<1>2. \A i \in telling : (\A j \in telling : j <= i) => i = k
  BY <1>1
<1>3. (CHOOSE i \in telling : \A j \in telling : j <= i) = k
  BY <1>1, <1>2
<1>4. telling # {}
  BY <1>1
<1>5. QED
  BY <1>3, <1>4 DEF Told

LEMMA NothingTold ==
  ASSUME NEW messages, \A j \in DOMAIN messages : Tells(messages[j]) = "nothing"
  PROVE  Told(messages) = announced
  BY DEF Told

LEMMA MessagesTell ==
  /\ \A reason : Tells(Stopped(reason)) = "stopped"
  /\ Tells(Event("terminated")) = "over"
  /\ Tells(Event("exited")) = "nothing"
  /\ Tells(Event("initialized")) = "nothing"
  /\ \A r : r.cmd \in ResumeCommands => Tells(Response(r)) = "running"
  /\ \A r : r.cmd \notin ResumeCommands => Tells(Response(r)) = "nothing"
  BY DEF Tells, Stopped, Event, Response, ResumeCommands

LEMMA StopTold ==
  ASSUME NEW reason
  PROVE  Told(<<Stopped(reason)>>) = "stopped"
<1> DEFINE q == <<Stopped(reason)>>
<1>1. DOMAIN q = {1} /\ Tells(q[1]) = "stopped"
  BY MessagesTell
<1> HIDE DEF q
<1>2. Told(q) = Tells(q[1])
  BY <1>1, LastTells
<1>3. QED
  BY <1>1, <1>2 DEF q

LEMMA PauseTold ==
  ASSUME NEW r, r.cmd \notin ResumeCommands
  PROVE  Told(<<Stopped("pause"), Response(r)>>) = "stopped"
<1> DEFINE q == <<Stopped("pause"), Response(r)>>
<1>1. DOMAIN q = {1, 2} /\ Tells(q[1]) = "stopped" /\ Tells(q[2]) = "nothing"
  BY MessagesTell
<1> HIDE DEF q
<1>2. Told(q) = Tells(q[1])
  BY <1>1, LastTells
<1>3. QED
  BY <1>1, <1>2 DEF q

LEMMA ResponseTold ==
  ASSUME NEW r
  PROVE  Told(<<Response(r)>>) = IF r.cmd \in ResumeCommands THEN "running" ELSE announced
<1> DEFINE q == <<Response(r)>>
<1>1. DOMAIN q = {1} /\ q[1] = Response(r)
  OBVIOUS
<1> HIDE DEF q
<1>2. CASE r.cmd \in ResumeCommands
  <2>1. Tells(q[1]) = "running"
    BY <1>1, <1>2, MessagesTell
  <2>2. Told(q) = Tells(q[1])
    BY <1>1, <2>1, LastTells
  <2>3. QED
    BY <1>2, <2>1, <2>2 DEF q
<1>3. CASE r.cmd \notin ResumeCommands
  <2>1. Told(q) = announced
    BY <1>1, <1>3, MessagesTell, NothingTold
  <2>2. QED
    BY <1>3, <2>1 DEF q
<1>4. QED
  BY <1>2, <1>3

LEMMA OneAndTwo ==
  ASSUME NEW S, NEW p \in Seq(S), NEW q \in Seq(S), Len(p) = 1, Len(q) = 2
  PROVE  /\ p \o q \in Seq(S) /\ Len(p \o q) = 3
         /\ (p \o q)[1] = p[1] /\ (p \o q)[2] = q[1] /\ (p \o q)[3] = q[2]
<1> DEFINE w == p \o q
<1>1. /\ w \in Seq(S)
      /\ Len(w) = Len(p) + Len(q)
      /\ \A i \in 1..Len(p) + Len(q) : w[i] = IF i <= Len(p) THEN p[i] ELSE q[i - Len(p)]
  BY ConcatProperties, Zenon
<1> HIDE DEF w
<1>2. w \in Seq(S) /\ Len(w) = 3 /\ \A i \in 1..3 : w[i] = IF i <= 1 THEN p[i] ELSE q[i - 1]
  BY <1>1
<1>3. w[1] = p[1] /\ w[2] = q[1] /\ w[3] = q[2]
  BY <1>2
<1>4. QED
  BY <1>2, <1>3 DEF w

LEMMA Prepended ==
  ASSUME NEW a, NEW b, NEW c
  PROVE  <<a>> \o <<b, c>> = <<a, b, c>>
<1> DEFINE S == {a, b, c}
           u == <<a>>
           v == <<b, c>>
           w == u \o v
           x == <<a, b, c>>
<1>1. u \in Seq(S) /\ v \in Seq(S) /\ Len(u) = 1 /\ Len(v) = 2
  OBVIOUS
<1>2. x \in Seq(S) /\ Len(x) = 3 /\ x[1] = u[1] /\ x[2] = v[1] /\ x[3] = v[2]
  OBVIOUS
<1> HIDE DEF S, u, v, x
<1>3. w \in Seq(S) /\ Len(w) = 3 /\ w[1] = u[1] /\ w[2] = v[1] /\ w[3] = v[2]
  BY <1>1, OneAndTwo
<1> HIDE DEF w
<1>4. \A i \in 1..3 : w[i] = x[i]
  <2>1. \A i \in 1..3 : i = 1 \/ i = 2 \/ i = 3
    OBVIOUS
  <2>2. QED
    BY <2>1, <1>2, <1>3
<1>5. w = x
  BY <1>2, <1>3, <1>4
<1>6. QED
  BY <1>5 DEF w, x, u, v

LEMMA FarewellTold ==
  /\ Told(Farewell) = "over"
  /\ Told(<< >> \o Farewell) = "over"
  /\ \A r : r.cmd \notin ResumeCommands => Told(<<Response(r)>> \o Farewell) = "over"
<1>1. << >> \o Farewell = Farewell
  BY DEF Farewell
<1>2. Told(Farewell) = "over"
  <2>1. /\ DOMAIN Farewell = {1, 2}
        /\ Tells(Farewell[1]) = "over"
        /\ Tells(Farewell[2]) = "nothing"
    BY MessagesTell DEF Farewell
  <2>2. Told(Farewell) = Tells(Farewell[1])
    BY <2>1, LastTells
  <2>3. QED
    BY <2>1, <2>2
<1>3. ASSUME NEW r, r.cmd \notin ResumeCommands
      PROVE  Told(<<Response(r)>> \o Farewell) = "over"
  <2> DEFINE q == <<Response(r)>> \o Farewell
  <2>1. q = <<Response(r), Event("terminated"), Event("exited")>>
    BY Prepended DEF Farewell
  <2> HIDE DEF q
  <2>2. DOMAIN q = {1, 2, 3} /\ q[2] = Event("terminated") /\ q[3] = Event("exited")
    BY <2>1
  <2>5. Tells(q[2]) = "over" /\ Tells(q[3]) = "nothing"
    BY <2>2, MessagesTell
  <2>3. Told(q) = Tells(q[2])
    BY <2>2, <2>5, LastTells
  <2>4. QED
    BY <2>5, <2>3 DEF q
<1>4. QED
  BY <1>1, <1>2, <1>3

----------------------------------------------------------------------------
(* The session the client sees. *)

AnnouncedInv ==
  /\ at \in Location
  /\ execution_stopped \in BOOLEAN
  /\ announced \in {"running", "stopped", "over"}
  /\ AnnouncedState

DapInv == InboundType /\ AnnouncedInv

DapStep == Dap!Next \/ UNCHANGED <<inbound, Execution, announced>>

LEMMA DropIsEnd ==
  ASSUME AnnouncedInv, at \notin Over,
         NEW messages, NEW how \in Over, Drop(messages, how),
         Told(messages \o Farewell) = "over",
         UNCHANGED execution_stopped,
         inbound' = inbound \/ (inbound # << >> /\ inbound' = Tail(inbound))
  PROVE  AnnouncedInv' /\ DapStep
<1>1. at' = how /\ announced' = "over"
  BY DEF Drop, Send
<1>2. AnnouncedInv'
  BY <1>1 DEF AnnouncedInv, AnnouncedState, Location, Over, Paused
<1>3. Execution # "over" /\ Execution' = "over"
  BY <1>1 DEF AnnouncedInv, Execution, Over, Paused, Location
<1>4. Dap!End
  BY <1>1, <1>3 DEF Dap!End, Dap!Becomes
<1>5. QED
  BY <1>2, <1>4 DEF DapStep, Dap!Next

(* A request that neither stops nor resumes the execution.                 *)
LEMMA AnswerIsServe ==
  ASSUME DapInv, Serving, inbound # << >>, inbound' = Tail(inbound),
         Head(inbound).cmd \notin ResumeCommands \union {"Pause"},
         Send(<<Response(Head(inbound))>>), Onward(execution_stopped),
         UNCHANGED execution_stopped
  PROVE  AnnouncedInv' /\ DapStep
<1>1. announced' = announced
  BY ResponseTold DEF Send
<1>2. at' = at
  BY DEF DapInv, AnnouncedInv, AnnouncedState, Serving, Paused, Over, Onward
<1>3. AnnouncedInv'
  BY <1>1, <1>2 DEF DapInv, AnnouncedInv, AnnouncedState, Over, Paused
<1>4. Dap!Serve
  BY <1>1, <1>2 DEF DapInv, AnnouncedInv, AnnouncedState, Serving, Dap!Serve, Dap!Becomes, Dap!After,
    Execution, WithCommand, Over, Paused
<1>5. QED
  BY <1>3, <1>4 DEF DapStep, Dap!Next

LEMMA ResumeIsServe ==
  ASSUME DapInv, Serving, inbound # << >>, inbound' = Tail(inbound),
         Head(inbound).cmd \in ResumeCommands,
         NEW action, Resume(action)
  PROVE  AnnouncedInv' /\ DapStep
<1>1. announced' = "running" /\ execution_stopped' = FALSE
  BY ResponseTold DEF Resume, Send
<1>2. at' \in {"step", "poll"}
  BY DEF Resume, Onward, Serving, Paused
<1>3. AnnouncedInv'
  BY <1>1, <1>2 DEF AnnouncedInv, AnnouncedState, Over, Paused, Location
<1>4. Head(inbound) \in WithCommand(ResumeCommands)
  BY HeadOfInbound DEF DapInv, WithCommand, Request
<1>5. Execution \in {"running", "stopped"} /\ Execution' = "running"
  BY <1>2 DEF Execution, Serving, Paused, Over
<1>6. Dap!Serve
  BY <1>1, <1>4, <1>5 DEF Dap!Serve, Dap!Becomes, Dap!After
<1>7. QED
  BY <1>3, <1>6 DEF DapStep, Dap!Next

LEMMA PauseIsServe ==
  ASSUME DapInv, HandlePause
  PROVE  AnnouncedInv' /\ DapStep
<1>1. /\ Serving
      /\ inbound # << >> /\ inbound' = Tail(inbound)
      /\ Head(inbound).cmd = "Pause"
      /\ execution_stopped' = TRUE
      /\ Onward(TRUE)
  BY DEF HandlePause, Take
<1>2. announced' = "stopped"
  BY <1>1, PauseTold DEF HandlePause, Send, ResumeCommands
<1>3. at' \in Paused
  BY <1>1 DEF Onward, Serving, Paused
<1>4. AnnouncedInv'
  BY <1>1, <1>2, <1>3 DEF AnnouncedInv, AnnouncedState, Over, Paused, Location
<1>5. /\ Head(inbound) \in WithCommand({"Pause"})
      /\ Head(inbound) \notin WithCommand(ResumeCommands)
  BY <1>1, HeadOfInbound DEF DapInv, WithCommand, Request, ResumeCommands
<1>6. Execution \in {"running", "stopped"} /\ Execution' = "stopped"
  BY <1>1, <1>3 DEF Execution, Serving, Paused, Over
<1>7. Dap!Serve
  BY <1>1, <1>2, <1>5, <1>6 DEF Dap!Serve, Dap!Becomes, Dap!After
<1>8. QED
  BY <1>4, <1>7 DEF DapStep, Dap!Next

LEMMA RequestStep ==
  ASSUME DapInv, HandleRequest
  PROVE  AnnouncedInv' /\ DapStep
<1>1. CASE HandleQuery \/ HandleVariables \/ HandleSetBreakpoints
  BY <1>1, AnswerIsServe DEF HandleQuery, HandleVariables, HandleSetBreakpoints, Take,
    ResumeCommands, stateVars
<1>2. CASE HandlePause
  BY <1>2, PauseIsServe
<1>3. CASE HandleContinue \/ HandleStepOut
  BY <1>3, ResumeIsServe DEF HandleContinue, HandleStepOut, Take, ResumeCommands
<1>4. CASE HandleStep
  <2>1. /\ Serving
        /\ inbound # << >> /\ inbound' = Tail(inbound)
        /\ Head(inbound).cmd \in ResumeCommands
    BY <1>4 DEF HandleStep, Take, ResumeCommands
  <2>2. CASE HasCodeLocation(current_statement_idx)
    BY <1>4, <2>1, <2>2, ResumeIsServe DEF HandleStep
  <2>3. CASE ~ HasCodeLocation(current_statement_idx)
    <3>1. Drop(<< >>, "panicked") /\ UNCHANGED execution_stopped
      BY <1>4, <2>3 DEF HandleStep
    <3>2. at \notin Over /\ "panicked" \in Over
      BY <2>1 DEF Serving, Paused, Over
    <3>3. QED
      BY <2>1, <3>1, <3>2, FarewellTold, DropIsEnd DEF DapInv
  <2>4. QED
    BY <2>2, <2>3
<1>5. CASE HandleDisconnect
  <2>1. /\ Drop(<<Response(Head(inbound))>>, "gone") /\ UNCHANGED execution_stopped
        /\ inbound # << >> /\ inbound' = Tail(inbound)
        /\ Head(inbound).cmd \notin ResumeCommands
    BY <1>5 DEF HandleDisconnect, Take, stateVars, ResumeCommands
  <2>2. at \notin Over /\ "gone" \in Over
    BY <1>5 DEF HandleDisconnect, Serving, Paused, Over
  <2>3. QED
    BY <2>1, <2>2, FarewellTold, DropIsEnd DEF DapInv
<1>6. CASE HandleRefused
  <2>1. PICK how \in Over : Drop(<< >>, how)
    BY <1>6 DEF HandleRefused, Over
  <2>2. /\ UNCHANGED execution_stopped
        /\ inbound # << >> /\ inbound' = Tail(inbound)
        /\ at \notin Over
    BY <1>6 DEF HandleRefused, Take, stateVars, Serving, Paused, Over
  <2>3. QED
    BY <2>1, <2>2, FarewellTold, DropIsEnd DEF DapInv
<1>7. QED
  BY <1>1, <1>2, <1>3, <1>4, <1>5, <1>6 DEF HandleRequest

LEMMA InitStep ==
  ASSUME DapInv, InitSetBreakpoints \/ InitAnswered \/ InitConfigurationDone
  PROVE  AnnouncedInv' /\ DapStep
<1>1. /\ at = "init"
      /\ inbound # << >> /\ inbound' = Tail(inbound)
      /\ Head(inbound).cmd \in {"SetBreakpoints", "Initialize", "Launch", "ConfigurationDone"}
      /\ UNCHANGED execution_stopped
      /\ at' = IF Head(inbound).cmd = "ConfigurationDone" THEN "vm" ELSE "init"
  BY DEF InitSetBreakpoints, InitAnswered, InitConfigurationDone, Take, stateVars
<1>2. announced' = announced
  <2>1. CASE InitSetBreakpoints \/ InitConfigurationDone
    BY <2>1, <1>1, ResponseTold DEF InitSetBreakpoints, InitConfigurationDone, Send,
      ResumeCommands
  <2>2. CASE InitAnswered
    <3> DEFINE r == Response(Head(inbound))
    <3>1. PICK q \in {<<r>>, <<Event("initialized"), r>>} : announced' = Told(q)
      BY <2>2 DEF InitAnswered, Send
    <3>2. Tells(r) = "nothing" /\ Tells(Event("initialized")) = "nothing"
      BY <1>1, MessagesTell DEF ResumeCommands
    <3> HIDE DEF r
    <3>3. \A j \in DOMAIN q : q[j] \in {r, Event("initialized")}
      BY <3>1
    <3>4. QED
      BY <3>1, <3>2, <3>3, NothingTold
  <2>3. QED
    BY <2>1, <2>2
<1>3. AnnouncedInv'
  BY <1>1, <1>2 DEF DapInv, AnnouncedInv, AnnouncedState, Over, Paused, Location
<1>4. Head(inbound) \in Request
  BY <1>1, HeadOfInbound DEF DapInv
<1>5. Dap!Serve
  BY <1>1, <1>2, <1>4 DEF DapInv, AnnouncedInv, AnnouncedState, Dap!Serve, Dap!Becomes, Dap!After,
    Execution, WithCommand, Over, Paused, Request, ResumeCommands
<1>6. QED
  BY <1>3, <1>5 DEF DapStep, Dap!Next

LEMMA BreakStep ==
  ASSUME DapInv, maybe_handle_breakpoint_hit \/ maybe_handle_step_action
  PROVE  AnnouncedInv' /\ DapStep
<1>1. at \in {"breakpoint", "step"} /\ inbound' = inbound
  BY DEF maybe_handle_breakpoint_hit, maybe_handle_step_action
<1>2. CASE \E reason, where : where \in Paused /\ pause_and_process_requests(reason, where)
  <2>1. /\ announced' = "stopped"
        /\ execution_stopped' = TRUE
        /\ at' \in Paused
    BY <1>2, StopTold DEF pause_and_process_requests, Send
  <2>2. AnnouncedInv'
    BY <2>1 DEF AnnouncedInv, AnnouncedState, Over, Paused, Location
  <2>3. Dap!Stop
    BY <1>1, <2>1 DEF Dap!Stop, Dap!Becomes, Execution, Paused, Over
  <2>4. QED
    BY <2>2, <2>3 DEF DapStep, Dap!Next
<1>3. CASE at' \in {"step", "poll"} /\ UNCHANGED <<announced, execution_stopped>>
  <2>1. AnnouncedInv'
    BY <1>1, <1>3 DEF DapInv, AnnouncedInv, AnnouncedState, Over, Paused, Location
  <2>2. UNCHANGED Execution
    BY <1>1, <1>3 DEF Execution, Over, Paused
  <2>3. QED
    BY <1>1, <1>3, <2>1, <2>2 DEF DapStep
<1>4. CASE Drop(<< >>, "panicked") /\ UNCHANGED execution_stopped
  <2>1. at \notin Over /\ "panicked" \in Over
    BY <1>1 DEF Over
  <2>2. QED
    BY <1>1, <1>4, <2>1, FarewellTold, DropIsEnd DEF DapInv
<1>5. QED
  BY <1>2, <1>3, <1>4 DEF maybe_handle_breakpoint_hit, maybe_handle_step_action, Paused

LEMMA EndStep ==
  ASSUME DapInv, InitRefused \/ InboundClosed \/ SendFails
  PROVE  AnnouncedInv' /\ DapStep
<1>1. /\ Drop(<< >>, "gone") /\ UNCHANGED execution_stopped
      /\ inbound' = inbound \/ (inbound # << >> /\ inbound' = Tail(inbound))
      /\ at \notin Over /\ "gone" \in Over
  BY DEF InitRefused, InboundClosed, SendFails, stateVars, Serving, Paused, Over
<1>2. QED
  BY <1>1, FarewellTold, DropIsEnd DEF DapInv

(* The VM, the hook where it serves no request, and the client.            *)
LEMMA VmStep ==
  ASSUME DapInv, \/ PreStepSkips \/ PreStepEnters \/ NothingToPoll \/ RunVm \/ VmStops
  PROVE  AnnouncedInv' /\ DapStep
<1>1. at \in {"vm", "poll"} /\ inbound' = inbound /\ UNCHANGED execution_stopped
  BY DEF PreStepSkips, PreStepEnters, NothingToPoll, RunVm, VmStops, sessionVars, stateVars
<1>2. CASE at' \in Over /\ Send(Farewell)
  <2>1. announced' = "over"
    BY <1>2, FarewellTold DEF Send
  <2>2. AnnouncedInv'
    BY <1>1, <1>2, <2>1 DEF DapInv, AnnouncedInv, AnnouncedState, Over, Paused, Location
  <2>3. Dap!End
    BY <1>1, <1>2, <2>1 DEF Dap!End, Dap!Becomes, Execution, Over, Paused
  <2>4. QED
    BY <2>2, <2>3 DEF DapStep, Dap!Next
<1>3. CASE at' \in {"vm", "poll", "breakpoint"} /\ UNCHANGED announced
  <2>1. AnnouncedInv'
    BY <1>1, <1>3 DEF DapInv, AnnouncedInv, AnnouncedState, Over, Paused, Location
  <2>2. UNCHANGED Execution
    BY <1>1, <1>3 DEF Execution, Over, Paused
  <2>3. QED
    BY <1>1, <1>3, <2>1, <2>2 DEF DapStep
<1>4. QED
  BY <1>1, <1>2, <1>3 DEF PreStepSkips, PreStepEnters, NothingToPoll, RunVm, VmStops, sessionVars,
    Over

LEMMA ClientStep ==
  ASSUME DapInv, ClientSends \/ InboundCloses \/ UNCHANGED allVars
  PROVE  AnnouncedInv' /\ DapStep
<1>1. UNCHANGED <<at, execution_stopped, announced>>
  BY DEF ClientSends, InboundCloses, allVars, sessionVars, stateVars
<1>2. AnnouncedInv' /\ UNCHANGED Execution
  BY <1>1 DEF DapInv, AnnouncedInv, AnnouncedState, Execution
<1>3. CASE ClientSends
  <2>1. Execution # "over"
    BY <1>3 DEF ClientSends, Execution, Paused, Over
  <2>2. Dap!Ask
    BY <1>1, <1>2, <1>3, <2>1 DEF ClientSends, Dap!Ask, Request
  <2>3. QED
    BY <1>2, <2>2 DEF DapStep, Dap!Next
<1>4. CASE UNCHANGED inbound
  BY <1>1, <1>2, <1>4 DEF DapStep
<1>5. QED
  BY <1>3, <1>4 DEF InboundCloses, allVars, sessionVars

LEMMA DapInductive ==
  ASSUME DapInv, [SessionNext]_allVars
  PROVE  DapInv' /\ DapStep
<1>1. AnnouncedInv' /\ DapStep
  BY RequestStep, InitStep, BreakStep, EndStep, VmStep, ClientStep DEF SessionNext, DebuggerStep
<1>2. InboundType'
  BY InboundTypeInductive DEF DapInv
<1>3. QED
  BY <1>1, <1>2 DEF DapInv

LEMMA DapInit == SessionInit => DapInv /\ Dap!Init
<1> SUFFICES ASSUME SessionInit PROVE DapInv /\ Dap!Init
  OBVIOUS
<1>1. InboundType
  BY InboundTypeInit
<1>2. QED
  BY <1>1 DEF SessionInit, DapInv, AnnouncedInv, AnnouncedState, InboundType, Dap!Init, Execution,
    Over, Paused, Location, Request

(* Whatever the program and the client: the client is told of every stop,  *)
(* every resumption and the end, and the debugger waits for a request that *)
(* resumes exactly while the client has been told that it is stopped.      *)
THEOREM Announced == SessionSpec => []AnnouncedState
<1>1. DapInv => AnnouncedState
  BY DEF DapInv, AnnouncedInv
<1>2. DapInv /\ [SessionNext]_allVars => DapInv'
  BY DapInductive
<1>3. SessionInit => DapInv
  BY DapInit
<1>4. QED
  BY <1>1, <1>2, <1>3, PTL DEF SessionSpec

(* A session is what DapSession promises: requests are taken in order, and *)
(* a stopped program goes on by a request that resumes and nothing else.   *)
THEOREM SessionImplementsDap == SessionSpec => ImplementsDapSession
<1>1. SessionInit => DapInv /\ Dap!Init
  BY DapInit
<1>2. DapInv /\ [SessionNext]_allVars => DapInv'
  BY DapInductive
<1>3. DapInv /\ [SessionNext]_allVars => [Dap!Next]_(Dap!dapVars)
  BY DapInductive DEF DapStep, Dap!dapVars
<1>4. QED
  BY <1>1, <1>2, <1>3, PTL DEF SessionSpec, ImplementsDapSession, Dap!Spec
=============================================================================
