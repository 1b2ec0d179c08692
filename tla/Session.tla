------------------------------ MODULE Session ------------------------------
(***************************************************************************)
(* A debugging session: the debugger of src/debugger.rs with its State     *)
(* (src/debugger/state.rs) and request handlers (src/debugger/handler.rs), *)
(* between the VM that calls its hooks and a client that sends requests at *)
(* any time.  The debugger and the VM are one thread; the I/O threads of   *)
(* src/connection.rs turn the connection into two unbounded FIFO queues.   *)
(*                                                                         *)
(* The module extends CallStack: whatever the debugger does with the call  *)
(* stack is an action of CallStack, taken when the control location `at'   *)
(* lets it.                                                                *)
(***************************************************************************)
EXTENDS CallStack, SequencesExt

CONSTANTS
  Requests,    \* the requests the client may send
  Files,       \* the source files a client may set breakpoints in
  Handshakes,  \* the sequences of requests it starts with
  Polite,      \* it resumes the execution only when told that it is stopped
  MaxRequests  \* bound: how many requests it sends after the handshake

HandshakeRequests == UNION {ToSet(h) : h \in Handshakes}

ASSUME SessionAssumption ==
  /\ MaxRequests \in Nat
  /\ \A r \in Requests \union HandshakeRequests :
       /\ r.cmd = "SetBreakpoints" => r.source \in Files
       /\ r.cmd = "Variables" => r.ref \in References
  /\ Handshakes \subseteq Seq(HandshakeRequests)
  /\ MaxRefs > MaxRequests
  /\ Polite \in BOOLEAN

VARIABLES
  at,                   \* where the debugger's thread is, see Location
  configuration_done,
  execution_stopped,
  breakpoints,          \* per source: the statements to stop at
  last_breakpoint_hit,
  step_action,
  inbound,              \* requests received and not handled yet
  inbound_open,         \* the reader thread still runs
  announced,            \* what the messages sent so far tell the client
  budget,               \* bound: requests the client may still send
  resumption,           \* ghost: the request that last resumed the execution
  wanted,               \* ghost: per source, the lines last asked for
  last_stop             \* ghost: where the last breakpoint stop was

stateVars == <<configuration_done, execution_stopped, breakpoints, last_breakpoint_hit,
               step_action>>

ghostVars == <<resumption, wanted, last_stop>>

clientVars == <<inbound_open, budget>>

sessionVars == <<at, stateVars, inbound, clientVars, announced, ghostVars>>

allVars == <<vars, sessionVars>>

(* "init": the loop of initialize; "vm": the VM runs, or a hook that does  *)
(* not get as far as serving requests; then the stages of                  *)
(* sync_with_vm_pre_step at a new statement, each of the three with its    *)
(* process_until_resume; "gone": the debugger is dropped, "panicked": by   *)
(* the unwinding of a panic.                                               *)
Paused == {"breakpoint_paused", "step_paused", "poll_paused"}

Over == {"gone", "panicked"}

Location == {"init", "vm", "breakpoint", "step", "poll"} \union Paused \union Over

----------------------------------------------------------------------------
(* Messages.  Of the events and responses sent, which the outbound channel *)
(* delivers in this order, only what they tell the client matters here.    *)

Stopped(reason) == [kind |-> "event", name |-> "stopped", reason |-> reason]

Event(name) == [kind |-> "event", name |-> name]

Response(request) == [kind |-> "response", name |-> request.cmd]

Farewell == <<Event("terminated"), Event("exited")>>

ResumeCommands == {"Continue", "Next", "StepIn", "StepOut"}

(* What a message tells the client of the execution.                       *)
Tells(message) ==
  IF message.kind = "response"
  THEN IF message.name \in ResumeCommands THEN "running" ELSE "nothing"
  ELSE IF message.name = "stopped" THEN "stopped"
  ELSE IF message.name = "terminated" THEN "over" ELSE "nothing"

(* The last message that tells something counts.                           *)
Told(messages) ==
  LET telling == {i \in DOMAIN messages : Tells(messages[i]) # "nothing"}
  IN  IF telling = {} THEN announced
      ELSE Tells(messages[CHOOSE i \in telling : \A j \in telling : j <= i])

Send(messages) == announced' = Told(messages)
----------------------------------------------------------------------------
(* Steps, breakpoints. *)

NoStep == [kind |-> "none", prev_line |-> 0, depth |-> 0]

StepIn(line) == [kind |-> "StepIn", prev_line |-> line, depth |-> 0]

StepOver(line, d) == [kind |-> "Next", prev_line |-> line, depth |-> d]

StepOut(d) == [kind |-> "StepOut", prev_line |-> 0, depth |-> d]

StepIsOver_at_any_depth(action, line, d) ==
  \/ action.kind \in {"StepIn", "Next"} /\ action.prev_line # line
  \/ action.kind = "StepOut" /\ action.depth > d

StepIsOver_at_depth_for_all(action, line, d) ==
  \/ action.kind \in {"StepIn", "Next"} /\ action.depth >= d /\ action.prev_line # line
  \/ action.kind = "StepOut" /\ action.depth > d

(* Whether a step action is over on line `line' at depth d.                *)
StepIsOver(action, line, d) ==
  \/ action.kind = "StepIn" /\ action.prev_line # line
  \/ action.kind = "Next" /\ action.depth >= d /\ action.prev_line # line
  \/ action.kind = "StepOut" /\ action.depth > d

has_step_action_happened ==
  HasCodeLocation(current_statement_idx) /\
  StepIsOver(step_action, Line(current_statement_idx), depth(current_statement_idx))

NoHit == [location |-> UnknownLocation]

NoStop == [location |-> UnknownLocation]

(* The breakpoint hit at the current statement: its location and what the  *)
(* user would see, the stack trace and the variables.                      *)
BreakpointHit ==
  [location |-> code_location_for_statement_idx(current_statement_idx),
   ui_state |-> [stack_trace |-> get_frames(current_statement_idx),
                 values_of_variables |-> get_current_function_variables]]

AtBreakpoint == current_statement_idx \in UNION {breakpoints[f] : f \in Files}

was_breakpoint_hit ==
  /\ AtBreakpoint
  /\ HasCodeLocation(current_statement_idx)
  /\ last_breakpoint_hit # BreakpointHit

(* Ghosts: which activation of which function the VM is in, and how deep   *)
(* its stack of Cairo frames is.                                           *)
VmPath == [i \in DOMAIN rets |-> rets[i].call]

CurrentLocation ==
  IF HasCodeLocation(pc) THEN code_location_for_statement_idx(pc) ELSE UnknownLocation

(* The frames that the first n of the suspended activations stand for.     *)
VmFrames(n) == UNION {{i} \X DOMAIN FrameLocations(rets[i].call) : i \in 1..n}

VmDepth == Cardinality(VmFrames(Len(rets))) + Len(FrameLocations(pc))

----------------------------------------------------------------------------
(* Receiving requests, leaving the hook. *)

Take(commands) ==
  /\ inbound # << >>
  /\ Head(inbound).cmd \in commands
  /\ inbound' = Tail(inbound)

(* The debugger is dropped: the pre-step hook, or initialize, returns an   *)
(* error, or a panic unwinds.  Either way the VM stops.                    *)
Drop(messages, how) ==
  /\ HookError
  /\ Send(messages \o Farewell)
  /\ at' = how

(* A handler that involves neither the VM nor the call stack.              *)
SameProgram == UNCHANGED vars

----------------------------------------------------------------------------
(* The requests of the initialization. *)

(* The statements set for a source, lines counted from 1 by the client.    *)
verify_and_set_breakpoints(source, lines) ==
  UNION {statement_idxs_for_breakpoint(source, l - 1) : l \in lines}

handle_set_breakpoints_without_clear ==
  LET r == Head(inbound)
  IN  /\ breakpoints' = [breakpoints EXCEPT ![r.source] =
                           @ \union verify_and_set_breakpoints(r.source, r.lines)]
      /\ wanted' = [wanted EXCEPT ![r.source] = {l - 1 : l \in r.lines}]

(* What was set for the source before is cleared.                          *)
handle_set_breakpoints ==
  LET r == Head(inbound)
  IN  /\ breakpoints' = [breakpoints EXCEPT ![r.source] =
                           verify_and_set_breakpoints(r.source, r.lines)]
      /\ wanted' = [wanted EXCEPT ![r.source] = {l - 1 : l \in r.lines}]

InitSetBreakpoints ==
  /\ at = "init"
  /\ Take({"SetBreakpoints"})
  /\ handle_set_breakpoints
  /\ Send(<<Response(Head(inbound))>>)
  /\ SameProgram
  /\ UNCHANGED <<at, configuration_done, execution_stopped, last_breakpoint_hit, step_action,
                 clientVars, resumption, last_stop>>

(* "Launch" stands for SetExceptionBreakpoints too: answered, ignored.     *)
InitAnswered ==
  /\ at = "init"
  /\ Take({"Initialize", "Launch"})
  /\ Send(IF Head(inbound).cmd = "Initialize"
          THEN <<Event("initialized"), Response(Head(inbound))>>
          ELSE <<Response(Head(inbound))>>)
  /\ SameProgram
  /\ UNCHANGED <<at, stateVars, clientVars, ghostVars>>

(* The runner starts the VM once initialize has returned.                  *)
InitConfigurationDone ==
  /\ at = "init"
  /\ Take({"ConfigurationDone"})
  /\ configuration_done' = TRUE
  /\ at' = "vm"
  /\ Send(<<Response(Head(inbound))>>)
  /\ SameProgram
  /\ UNCHANGED <<execution_stopped, breakpoints, last_breakpoint_hit, step_action,
                 clientVars, ghostVars>>

InitRefused ==
  /\ at = "init"
  /\ inbound # << >>
  /\ Head(inbound).cmd \notin {"Initialize", "Launch", "SetBreakpoints", "ConfigurationDone"}
  /\ inbound' = Tail(inbound)
  /\ Drop(<< >>, "gone")
  /\ UNCHANGED <<stateVars, clientVars, ghostVars>>

----------------------------------------------------------------------------
(* The requests of a running session, taken by try_next_request ("poll")   *)
(* or by process_until_resume.                                             *)

Serving_without_pause == at \in {"breakpoint_paused", "step_paused", "poll"}

Serving == at \in Paused \union {"poll"}

Onward_without_step(stopped) ==
  at' = IF stopped THEN (IF at = "poll" THEN "poll_paused" ELSE at) ELSE "poll"

(* process_until_resume with an `if' for its `while'.                      *)
Onward_after_one_request(stopped) ==
  at' = IF at = "breakpoint_paused" THEN "step"
        ELSE IF at = "poll" /\ stopped THEN "poll_paused" ELSE "poll"

(* Where the thread is once a request is processed, given whether the      *)
(* execution is stopped then.                                              *)
Onward(stopped) ==
  at' = IF stopped THEN (IF at = "poll" THEN "poll_paused" ELSE at)
        ELSE IF at = "breakpoint_paused" THEN "step" ELSE "poll"

(* Threads, StackTrace, Scopes, Evaluate, Launch, SetExceptionBreakpoints, *)
(* and SetBreakpoints without a list of breakpoints.                       *)
HandleQuery ==
  /\ Serving
  /\ Take({"Query", "Launch"})
  /\ Send(<<Response(Head(inbound))>>)
  /\ Onward(execution_stopped)
  /\ SameProgram
  /\ UNCHANGED <<stateVars, clientVars, ghostVars>>

HandleVariables ==
  /\ Serving
  /\ Take({"Variables"})
  /\ get_variables(Head(inbound).ref)
  /\ Send(<<Response(Head(inbound))>>)
  /\ Onward(execution_stopped)
  /\ UNCHANGED <<stateVars, clientVars, ghostVars>>

HandleSetBreakpoints ==
  /\ Serving
  /\ Take({"SetBreakpoints"})
  /\ handle_set_breakpoints
  /\ Send(<<Response(Head(inbound))>>)
  /\ Onward(execution_stopped)
  /\ SameProgram
  /\ UNCHANGED <<configuration_done, execution_stopped, last_breakpoint_hit, step_action,
                 clientVars, resumption, last_stop>>

HandlePause_without_stop ==
  /\ Serving
  /\ Take({"Pause"})
  /\ Send(<<Stopped("pause"), Response(Head(inbound))>>)
  /\ Onward(execution_stopped)
  /\ SameProgram
  /\ UNCHANGED <<stateVars, clientVars, ghostVars>>

HandlePause ==
  /\ Serving
  /\ Take({"Pause"})
  /\ execution_stopped' = TRUE
  /\ Send(<<Stopped("pause"), Response(Head(inbound))>>)
  /\ Onward(TRUE)
  /\ SameProgram
  /\ UNCHANGED <<configuration_done, breakpoints, last_breakpoint_hit, step_action,
                 clientVars, ghostVars>>

(* resume_execution and the answer to a request that resumes, with the     *)
(* step action the request leaves.                                         *)
Resume(action) ==
  /\ execution_stopped' = FALSE
  /\ step_action' = action
  /\ Send(<<Response(Head(inbound))>>)
  /\ Onward(FALSE)
  /\ resumption' = [cmd |-> Head(inbound).cmd, depth |-> VmDepth, from |-> CurrentLocation]
  /\ SameProgram

HandleContinue ==
  /\ Serving
  /\ Take({"Continue"})
  /\ Resume(step_action)
  /\ UNCHANGED <<configuration_done, breakpoints, last_breakpoint_hit,
                 clientVars, wanted, last_stop>>

(* Next and StepIn unwrap the line of the current statement.               *)
HandleStep ==
  /\ Serving
  /\ Take({"Next", "StepIn"})
  /\ IF HasCodeLocation(current_statement_idx)
     THEN LET line == Line(current_statement_idx)
          IN  Resume(IF Head(inbound).cmd = "Next"
                     THEN StepOver(line, depth(current_statement_idx))
                     ELSE StepIn(line))
     ELSE /\ Drop(<< >>, "panicked")
          /\ UNCHANGED <<execution_stopped, step_action, resumption>>
  /\ UNCHANGED <<configuration_done, breakpoints, last_breakpoint_hit,
                 clientVars, wanted, last_stop>>

HandleStepOut ==
  /\ Serving
  /\ Take({"StepOut"})
  /\ Resume(IF depth(current_statement_idx) > 0
            THEN StepOut(depth(current_statement_idx))
            ELSE step_action)
  /\ UNCHANGED <<configuration_done, breakpoints, last_breakpoint_hit,
                 clientVars, wanted, last_stop>>

HandleDisconnect ==
  /\ Serving
  /\ Take({"Disconnect"})
  /\ Drop(<<Response(Head(inbound))>>, "gone")
  /\ UNCHANGED <<stateVars, clientVars, ghostVars>>

(* Requests of the initialization, requests that are not supported, and    *)
(* SetBreakpoints without a path are errors; Source is a todo!().          *)
HandleRefused ==
  /\ Serving
  /\ Take({"Initialize", "ConfigurationDone", "Unsupported", "Source"})
  /\ Drop(<< >>, IF Head(inbound).cmd = "Source" THEN "panicked" ELSE "gone")
  /\ UNCHANGED <<stateVars, clientVars, ghostVars>>

InboundClosed_in_init_only ==
  /\ at = "init"
  /\ inbound = << >> /\ ~ inbound_open
  /\ Drop(<< >>, "gone")
  /\ UNCHANGED <<inbound, stateVars, clientVars, ghostVars>>

(* next_request and try_next_request fail once the inbound channel is      *)
(* closed and drained.                                                     *)
InboundClosed ==
  /\ at = "init" \/ Serving
  /\ inbound = << >> /\ ~ inbound_open
  /\ Drop(<< >>, "gone")
  /\ UNCHANGED <<inbound, stateVars, clientVars, ghostVars>>

HandleRequest ==
  \/ HandleQuery
  \/ HandleVariables
  \/ HandleSetBreakpoints
  \/ HandlePause
  \/ HandleContinue
  \/ HandleStep
  \/ HandleStepOut
  \/ HandleDisconnect
  \/ HandleRefused

----------------------------------------------------------------------------
(* sync_with_vm_pre_step and the VM. *)

(* update_state breaks off.                                                *)
PreStepSkips ==
  /\ at = "vm"
  /\ SkipInstruction
  /\ UNCHANGED sessionVars

PreStepEnters ==
  /\ at = "vm"
  /\ EnterStatement
  /\ IF phase' = "panicked"
     THEN at' = "panicked" /\ Send(Farewell)
     ELSE at' = "breakpoint" /\ UNCHANGED announced
  /\ UNCHANGED <<stateVars, inbound, clientVars, ghostVars>>

(* stop_execution and the event, before process_until_resume.              *)
pause_and_process_requests(reason, where) ==
  /\ execution_stopped' = TRUE
  /\ Send(<<Stopped(reason)>>)
  /\ at' = where

(* was_breakpoint_hit expects a statement with a breakpoint to have a code *)
(* location.                                                               *)
maybe_handle_breakpoint_hit ==
  /\ at = "breakpoint"
  /\ IF AtBreakpoint /\ ~ HasCodeLocation(current_statement_idx)
     THEN /\ Drop(<< >>, "panicked")
          /\ UNCHANGED <<last_breakpoint_hit, last_stop, execution_stopped>>
     ELSE /\ IF was_breakpoint_hit
             THEN /\ last_breakpoint_hit' = BreakpointHit
                  /\ last_stop' = [path |-> VmPath, location |-> CurrentLocation]
                  /\ pause_and_process_requests("breakpoint", "breakpoint_paused")
             ELSE /\ at' = "step"
                  /\ UNCHANGED <<last_breakpoint_hit, last_stop, execution_stopped, announced>>
          /\ SameProgram
  /\ UNCHANGED <<configuration_done, breakpoints, step_action, inbound, clientVars,
                 resumption, wanted>>

maybe_handle_step_action ==
  /\ at = "step"
  /\ IF has_step_action_happened
     THEN /\ step_action' = NoStep
          /\ pause_and_process_requests("step", "step_paused")
     ELSE /\ at' = "poll"
          /\ UNCHANGED <<step_action, execution_stopped, announced>>
  /\ SameProgram
  /\ UNCHANGED <<configuration_done, breakpoints, last_breakpoint_hit, inbound, clientVars,
                 ghostVars>>

(* The response to a request or the event of a stop cannot be sent, since  *)
(* the writer has ended at a stream the client has closed.  Whatever else  *)
(* the handler did is dropped with the debugger.                           *)
SendFails ==
  /\ ~ inbound_open
  /\ \/ /\ at = "init" \/ Serving
        /\ inbound # << >>
        /\ inbound' = Tail(inbound)
     \/ at = "breakpoint" /\ was_breakpoint_hit /\ UNCHANGED inbound
     \/ at = "step" /\ has_step_action_happened /\ UNCHANGED inbound
  /\ Drop(<< >>, "gone")
  /\ UNCHANGED <<stateVars, clientVars, ghostVars>>

(* No request is waiting: the hook returns.                                *)
NothingToPoll ==
  /\ at = "poll"
  /\ inbound = << >> /\ inbound_open
  /\ FinishPreStep
  /\ at' = "vm"
  /\ UNCHANGED <<stateVars, inbound, clientVars, announced, ghostVars>>

RunVm ==
  /\ at = "vm"
  /\ ExecuteInstruction \/ update_post_step
  /\ UNCHANGED sessionVars

(* The VM loop is over, with or without an error: the runner drops it, and *)
(* the debugger with it.                                                   *)
VmStops ==
  /\ at = "vm"
  /\ VmEnd \/ VmError
  /\ at' = "gone"
  /\ Send(Farewell)
  /\ UNCHANGED <<stateVars, inbound, clientVars, ghostVars>>

----------------------------------------------------------------------------
(* The client and the reader thread. *)

ClientSends ==
  /\ inbound_open
  /\ at \notin Over
  /\ budget > 0
  /\ \E r \in Requests :
       /\ Polite /\ r.cmd \in ResumeCommands =>
            /\ announced = "stopped"
            /\ \A i \in DOMAIN inbound : inbound[i].cmd \notin ResumeCommands
       /\ inbound' = Append(inbound, r)
  /\ budget' = budget - 1
  /\ UNCHANGED <<vars, at, stateVars, inbound_open, announced, ghostVars>>

(* The reader thread ends: the client has closed the connection, or sent   *)
(* something that is not a request.                                        *)
InboundCloses ==
  /\ inbound_open
  /\ at \notin Over
  /\ inbound_open' = FALSE
  /\ UNCHANGED <<vars, at, stateVars, inbound, budget, announced, ghostVars>>

----------------------------------------------------------------------------
SessionInit ==
  /\ Init
  /\ at = "init"
  /\ configuration_done = FALSE
  /\ execution_stopped = FALSE
  /\ breakpoints = [f \in Files |-> {}]
  /\ last_breakpoint_hit = NoHit
  /\ step_action = NoStep
  /\ inbound \in Handshakes
  /\ inbound_open = TRUE
  /\ announced = "running"
  /\ budget = MaxRequests
  /\ resumption = [cmd |-> "ConfigurationDone", depth |-> 0, from |-> UnknownLocation]
  /\ wanted = [f \in Files |-> {}]
  /\ last_stop = NoStop

(* The debugger's thread, the VM included.                                 *)
DebuggerStep ==
  \/ InitSetBreakpoints
  \/ InitAnswered
  \/ InitConfigurationDone
  \/ InitRefused
  \/ HandleRequest
  \/ InboundClosed
  \/ PreStepSkips
  \/ PreStepEnters
  \/ maybe_handle_breakpoint_hit
  \/ maybe_handle_step_action
  \/ NothingToPoll
  \/ SendFails
  \/ RunVm
  \/ VmStops

SessionNext ==
  \/ DebuggerStep
  \/ ClientSends
  \/ InboundCloses

SessionSpec == SessionInit /\ [][SessionNext]_allVars

(***************************************************************************)
(* Fairness: the debugger's thread is scheduled, and the VM gets on: code  *)
(* outside of the program area comes back, the CASM of a statement is      *)
(* finite, and once the main function has returned the runner stops the    *)
(* VM.  Nothing is assumed of the client.                                  *)
(***************************************************************************)
VmComesBack == RunVm /\ VmOutside /\ mapped'

VmLeavesStatement ==
  /\ RunVm
  /\ \/ VmBranch
     \/ VmCall
     \/ VmReturn
     \/ VmHalt

Fairness ==
  /\ WF_allVars(DebuggerStep)
  /\ SF_allVars(VmComesBack)
  /\ SF_allVars(VmLeavesStatement)
  /\ SF_allVars(VmStops /\ VmEnd)

FairSpec == SessionSpec /\ Fairness

----------------------------------------------------------------------------
(* What the session is to its client.                                      *)

Execution ==
  IF at = "init" THEN "starting"
  ELSE IF at \in Paused THEN "stopped"
  ELSE IF at \in Over THEN "over" ELSE "running"

WithCommand(commands) == {r \in Requests \union HandshakeRequests : r.cmd \in commands}

Dap == INSTANCE DapSession WITH
         Request <- Requests \union HandshakeRequests,
         Configuring <- WithCommand({"ConfigurationDone"}),
         Resuming <- WithCommand(ResumeCommands),
         Pausing <- WithCommand({"Pause"}),
         requests <- inbound,
         execution <- Execution,
         told <- announced

----------------------------------------------------------------------------
(* Types. *)

CommandNames ==
  {"Initialize", "Launch", "ConfigurationDone", "SetBreakpoints", "Query", "Variables",
   "Pause", "Continue", "Next", "StepIn", "StepOut", "Disconnect", "Unsupported", "Source"}

SessionTypeOK ==
  /\ TypeOK
  /\ at \in Location
  /\ configuration_done \in BOOLEAN
  /\ execution_stopped \in BOOLEAN
  /\ breakpoints \in [Files -> SUBSET Casm]
  /\ step_action \in [kind : {"none", "StepIn", "Next", "StepOut"},
                      prev_line : Nat, depth : Nat]
  /\ inbound \in Seq(Requests \union HandshakeRequests)
  /\ inbound_open \in BOOLEAN
  /\ announced \in {"running", "stopped", "over"}
  /\ budget \in 0..MaxRequests
  /\ resumption \in [cmd : CommandNames, depth : Nat, from : CodeLocations]

----------------------------------------------------------------------------
(* Properties. *)

(* What the client has been told agrees with what the debugger does: it is *)
(* blocked for a request that resumes exactly when the execution is        *)
(* stopped, and exactly when the last message about it said "stopped"; the *)
(* client hears that the session is over exactly when it is.               *)
AnnouncedState ==
  /\ at \in Paused <=> announced = "stopped"
  /\ at \in Over <=> announced = "over"
  /\ at \in Paused => execution_stopped
  /\ execution_stopped => at \in Paused \union Over

(* A request never brings the debugger down by a panic: the unwraps of     *)
(* handler.rs:168 and 184, the expect of state.rs:126, the unwrap of       *)
(* call_stack.rs:485 hold.                                                 *)
SessionNoPanic == at # "panicked"

(* A step that was asked for stops where the VM, not the shadow stack, is: *)
(* after Next at the depth of Next or above it, never in a function called *)
(* meanwhile; after StepOut strictly above.                                *)
StepStopsAtItsDepth ==
  at = "step_paused" =>
    /\ resumption.cmd = "Next" => VmDepth <= resumption.depth
    /\ resumption.cmd = "StepOut" => VmDepth < resumption.depth

(* The VM never executes a statement at which a pending step was over by   *)
(* the VM's own depth: no step runs past its end, whatever stopped the     *)
(* execution in between.                                                   *)
NoStepIsMissed ==
  /\ at = "vm" /\ phase = "exec" /\ mapped
  /\ HasCodeLocation(pc)
  => ~ StepIsOver(step_action, Line(pc), VmDepth)

(* "The debugger will stop at each one in order" (guide.md:26): a line     *)
(* with a breakpoint, as the client last set them for its file, stops the  *)
(* execution whenever it is reached in another activation, or at another   *)
(* location, than the last breakpoint stop; no other line does.            *)
Wanted(s) ==
  /\ HasCodeLocation(s)
  /\ LET location == code_location_for_statement_idx(s)
     IN  location.file \in Files /\ location.line \in wanted[location.file]

BreakpointsAreHonoured ==
  [][at = "breakpoint" /\ at' \in {"breakpoint_paused", "step"} =>
       /\ at' = "breakpoint_paused" => Wanted(pc)
       /\ Wanted(pc) /\ last_stop # [path |-> VmPath, location |-> CurrentLocation]
            => at' = "breakpoint_paused"]_allVars

(* The stages of the hook, its three waits for requests and the messages   *)
(* on the way add up to the session a client expects: requests taken in    *)
(* order, a stopped program resumed by a request that resumes and by       *)
(* nothing else, every change announced as it happens.                     *)
ImplementsDapSession == Dap!Spec

(* And whatever the client has sent is handled, or the session ends: a     *)
(* request never waits for ever, be the execution stopped or running.      *)
ImplementsFairDapSession == Dap!FairSpec

(* A debugger whose client is gone does not wait for it for ever.          *)
SessionEnds == (~ inbound_open) ~> (at \in Over)

(* "Resume until the next breakpoint" (guide.md:41): what stops the        *)
(* execution after Continue is not a step that was asked for before.       *)
ContinueEndsSteps == at = "step_paused" => resumption.cmd # "Continue"

(* StepIn will "stop at the very next executable line" (handler.rs:182):   *)
(* while it is pending the VM executes no statement of another line.       *)
StepInStopsAtNextLine ==
  (at = "vm" /\ phase = "exec" /\ mapped /\ resumption.cmd = "StepIn"
     /\ step_action.kind = "StepIn" /\ HasCodeLocation(pc)) =>
    /\ CurrentLocation.file = resumption.from.file
    /\ CurrentLocation.line = resumption.from.line
=============================================================================
