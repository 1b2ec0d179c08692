-------------------------- MODULE SessionInvariant --------------------------
(***************************************************************************)
(* The inductive invariant behind the stops of a session: how the place    *)
(* the debugger's thread is at, the step action, the breakpoints and the   *)
(* depth of the shadow stack relate to the VM and to what the client asked *)
(* for.  It holds, like that of the call stack on top of which it is, of   *)
(* the programs that satisfy NoTailRecursion.                              *)
(***************************************************************************)
EXTENDS Session, CallStackInvariant

(* The hook is where the thread is; the VM runs when no one looks.         *)
PlaceOfHook ==
  /\ at = "init" => phase = "pre" /\ current_statement_idx = NoStatement
  /\ at \in {"breakpoint", "step"} \/ Serving => phase = "handle"
  /\ at = "vm" => phase \in {"pre", "exec", "post"}

(* The shadow stack has as many frames as the activations it shows.        *)
FramesCounted ==
  /\ \A i \in DOMAIN contexts : contexts[i].base = Cardinality(VmFrames(i - 1))
  /\ Len(contexts) <= Len(rets) => Len(frames) = Cardinality(VmFrames(Len(contexts)))

(* A step that is pending is the one last asked for, or one of before,     *)
(* interrupted by a breakpoint, after a Continue.                          *)
StepIsLast ==
  /\ resumption.cmd = "Next" =>
       step_action.kind = "none" \/ step_action = StepOver(step_action.prev_line, resumption.depth)
  /\ resumption.cmd = "StepOut" =>
       step_action.kind = "none" \/ step_action = StepOut(resumption.depth)

(* The step is not over at the statement the debugger has last looked at:  *)
(* it has checked.                                                         *)
StepIsChecked ==
  at \in {"vm", "poll", "step_paused", "poll_paused"} =>
    (pc = current_statement_idx /\ HasCodeLocation(pc) =>
       ~ StepIsOver(step_action, Line(pc), VmDepth))

(***************************************************************************)
(* Where a breakpoint stops.                                               *)
(***************************************************************************)

(* Two calls of a function are at different locations: a stack trace says  *)
(* which activations it is of.  The compiler does not promise it.          *)
CallsToldApart ==
  \A c, d \in Statement :
    /\ is_function_call_statement(c) /\ is_function_call_statement(d)
    /\ sierra_function_for_statement(c) = sierra_function_for_statement(d)
    /\ FrameLocations(c) = FrameLocations(d)
    => c = d

(* A stack trace shows a path of calls: their frames one after the other,  *)
(* those of one call with one id, and then those of a last function.       *)
PathFrames(path, n) == UNION {{i} \X DOMAIN FrameLocations(path[i]) : i \in 1..n}

Base(path, i) == Cardinality(PathFrames(path, i - 1))

Shows(stack_trace, path) ==
  /\ Base(path, Len(path) + 1) < Len(stack_trace)
  /\ \A k \in Base(path, Len(path) + 1) + 1..Len(stack_trace) :
       stack_trace[k].id = MIN_OBJECT_REFERENCE + 2 * Base(path, Len(path) + 1)
  /\ \A i \in DOMAIN path : \A k \in DOMAIN FrameLocations(path[i]) :
       stack_trace[Base(path, i) + k] =
         [id |-> MIN_OBJECT_REFERENCE + 2 * Base(path, i), at |-> FrameLocations(path[i])[k]]

(* The first call of a path is of the main function, each later one of the *)
(* function called before.                                                 *)
IsCallPath(path) ==
  /\ path \in Seq(Statement)
  /\ \A i \in DOMAIN path :
       /\ is_function_call_statement(path[i])
       /\ sierra_function_for_statement(path[i]) = IF i = 1 THEN Main ELSE Callee[path[i - 1]]

StartsInMain ==
  sierra_function_for_statement(IF rets = << >> THEN pc ELSE rets[1].call) = Main

(* The statements set are those of the lines asked for.                    *)
LinesAreSet ==
  \A f \in Files : breakpoints[f] = UNION {statement_idxs_for_breakpoint(f, l) : l \in wanted[f]}

(* The last breakpoint hit is what the client saw at the last stop.        *)
HitIsLastStop ==
  \/ last_breakpoint_hit = NoHit
  \/ /\ last_stop = [path |-> last_stop.path, location |-> last_breakpoint_hit.location]
     /\ IsCallPath(last_stop.path)
     /\ Shows(last_breakpoint_hit.ui_state.stack_trace, last_stop.path)

BreakpointInv == StartsInMain /\ LinesAreSet /\ HitIsLastStop

SessionInv ==
  /\ PlaceOfHook /\ FramesCounted
  /\ StepIsLast /\ StepIsChecked /\ StepStopsAtItsDepth
  /\ BreakpointInv
=============================================================================
