------------------------- MODULE CallStackInvariant -------------------------
(***************************************************************************)
(* The inductive invariant behind the safety of CallStack: how the shadow  *)
(* stack, the statement the debugger thinks it is at and the pending       *)
(* action relate to the VM at each point of the VM loop.  It holds of the  *)
(* programs that satisfy NoTailRecursion.                                  *)
(***************************************************************************)
EXTENDS CallStack

(***************************************************************************)
(* What makes the types inductive.                                         *)
(***************************************************************************)

(* While requests are served there is a current function, whose variables  *)
(* can be listed.                                                          *)
FunctionKnown == phase = "handle" => current_context.last_executed_statement # NoStatement

(* Only calls suspend an activation; there is a statement to return to.    *)
CallsSuspended == \A i \in DOMAIN rets : is_function_call_statement(rets[i].call)

(* Substacks lie one after the other in the vector of frames.              *)
BasesOrdered ==
  \A i \in DOMAIN contexts :
    /\ contexts[i].base <= Len(frames)
    /\ \A j \in 1..i : contexts[j].base <= contexts[i].base

TypeInv == TypeOK /\ FunctionKnown /\ CallsSuspended /\ BasesOrdered

(***************************************************************************)
(* What ties the debugger to the VM.                                       *)
(***************************************************************************)

last_executed_statement == current_context.last_executed_statement

(* The call that entered the current activation, when rets # << >>.        *)
LastCall == rets[Len(rets)].call

(* The VM is at a statement the debugger has not seen, and the branch that *)
(* led there starts at the last one it saw in this function.               *)
Arriving ==
  /\ pc # current_statement_idx
  /\ last_executed_statement # pc
  /\ \/ last_executed_statement = NoStatement
     \/ \E b \in BranchTargets(last_executed_statement) : LeadsTo(b, pc)

(* The debugger has seen the statement the VM is at.                       *)
AtStatement == pc = current_statement_idx /\ pc = last_executed_statement

IsInvocation(s) == ~ is_function_call_statement(s) /\ ~ is_return_statement(s)

(* In between instructions with no action pending.                         *)
Settled == Arriving \/ (AtStatement /\ IsInvocation(pc)) \/ halted

(* The substack that a call from the current activation pushes.            *)
CallSubStack(a) ==
  SubStack(current_statement_idx, next_frame_id,
           FunctionVariables(sierra_function_for_statement(current_statement_idx), a,
                             current_context.post_statements_registers))

(* The action that update_pre_step leaves for the statement.               *)
ActionIsFor(s, a) ==
  /\ is_function_call_statement(s) =>
       action_on_new_statement = [kind |-> "push", substack |-> CallSubStack(a)]
  /\ is_return_statement(s) => action_on_new_statement.kind = "pop"
  /\ IsInvocation(s) => action_on_new_statement.kind = "none"

(* The call has been executed, the push has not.                           *)
PushPending ==
  /\ rets # << >>
  /\ Len(rets) = Len(contexts) + 1
  /\ is_function_call_statement(LastCall)
  /\ LastCall = current_statement_idx
  /\ LastCall = last_executed_statement
  /\ LeadsTo(Callee[LastCall], pc)
  /\ action_on_new_statement.substack = CallSubStack(rets[Len(rets)].arg)

(* The return has been executed, the pop has not.                          *)
PopPending ==
  \/ halted /\ rets = << >> /\ contexts = << >>
  \/ /\ Len(contexts) = Len(rets) + 1
     /\ pc # current_statement_idx
     /\ LET caller == contexts[Len(contexts)].context.last_executed_statement
        IN  /\ caller \in Statement
            /\ is_function_call_statement(caller)
            /\ LeadsTo(caller + 1, pc)

SameDepth == Len(contexts) = Len(rets)

(* One conjunct per phase.                                                 *)
PhaseInv ==
  /\ phase = "pre" => SameDepth /\ action_on_new_statement.kind = "none" /\ Settled
  /\ phase = "handle" => SameDepth /\ mapped /\ AtStatement /\ ActionIsFor(pc, arg)
  /\ phase = "exec" =>
       /\ SameDepth
       /\ mapped => AtStatement /\ ActionIsFor(pc, arg)
       /\ ~ mapped => Settled /\ action_on_new_statement.kind = "none"
  /\ phase = "post" =>
       /\ action_on_new_statement.kind = "none" => SameDepth /\ Settled
       /\ action_on_new_statement.kind = "push" => PushPending
       /\ action_on_new_statement.kind = "pop" => PopPending

(* Every activation was entered by the call below it.                      *)
CallsChain ==
  /\ rets # << >> => sierra_function_for_statement(pc) = Callee[LastCall]
  /\ \A i \in DOMAIN rets : i > 1 =>
       sierra_function_for_statement(rets[i].call) = Callee[rets[i - 1].call]

(* The contexts put aside are those of the activations suspended.          *)
ContextsMatch ==
  \A i \in DOMAIN contexts : i \in DOMAIN rets =>
    contexts[i].context.last_executed_statement = rets[i].call

HaltedOutside == halted => ~ mapped

StackInv == NoPanic /\ HaltedOutside /\ PhaseInv /\ CallsChain /\ ContextsMatch

(* The frames of a suspended activation are those of its call, with its    *)
(* variables.                                                              *)
Shown(i) ==
  SubStack(rets[i].call, MIN_OBJECT_REFERENCE + 2 * contexts[i].base,
    FunctionVariables(sierra_function_for_statement(rets[i].call), rets[i].arg,
                      contexts[i].context.post_statements_registers))

FramesMatch ==
  \A i \in DOMAIN contexts : i \in DOMAIN rets =>
    SubSeq(frames, SubStackStart(i), SubStackEnd(i)) = Shown(i)

IInv == TypeInv /\ StackInv /\ FramesMatch

(***************************************************************************)
(* What is read at a stop: the registry of references and the trace.       *)
(***************************************************************************)

nested_ref_start == current_context.nested_ref_start

RefStart(i) == contexts[i].context.nested_ref_start

(* References are given out in the order of the stack, above the scopes.   *)
StartsOrdered ==
  /\ nested_ref_start \in NESTED_VAR_REF_START..next_nested_ref
  /\ \A i \in DOMAIN contexts :
       /\ RefStart(i) \in NESTED_VAR_REF_START..nested_ref_start
       /\ \A j \in 1..i : RefStart(j) <= RefStart(i)
  /\ DOMAIN nested_var_registry \subseteq NESTED_VAR_REF_START..(next_nested_ref - 1)

VariablesBelow(n) == {frames[i].vars : i \in 1..n}

ShownOnly(variables) ==
  \A r \in DOMAIN nested_var_registry : nested_var_registry[r].of \in variables

(* The references of suspended functions are to variables of the frames    *)
(* below; those of the current one to variables it has, until they are     *)
(* pushed.                                                                 *)
RegistryMatches ==
  /\ \A i \in DOMAIN contexts : \A r \in DOMAIN nested_var_registry :
       r < RefStart(i) => nested_var_registry[r].of \in VariablesBelow(contexts[i].base)
  /\ \A r \in DOMAIN nested_var_registry :
       r < nested_ref_start => nested_var_registry[r].of \in VariablesBelow(Len(frames))
  /\ phase = "handle" =>
       ShownOnly(VariablesBelow(Len(frames)) \union {get_current_function_variables})
  /\ phase \in {"handle", "exec", "post"} /\ action_on_new_statement.kind = "push" =>
       LET pushed == action_on_new_statement.substack
       IN  ShownOnly(VariablesBelow(Len(frames)) \union {pushed[Len(pushed)].vars})

RegistryInv == StartsOrdered /\ RegistryMatches

(* The trace of a context once the hook has seen t.                        *)
Recorded(context, t) ==
  LET last == context.last_executed_statement
      hit  == hit_branch_entrance(last, t)
  IN  context.post_statements_registers \union
        (IF last = t THEN {}
         ELSE IF last = NoStatement
         THEN FallThrough(sierra_function_for_statement(t), t)
         ELSE {[stmt |-> last, target |-> hit]} \union FallThrough(hit + 1, t))

EmptyContext == SierraFunctionContext({}, NoStatement, next_nested_ref)

(* The trace is right, or will be once the hook has run.                   *)
TraceInv ==
  /\ \A i \in DOMAIN contexts : i \in DOMAIN rets =>
       Traces(contexts[i].context.post_statements_registers, rets[i].executed)
  /\ phase = "post" /\ action_on_new_statement.kind = "push" =>
       Traces(current_context.post_statements_registers, rets[Len(rets)].executed)
  /\ ~ halted =>
       /\ \/ phase \in {"pre", "handle", "exec"}
          \/ (phase = "post" /\ action_on_new_statement.kind = "none")
          => Traces(Recorded(current_context, pc), executed)
       /\ phase = "post" /\ action_on_new_statement.kind = "push" =>
            Traces(Recorded(EmptyContext, pc), executed)
       /\ phase = "post" /\ action_on_new_statement.kind = "pop" =>
            Traces(Recorded(contexts[Len(contexts)].context, pc), executed)

ReadInv == RegistryInv /\ TraceInv

(* Frames are at most as many as K for every activation suspended.         *)
FramesBounded(K) ==
  /\ Len(rets) <= MaxDepth
  /\ Len(contexts) <= MaxDepth
  /\ Len(frames) <= K * Len(contexts)
  /\ \A i \in DOMAIN contexts : contexts[i].base <= K * (i - 1)

(* "Nested variable references start above any realistic frame scope       *)
(* reference value" (call_stack.rs:27).                                    *)
StartsAboveScopes ==
  \A s \in Statement : 2 * (MaxDepth * Len(FrameLocations(s))) + 4 < NESTED_VAR_REF_START
=============================================================================
