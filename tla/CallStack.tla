----------------------------- MODULE CallStack -----------------------------
(***************************************************************************)
(* The shadow call stack of src/debugger/state/call_stack.rs, driven by    *)
(* the two hooks the VM calls around every CASM instruction.  The debugger *)
(* cannot ask the VM which functions are active or which Sierra statements *)
(* were executed: it infers both from the sequence of program counters.    *)
(*                                                                         *)
(* `call_frames_and_vars' is kept here in two parts: `frames' is the       *)
(* flattened vector the comment at call_stack.rs:50 speaks of, `contexts'  *)
(* has one entry per substack, with the flat index where it starts.        *)
(*                                                                         *)
(* A definition named after another one, X_without_..., is X with a bug a  *)
(* change of the code could bring in.  None is part of the specification:  *)
(* they serve to see that the properties notice.                           *)
(***************************************************************************)
EXTENDS CasmVm

CONSTANTS
  NESTED_VAR_REF_START,  \* the first reference of a nested variable
  Nesting,               \* how many levels of a variable can be expanded
  References,            \* the references a client may ask for, shown to it or not
  MaxRefs                \* bound: nested references in use at once

ASSUME ReferenceAssumption ==
  /\ NESTED_VAR_REF_START \in Nat
  /\ Nesting \in Nat
  /\ MaxRefs \in Nat
  /\ References \subseteq Nat

MIN_OBJECT_REFERENCE == 1

VARIABLES
  phase,                  \* where the VM loop and its hooks are, see Phase
  current_statement_idx,
  frames,                 \* the frames of all substacks with their variables
  contexts,               \* per substack: its first flat index, its context
  current_context,        \* current_sierra_function_context
  action_on_new_statement,
  nested_var_registry,    \* from references to the children they stand for
  next_nested_ref

stackVars == <<frames, contexts, current_context, action_on_new_statement,
               nested_var_registry, next_nested_ref>>

debuggerVars == <<current_statement_idx, stackVars>>

vars == <<vmVars, phase, debuggerVars>>

(* "pre": the pre-step hook is about to run; "handle": it has reached a    *)
(* new statement and may serve requests; "exec": it has returned, the      *)
(* instruction is to be executed; "post": it was, the post-step hook is    *)
(* about to run; "ended": the VM has stopped; "panicked": a panic.         *)
Phase == {"pre", "handle", "exec", "post", "ended", "panicked"}

----------------------------------------------------------------------------
(* Frames and variables. *)

(* FunctionVariables: what a value is does not matter here, only what it   *)
(* depends on: the function and its parameters, and the statements known   *)
(* to have been executed that produce a Cairo variable.  VM memory is      *)
(* write-once, so the same recorded statements give the same values.       *)
FunctionVariables(function, a, trace) ==
  [function |-> function, arg |-> a, produced |-> {e \in trace : e.stmt \in Produces}]

NoVariables == [function |-> NoStatement, arg |-> NoStatement, produced |-> {}]

flat_length == Len(frames)

next_frame_id_counting_substacks == MIN_OBJECT_REFERENCE + 2 * Len(contexts)

next_frame_id == MIN_OBJECT_REFERENCE + 2 * flat_length

UnknownLocation == [file |-> "", line |-> 0, col |-> 0]

unknown_frame == [location |-> UnknownLocation, name |-> "Unknown"]

(* "test" for a statement of whose functions nothing is known.             *)
FrameNames(s) ==
  IF function_names_for_statement_idx(s) = << >> THEN <<"test">>
  ELSE function_names_for_statement_idx(s)

(* The code locations of a statement from the least to the most nested, as *)
(* far as there are names for them (zip).                                  *)
FrameLocations(s) ==
  LET locations == code_locations_for_statement_idx(s)
      names     == FrameNames(s)
      n         == Len(locations)
      zipped    == IF n <= Len(names) THEN n ELSE Len(names)
  IN  IF n = 0 THEN <<unknown_frame>>
      ELSE [i \in 1..zipped |-> [location |-> locations[n + 1 - i], name |-> names[i]]]

build_stack_frames(s, id) ==
  [i \in DOMAIN FrameLocations(s) |-> [id |-> id, at |-> FrameLocations(s)[i]]]

depth(s) == flat_length + Len(FrameLocations(s))

(* A substack as it is pushed: only its last frame gets variables.         *)
SubStack(s, id, variables) ==
  LET built == build_stack_frames(s, id)
  IN  [i \in DOMAIN built |->
         [id |-> id, at |-> built[i].at,
          vars |-> IF i = Len(built) THEN variables ELSE NoVariables]]

(* The frames of a stack trace, the least nested first; the client gets    *)
(* them in the reverse order.                                              *)
get_frames(s) ==
  [i \in 1..flat_length |-> [id |-> frames[i].id, at |-> frames[i].at]]
    \o build_stack_frames(s, next_frame_id)

get_current_function_variables ==
  FunctionVariables(
    sierra_function_for_statement(current_context.last_executed_statement),
    arg, current_context.post_statements_registers)

get_scopes_for_frame(id) == id + 1

----------------------------------------------------------------------------
(* The context of a Sierra function activation. *)

SierraFunctionContext(trace, last, start) ==
  [post_statements_registers |-> trace, last_executed_statement |-> last,
   nested_ref_start |-> start]

(* The branches of s from which t can have been reached.                   *)
HitBranches(s, t) ==
  {i \in DOMAIN branches_for_statement(s) : LeadsTo(branches_for_statement(s)[i], t)}

hit_branch_entrance_always_first(s, t) == branches_for_statement(s)[1]

hit_branch_entrance(s, t) ==
  branches_for_statement(s)[CHOOSE i \in HitBranches(s, t) :
                              \A j \in HitBranches(s, t) : i <= j]

(* handle_branch_entrances panics where it finds no branch.                *)
FindsBranch(t) ==
  LET last == current_context.last_executed_statement
  IN  last = NoStatement \/ HitBranches(last, t) # {}

handle_branch_entrances_with_current(t) ==
  LET last == current_context.last_executed_statement
      hit  == hit_branch_entrance(last, t)
  IN  IF last = NoStatement
      THEN FallThrough(sierra_function_for_statement(t), t)
      ELSE {[stmt |-> last, target |-> hit]} \union FallThrough(hit + 1, t + 1)

(* The statements it adds to the trace of the function on reaching t.      *)
handle_branch_entrances(t) ==
  LET last == current_context.last_executed_statement
      hit  == hit_branch_entrance(last, t)
  IN  IF last = NoStatement
      THEN FallThrough(sierra_function_for_statement(t), t)
      ELSE {[stmt |-> last, target |-> hit]} \union FallThrough(hit + 1, t)

Retain_with_start(start) ==
  [r \in {k \in DOMAIN nested_var_registry : k <= start} |-> nested_var_registry[r]]

Retain(start) ==
  [r \in {k \in DOMAIN nested_var_registry : k < start} |-> nested_var_registry[r]]

NoAction == [kind |-> "none", substack |-> << >>]

ActionFor_before_branches(t, context) ==
  IF is_function_call_statement(t)
  THEN [kind |-> "push",
        substack |-> SubStack(t, next_frame_id,
          FunctionVariables(sierra_function_for_statement(t), arg,
                            current_context.post_statements_registers))]
  ELSE IF is_return_statement(t)
  THEN [kind |-> "pop", substack |-> << >>]
  ELSE action_on_new_statement

(* The stack changes only after the call or the return is executed.        *)
ActionFor(t, context) ==
  IF is_function_call_statement(t)
  THEN [kind |-> "push",
        substack |-> SubStack(t, next_frame_id,
          FunctionVariables(sierra_function_for_statement(t), arg,
                            context.post_statements_registers))]
  ELSE IF is_return_statement(t)
  THEN [kind |-> "pop", substack |-> << >>]
  ELSE action_on_new_statement

update_pre_step_without_invalidation(t) ==
  IF current_context.last_executed_statement = t
  THEN UNCHANGED stackVars
  ELSE LET context == SierraFunctionContext(
                        current_context.post_statements_registers
                          \union handle_branch_entrances(t), t,
                        current_context.nested_ref_start)
       IN  /\ current_context' = context
           /\ action_on_new_statement' = ActionFor(t, context)
           /\ UNCHANGED <<frames, contexts, nested_var_registry, next_nested_ref>>

update_pre_step(t) ==
  IF current_context.last_executed_statement = t
  THEN UNCHANGED stackVars
  ELSE LET start == current_context.nested_ref_start
           context == SierraFunctionContext(
                        current_context.post_statements_registers
                          \union handle_branch_entrances(t), t, start)
       IN  /\ nested_var_registry' = Retain(start)
           /\ next_nested_ref' = start
           /\ current_context' = context
           /\ action_on_new_statement' = ActionFor(t, context)
           /\ UNCHANGED <<frames, contexts>>

----------------------------------------------------------------------------
(* The hooks.  update_state breaks off where the pc maps to no statement   *)
(* or to the one it is already at; nothing else happens then before the    *)
(* instruction.                                                            *)

AtNewStatement == mapped /\ pc # current_statement_idx

SkipInstruction ==
  /\ phase = "pre"
  /\ ~ AtNewStatement
  /\ phase' = "exec"
  /\ UNCHANGED <<vmVars, debuggerVars>>

EnterStatement ==
  /\ phase = "pre"
  /\ AtNewStatement
  /\ current_statement_idx' = pc
  /\ IF FindsBranch(pc) \/ current_context.last_executed_statement = pc
     THEN phase' = "handle" /\ update_pre_step(pc)
     ELSE phase' = "panicked" /\ UNCHANGED stackVars
  /\ UNCHANGED vmVars

(* The pre-step hook returns to the VM.                                    *)
FinishPreStep ==
  /\ phase = "handle"
  /\ phase' = "exec"
  /\ UNCHANGED <<vmVars, debuggerVars>>

(* get_variables.  A registered reference stands for the children of a     *)
(* variable; another one is taken for the scope of the frame at a flat     *)
(* index, and for the current function where there is no such frame.       *)
VariablesInScope(ref) ==
  LET flat_index == ref \div 2 - 1
  IN  IF flat_index \in 0..(flat_length - 1)
      THEN frames[flat_index + 1].vars
      ELSE get_current_function_variables

Requested(ref) ==
  IF ref \in DOMAIN nested_var_registry
  THEN [of |-> nested_var_registry[ref].of, level |-> nested_var_registry[ref].level + 1]
  ELSE [of |-> VariablesInScope(ref), level |-> 1]

(* Every function has one variable that can be expanded Nesting times; its *)
(* children are registered each time it is listed.                         *)
register_children(children) ==
  IF children.of # NoVariables /\ children.level <= Nesting
  THEN /\ nested_var_registry' =
            [r \in DOMAIN nested_var_registry \union {next_nested_ref} |->
               IF r = next_nested_ref THEN children ELSE nested_var_registry[r]]
       /\ next_nested_ref' = next_nested_ref + 1
  ELSE UNCHANGED <<nested_var_registry, next_nested_ref>>

get_variables(ref) ==
  /\ phase = "handle"
  /\ next_nested_ref < NESTED_VAR_REF_START + MaxRefs
  /\ register_children(Requested(ref))
  /\ UNCHANGED <<vmVars, phase, current_statement_idx, frames, contexts,
                 current_context, action_on_new_statement>>

(* update_post_step. *)

NothingToApply ==
  /\ action_on_new_statement.kind = "none"
  /\ UNCHANGED stackVars

ApplyPush_without_take ==
  /\ action_on_new_statement.kind = "push"
  /\ frames' = frames \o action_on_new_statement.substack
  /\ contexts' = Append(contexts, [base |-> flat_length, context |-> current_context])
  /\ current_context' = SierraFunctionContext({}, NoStatement, next_nested_ref)
  /\ UNCHANGED <<action_on_new_statement, nested_var_registry, next_nested_ref>>

ApplyPush ==
  /\ action_on_new_statement.kind = "push"
  /\ frames' = frames \o action_on_new_statement.substack
  /\ contexts' = Append(contexts, [base |-> flat_length, context |-> current_context])
  /\ current_context' = SierraFunctionContext({}, NoStatement, next_nested_ref)
  /\ action_on_new_statement' = NoAction
  /\ UNCHANGED <<nested_var_registry, next_nested_ref>>

ApplyPop_without_context ==
  /\ action_on_new_statement.kind = "pop"
  /\ contexts # << >>
  /\ LET top   == contexts[Len(contexts)]
         start == top.context.nested_ref_start
     IN  /\ frames' = SubSeq(frames, 1, top.base)
         /\ nested_var_registry' = Retain(start)
         /\ next_nested_ref' = start
  /\ contexts' = SubSeq(contexts, 1, Len(contexts) - 1)
  /\ action_on_new_statement' = NoAction
  /\ UNCHANGED current_context

ApplyPop_without_take ==
  /\ action_on_new_statement.kind = "pop"
  /\ contexts # << >>
  /\ LET top   == contexts[Len(contexts)]
         start == top.context.nested_ref_start
     IN  /\ frames' = SubSeq(frames, 1, top.base)
         /\ current_context' = top.context
         /\ nested_var_registry' = Retain(start)
         /\ next_nested_ref' = start
  /\ contexts' = SubSeq(contexts, 1, Len(contexts) - 1)
  /\ UNCHANGED action_on_new_statement

ApplyPop ==
  /\ action_on_new_statement.kind = "pop"
  /\ contexts # << >>
  /\ LET top   == contexts[Len(contexts)]
         start == top.context.nested_ref_start
     IN  /\ frames' = SubSeq(frames, 1, top.base)
         /\ current_context' = top.context
         /\ nested_var_registry' = Retain(start)
         /\ next_nested_ref' = start
  /\ contexts' = SubSeq(contexts, 1, Len(contexts) - 1)
  /\ action_on_new_statement' = NoAction

PopNothing ==
  /\ action_on_new_statement.kind = "pop"
  /\ contexts = << >>
  /\ action_on_new_statement' = NoAction
  /\ UNCHANGED <<frames, contexts, current_context, nested_var_registry, next_nested_ref>>

update_post_step ==
  /\ phase = "post"
  /\ phase' = "pre"
  /\ NothingToApply \/ ApplyPush \/ ApplyPop \/ PopNothing
  /\ UNCHANGED <<vmVars, current_statement_idx>>

(* The VM between the hooks. *)

ExecuteInstruction ==
  /\ phase = "exec"
  /\ VmInstruction
  /\ phase' = "post"
  /\ UNCHANGED debuggerVars

(* An instruction fails: the VM gives up without the post-step hook.       *)
VmError ==
  /\ phase = "exec"
  /\ phase' = "ended"
  /\ UNCHANGED <<vmVars, debuggerVars>>

VmEnd ==
  /\ phase = "pre"
  /\ halted
  /\ phase' = "ended"
  /\ UNCHANGED <<vmVars, debuggerVars>>

(* The pre-step hook returns an error, or the session has failed before    *)
(* the VM could start.                                                     *)
HookError ==
  /\ phase \in {"pre", "handle"}
  /\ phase' = "ended"
  /\ UNCHANGED <<vmVars, debuggerVars>>

----------------------------------------------------------------------------
Init ==
  /\ VmInit
  /\ phase = "pre"
  /\ current_statement_idx = NoStatement
  /\ frames = << >>
  /\ contexts = << >>
  /\ current_context = SierraFunctionContext({}, NoStatement, NESTED_VAR_REF_START)
  /\ action_on_new_statement = NoAction
  /\ nested_var_registry = [r \in {} |-> NoVariables]
  /\ next_nested_ref = NESTED_VAR_REF_START

Next ==
  \/ SkipInstruction
  \/ EnterStatement
  \/ \E ref \in References : get_variables(ref)
  \/ FinishPreStep
  \/ ExecuteInstruction
  \/ VmError
  \/ VmEnd
  \/ HookError
  \/ update_post_step

Spec == Init /\ [][Next]_vars
----------------------------------------------------------------------------
(* Types. *)

TraceEntry == [stmt : Statement, target : Statement]

CodeLocations ==
  {UnknownLocation} \union
  UNION {{Locations[s][i] : i \in DOMAIN Locations[s]} : s \in Statement}

FrameName ==
  {"Unknown", "test"} \union
  UNION {{FunctionNames[s][i] : i \in DOMAIN FunctionNames[s]} : s \in Statement}

FramePlace == [location : CodeLocations, name : FrameName]

VariablesType ==
  [function : Statement \union {NoStatement}, arg : Args \union {NoStatement},
   produced : SUBSET TraceEntry]

FrameType == [id : Nat, at : FramePlace, vars : VariablesType]

ContextType ==
  [post_statements_registers : SUBSET TraceEntry,
   last_executed_statement : Statement \union {NoStatement},
   nested_ref_start : Nat]

ContextEntry == [base : Nat, context : ContextType]

RegistryType == [of : VariablesType, level : Nat]

TypeOK ==
  /\ VmTypeOK
  /\ phase \in Phase
  /\ current_statement_idx \in Statement \union {NoStatement}
  /\ frames \in Seq(FrameType)
  /\ contexts \in Seq(ContextEntry)
  /\ current_context \in ContextType
  /\ action_on_new_statement \in [kind : {"none", "push", "pop"}, substack : Seq(FrameType)]
  /\ DOMAIN nested_var_registry \subseteq Nat
  /\ \A r \in DOMAIN nested_var_registry : nested_var_registry[r] \in RegistryType
  /\ next_nested_ref \in Nat

----------------------------------------------------------------------------
(* Properties. *)

(* The first and the last flat index, from 1, of the frames of a substack. *)
SubStackStart(i) == contexts[i].base + 1

SubStackEnd(i) == IF i = Len(contexts) THEN Len(frames) ELSE contexts[i + 1].base

(* The variables of the i-th activation that the VM has suspended.         *)
CallerVariables(i) ==
  FunctionVariables(sierra_function_for_statement(rets[i].call), rets[i].arg,
                    contexts[i].context.post_statements_registers)

(* The shadow stack has one substack per function activation the VM has    *)
(* suspended, showing the locations of the call that suspended it and the  *)
(* variables that activation had, whenever a hook or the VM reads it: the  *)
(* pushes and pops of update_post_step, decided in update_pre_step before  *)
(* the instruction, never miss a call or a return and never undo one.      *)
StackMirrorsVm ==
  phase \in {"pre", "handle", "exec"} =>
    /\ Len(contexts) = Len(rets)
    /\ \A i \in 1..Len(contexts) :
         /\ contexts[i].context.last_executed_statement = rets[i].call
         /\ SubSeq(frames, SubStackStart(i), SubStackEnd(i)) =
              SubStack(rets[i].call, MIN_OBJECT_REFERENCE + 2 * contexts[i].base,
                       CallerVariables(i))

(* The trace is what was executed, except for one kind of statement: the   *)
(* target of a branch, when that target compiles to no CASM                *)
(* (call_stack.rs:496).                                                    *)
Traces(trace, truth) ==
  /\ trace \subseteq truth
  /\ \A e \in truth \ trace :
       /\ ~ does_compile_to_casm(e.stmt)
       /\ \E p \in trace : does_compile_to_casm(p.stmt) /\ p.target = e.stmt

(* At a stop, and for every suspended function, the statements from which  *)
(* variables are read were executed, through the branch recorded; what is  *)
(* missing from them is only what the trace leaves out by construction.    *)
TraceIsSound ==
  phase = "handle" =>
    /\ Traces(current_context.post_statements_registers, executed)
    /\ \A i \in 1..Len(contexts) :
         Traces(contexts[i].context.post_statements_registers, rets[i].executed)

(* "There has to be at least one path like this." (call_stack.rs:484): the *)
(* branch by which the function got here is always found.                  *)
NoPanic == phase # "panicked"

(* register_children never replaces an entry that is still registered, and *)
(* no nested reference is also the scope of a frame (call_stack.rs:27):    *)
(* within a stop a reference stands for one thing.                         *)
ReferencesUnique ==
  /\ \A r \in DOMAIN nested_var_registry : r < next_nested_ref
  /\ \A i \in 0..(flat_length + 1) :
       get_scopes_for_frame(MIN_OBJECT_REFERENCE + 2 * i) \notin DOMAIN nested_var_registry

(* While requests are served no registered reference shows variables of a  *)
(* function that has returned, or values the current function has left     *)
(* behind: what is cached is what a frame now on the stack would show.     *)
(* An id that is registered no more is taken for a scope                   *)
(* (call_stack.rs:226), and may come to stand for other variables.         *)
NoStaleReference ==
  phase = "handle" =>
    \A r \in DOMAIN nested_var_registry :
      nested_var_registry[r].of \in {frames[i].vars : i \in DOMAIN frames}
                                       \union {get_current_function_variables}

(* The scope of a frame never shows the variables of another activation    *)
(* than the one the VM suspended there.  It shows those of that activation *)
(* if the frame is the only one of its substack, and nothing if functions  *)
(* are inlined at the call: all frames of a substack have one id, its      *)
(* scope is that of the first frame, and only the last frame has           *)
(* variables.  See FrameHasItsScope.                                       *)
ScopeStaysInSubStack ==
  phase = "handle" =>
    /\ \A i \in DOMAIN contexts : \A j \in SubStackStart(i)..SubStackEnd(i) :
         VariablesInScope(get_scopes_for_frame(frames[j].id)) =
           IF SubStackStart(i) = SubStackEnd(i) THEN CallerVariables(i) ELSE NoVariables
    /\ VariablesInScope(get_scopes_for_frame(next_frame_id)) = get_current_function_variables

(* "object reference for each stack frame is equal to its                  *)
(* `1 + 2 * flat_index` where `flat_index` is its position (0-indexed) in  *)
(* the flattened vector" (call_stack.rs:51), "For the variables' scope,    *)
(* the object reference is equal to `2 + 2 * flat_index`" (:53): the scope *)
(* of a frame shows the variables kept with that frame.                    *)
FrameHasItsScope ==
  phase = "handle" =>
    \A j \in DOMAIN frames :
      VariablesInScope(get_scopes_for_frame(frames[j].id)) = frames[j].vars

(* "We can be sure that the next `statement_idx` is different from the one *)
(* which was the arg when `action_on_new_statement` was set."              *)
(* (call_stack.rs:95): a call or a return is left for another statement.   *)
ActionMeansNewStatement ==
  (phase = "post" /\ action_on_new_statement.kind # "none" /\ mapped) =>
    pc # current_statement_idx
=============================================================================
