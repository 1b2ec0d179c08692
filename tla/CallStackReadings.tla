------------------------- MODULE CallStackReadings -------------------------
(***************************************************************************)
(* What a client reads at a stop: the variables a scope shows, the nested  *)
(* references it was given and the trace from which variables are read.    *)
(***************************************************************************)
EXTENDS CallStackProofs

----------------------------------------------------------------------------
(* Scopes. *)

(* All frames of a substack have one id, the last one has the variables.   *)
LEMMA SubStackShape ==
  ASSUME NEW s \in Statement, NEW id \in Nat, NEW variables
  PROVE  LET built == SubStack(s, id, variables)
         IN  /\ DOMAIN built = 1..Len(FrameLocations(s))
             /\ Len(built) = Len(FrameLocations(s))
             /\ Len(built) \in Nat \ {0}
             /\ \A i \in DOMAIN built : built[i].id = id
             /\ built[Len(built)].vars = variables
<1> DEFINE L == FrameLocations(s)
           built == build_stack_frames(s, id)
           shown == SubStack(s, id, variables)
<1>1. PICK n \in Nat \ {0} : n = Len(L) /\ DOMAIN L = 1..n
  BY FrameLocationsType
<1>2. built = [i \in 1..n |-> [id |-> id, at |-> L[i]]]
  BY <1>1 DEF build_stack_frames
<1>3. Len(built) = n /\ DOMAIN built = 1..n
  BY <1>1, <1>2
<1>4. shown = [i \in 1..n |-> [id |-> id, at |-> built[i].at,
                 vars |-> IF i = n THEN variables ELSE NoVariables]]
  BY <1>3 DEF SubStack
<1>5. Len(shown) = n /\ DOMAIN shown = 1..n
  BY <1>1, <1>4
<1>6. /\ \A i \in 1..n : shown[i].id = id
      /\ shown[n].vars = variables
  BY <1>1, <1>4
<1>7. QED
  BY <1>1, <1>5, <1>6

LEMMA SubStackFirst ==
  ASSUME NEW s \in Statement, NEW id \in Nat, NEW variables
  PROVE  LET built == SubStack(s, id, variables)
         IN  built[1].vars = IF Len(built) = 1 THEN variables ELSE NoVariables
<1> DEFINE L == FrameLocations(s)
           built == build_stack_frames(s, id)
           shown == SubStack(s, id, variables)
<1>1. PICK n \in Nat \ {0} : n = Len(L) /\ DOMAIN L = 1..n
  BY FrameLocationsType
<1>2. built = [i \in 1..n |-> [id |-> id, at |-> L[i]]]
  BY <1>1 DEF build_stack_frames
<1>3. Len(built) = n /\ DOMAIN built = 1..n
  BY <1>1, <1>2
<1>4. shown = [i \in 1..n |-> [id |-> id, at |-> built[i].at,
                 vars |-> IF i = n THEN variables ELSE NoVariables]]
  BY <1>3 DEF SubStack
<1>5. QED
  BY <1>1, <1>4

(* At a stop every substack is that of a suspended activation.             *)
LEMMA StopDepth ==
  ASSUME IInv, phase \in {"pre", "handle", "exec"}
  PROVE  \A i \in DOMAIN contexts : i \in DOMAIN rets
<1>1. Len(contexts) = Len(rets)
  BY DEF IInv, StackInv, PhaseInv, SameDepth
<1>2. QED
  BY <1>1 DEF IInv, TypeInv, TypeOK, VmTypeOK

LEMMA ContextEntryType ==
  ASSUME TypeOK, NEW i \in DOMAIN contexts
  PROVE  contexts[i].base \in Nat /\ contexts[i].context \in ContextType
<1>1. contexts[i] \in ContextEntry
  BY DEF TypeOK
<1>2. QED
  BY <1>1 DEF ContextEntry

LEMMA SuspendedType ==
  ASSUME VmTypeOK, NEW i \in DOMAIN rets
  PROVE  /\ rets[i].call \in Statement /\ rets[i].arg \in Args
         /\ rets[i].executed \in SUBSET TraceEntry
<1>1. rets[i] \in Activation
  BY DEF VmTypeOK
<1>2. QED
  BY <1>1 DEF Activation, TraceEntry

(* An element of a section of a sequence.                                  *)
LEMMA SectionElement ==
  ASSUME NEW S, NEW s \in Seq(S), NEW first \in Nat, NEW last \in Nat,
         first >= 1, last <= Len(s), NEW j \in first..last
  PROVE  /\ j - first + 1 \in 1..Len(SubSeq(s, first, last))
         /\ SubSeq(s, first, last)[j - first + 1] = s[j]
<1>1. /\ Len(SubSeq(s, first, last)) = last - first + 1
      /\ \A i \in 1..(last - first + 1) : SubSeq(s, first, last)[i] = s[first + i - 1]
  OBVIOUS
<1>2. /\ j - first + 1 \in 1..(last - first + 1)
      /\ first + (j - first + 1) - 1 = j
  OBVIOUS
<1>3. QED
  BY <1>1, <1>2

LEMMA ScopeIndex ==
  ASSUME NEW n \in Nat
  PROVE  get_scopes_for_frame(MIN_OBJECT_REFERENCE + 2 * n) \div 2 - 1 = n
<1>1. get_scopes_for_frame(MIN_OBJECT_REFERENCE + 2 * n) = 2 * (n + 1)
  BY DEF get_scopes_for_frame, MIN_OBJECT_REFERENCE
<1>2. (2 * (n + 1)) \div 2 = n + 1
  OBVIOUS
<1>3. QED
  BY <1>1, <1>2

(* The scope of a frame never shows the variables of another activation:   *)
(* the arithmetic on ids (call_stack.rs:226, 393) leads to the first frame *)
(* of the substack, however many inlined functions the frames below stand  *)
(* for.  That frame has the variables if it is the only one of its         *)
(* substack, and none if not.                                              *)
THEOREM ScopesStayInSubStacks ==
  ASSUME NoTailRecursion
  PROVE  Spec => []ScopeStaysInSubStack
<1>1. IInv => ScopeStaysInSubStack
  <2>1. SUFFICES ASSUME IInv, phase = "handle" PROVE ScopeStaysInSubStack
    BY DEF ScopeStaysInSubStack
  <2>2. TypeInv /\ TypeOK /\ VmTypeOK /\ frames \in Seq(FrameType)
    BY <2>1 DEF IInv, TypeInv, TypeOK
  <2>3. VariablesInScope(get_scopes_for_frame(next_frame_id)) = get_current_function_variables
    BY <2>2, ScopeIndex DEF VariablesInScope, next_frame_id, flat_length
  <2>4. ASSUME NEW i \in DOMAIN contexts, NEW j \in SubStackStart(i)..SubStackEnd(i)
        PROVE  VariablesInScope(get_scopes_for_frame(frames[j].id)) =
                 IF SubStackStart(i) = SubStackEnd(i) THEN CallerVariables(i) ELSE NoVariables
    <3> DEFINE base == contexts[i].base
               first == SubStackStart(i)
               last == SubStackEnd(i)
               id == MIN_OBJECT_REFERENCE + 2 * base
    <3>1. i \in DOMAIN rets /\ base \in Nat /\ rets[i].call \in Statement
      BY <2>1, <2>2, StopDepth, ContextEntryType, SuspendedType
    <3>2. first = base + 1 /\ first \in Nat /\ last \in Nat /\ last <= Len(frames)
      BY <2>2, SubStackRange DEF SubStackStart
    <3> DEFINE section == SubSeq(frames, first, last)
               k == j - first + 1
    <3>3. k \in 1..Len(section) /\ section[k] = frames[j]
      <4>1. first >= 1
        BY <3>1, <3>2
      <4>2. QED
        BY <2>2, <3>2, <4>1, SectionElement
    <3>4. section = Shown(i)
      BY <2>1, <3>1 DEF IInv, FramesMatch
    <3>5. DOMAIN Shown(i) = 1..Len(Shown(i)) /\ \A m \in DOMAIN Shown(i) : Shown(i)[m].id = id
      BY <3>1, SubStackShape DEF Shown, MIN_OBJECT_REFERENCE
    <3>6. frames[j].id = id
      BY <3>3, <3>4, <3>5
    <3>7. get_scopes_for_frame(id) \div 2 - 1 = base
      BY <3>1, ScopeIndex
    <3>8. base \in 0..(flat_length - 1)
      BY <2>2, <3>1, <3>2 DEF flat_length
    <3>9. VariablesInScope(get_scopes_for_frame(frames[j].id)) = frames[first].vars
      BY <3>2, <3>6, <3>7, <3>8 DEF VariablesInScope
    <3>10. Len(section) = last - first + 1 /\ first <= last
      BY <2>2, <3>1, <3>2
    <3>11. section[1] = frames[first]
      <4>1. first \in first..last /\ first >= 1 /\ first - first + 1 = 1
        BY <3>1, <3>2, <3>10
      <4>2. QED
        BY <2>2, <3>2, <4>1, SectionElement
    <3>12. Shown(i)[1].vars = IF Len(Shown(i)) = 1 THEN CallerVariables(i) ELSE NoVariables
      BY <3>1, SubStackFirst DEF Shown, CallerVariables, MIN_OBJECT_REFERENCE
    <3>13. Len(section) = 1 <=> first = last
      BY <3>2, <3>10
    <3> HIDE DEF section, first, last
    <3>14. QED
      BY <3>4, <3>9, <3>11, <3>12, <3>13 DEF first, last
  <2>5. QED
    BY <2>3, <2>4 DEF ScopeStaysInSubStack
<1>2. QED
  BY <1>1, DebuggerFollowsVm, PTL

----------------------------------------------------------------------------
(* The registry of nested references. *)

LEMMA InitRegistry == Init => RegistryInv
<1> SUFFICES ASSUME Init PROVE RegistryInv
  OBVIOUS
<1>1. /\ nested_ref_start = NESTED_VAR_REF_START
      /\ next_nested_ref = NESTED_VAR_REF_START
      /\ NESTED_VAR_REF_START \in Nat
  BY ReferenceAssumption DEF Init, SierraFunctionContext, nested_ref_start
<1>2. contexts = << >> /\ DOMAIN nested_var_registry = {} /\ phase = "pre"
  BY DEF Init
<1>3. StartsOrdered
  BY <1>1, <1>2 DEF StartsOrdered
<1>4. RegistryMatches
  BY <1>2 DEF RegistryMatches
<1>5. QED
  BY <1>3, <1>4 DEF RegistryInv

LEMMA StartsType ==
  ASSUME TypeOK
  PROVE  /\ nested_ref_start \in Nat /\ next_nested_ref \in Nat
         /\ \A i \in DOMAIN contexts : RefStart(i) \in Nat
<1>1. nested_ref_start \in Nat /\ next_nested_ref \in Nat
  BY DEF TypeOK, ContextType, nested_ref_start
<1>2. ASSUME NEW i \in DOMAIN contexts PROVE RefStart(i) \in Nat
  BY ContextEntryType DEF ContextType, RefStart
<1>3. QED
  BY <1>1, <1>2

(* Retain keeps the references below start, with what they stand for.      *)
LEMMA Retained ==
  ASSUME NEW start
  PROVE  /\ DOMAIN Retain(start) = {r \in DOMAIN nested_var_registry : r < start}
         /\ \A r \in DOMAIN Retain(start) : Retain(start)[r] = nested_var_registry[r]
  BY DEF Retain

(* The registry is the same, or shrunk, and the stack the same.            *)
LEMMA RegistryKept ==
  ASSUME RegistryInv,
         UNCHANGED <<frames, contexts, current_context, action_on_new_statement,
                     nested_var_registry, next_nested_ref>>,
         phase' = "handle" => phase = "handle" /\ arg' = arg,
         phase' \in {"exec", "post"} =>
           \/ phase \in {"handle", "exec", "post"}
           \/ action_on_new_statement.kind = "none"
  PROVE  RegistryInv'
<1>1. /\ \A i : RefStart(i)' = RefStart(i)
      /\ \A n : VariablesBelow(n)' = VariablesBelow(n)
      /\ \A variables : ShownOnly(variables)' <=> ShownOnly(variables)
      /\ nested_ref_start' = nested_ref_start
  BY DEF RefStart, VariablesBelow, ShownOnly, nested_ref_start
<1>2. phase' = "handle" => get_current_function_variables' = get_current_function_variables
  BY DEF get_current_function_variables
<1>3. StartsOrdered'
  BY <1>1 DEF RegistryInv, StartsOrdered
<1>4. RegistryMatches'
  BY <1>1, <1>2 DEF RegistryInv, RegistryMatches, VariablesBelow, ShownOnly
<1>5. QED
  BY <1>3, <1>4 DEF RegistryInv

(* At a new statement only the references of suspended functions stay.     *)
LEMMA EnterStatementRegistry ==
  ASSUME IInv, RegistryInv, EnterStatement
  PROVE  RegistryInv'
<1> DEFINE start == nested_ref_start
<1>1. Arriving /\ TypeOK /\ TypeInv
  BY DEF EnterStatement, AtNewStatement, IInv, StackInv, PhaseInv, Settled, AtStatement,
         HaltedOutside, TypeInv
<1>2. /\ phase' = "handle"
      /\ nested_var_registry' = Retain(start)
      /\ next_nested_ref' = start
      /\ nested_ref_start' = start
      /\ UNCHANGED <<frames, contexts>>
  BY <1>1, ArrivingFindsBranch
  DEF EnterStatement, update_pre_step, Arriving, last_executed_statement, nested_ref_start,
      SierraFunctionContext
<1>3. /\ start \in Nat
      /\ DOMAIN nested_var_registry' = {r \in DOMAIN nested_var_registry : r < start}
      /\ \A r \in DOMAIN nested_var_registry' :
            nested_var_registry'[r] = nested_var_registry[r]
  BY <1>1, <1>2, Retained, StartsType
<1>4. /\ \A i : RefStart(i)' = RefStart(i)
      /\ \A n : VariablesBelow(n)' = VariablesBelow(n)
  BY <1>2 DEF RefStart, VariablesBelow
<1>5. StartsOrdered'
  <2>1. NESTED_VAR_REF_START \in Nat /\ DOMAIN nested_var_registry \subseteq Nat
    BY <1>1, ReferenceAssumption DEF TypeOK
  <2>2. start \in NESTED_VAR_REF_START..start
    BY <1>3, <2>1 DEF RegistryInv, StartsOrdered
  <2>3. DOMAIN nested_var_registry' \subseteq NESTED_VAR_REF_START..(start - 1)
    BY <1>3, <2>1 DEF RegistryInv, StartsOrdered
  <2>4. QED
    BY <1>2, <1>4, <2>2, <2>3 DEF RegistryInv, StartsOrdered
<1>6. \A r \in DOMAIN nested_var_registry' :
        nested_var_registry'[r].of \in VariablesBelow(Len(frames))
  BY <1>2, <1>3, <1>4 DEF RegistryInv, RegistryMatches
<1>7. RegistryMatches'
  BY <1>2, <1>3, <1>4, <1>6 DEF RegistryInv, RegistryMatches, ShownOnly, VariablesBelow
<1>8. QED
  BY <1>5, <1>7 DEF RegistryInv

(* What get_variables lists belongs to a frame or to the current function. *)
LEMMA RequestedIsShown ==
  ASSUME TypeOK, RegistryInv, phase = "handle", NEW ref \in Nat
  PROVE  Requested(ref).of \in
           VariablesBelow(Len(frames)) \union {get_current_function_variables}
<1>1. CASE ref \in DOMAIN nested_var_registry
  BY <1>1 DEF Requested, RegistryInv, RegistryMatches, ShownOnly
<1>2. CASE ref \notin DOMAIN nested_var_registry
  <2>1. \A k \in 0..(flat_length - 1) : k + 1 \in 1..Len(frames)
    BY DEF flat_length, TypeOK
  <2>2. VariablesInScope(ref) \in
          VariablesBelow(Len(frames)) \union {get_current_function_variables}
    BY <2>1 DEF VariablesInScope, VariablesBelow
  <2>3. QED
    BY <1>2, <2>2 DEF Requested
<1>3. QED
  BY <1>1, <1>2

(* The variables a pending push puts on the stack are those of the         *)
(* current function.                                                       *)
LEMMA PushedVariables ==
  ASSUME IInv, phase = "handle", action_on_new_statement.kind = "push"
  PROVE  LET pushed == action_on_new_statement.substack
         IN  pushed[Len(pushed)].vars = get_current_function_variables
<1>1. pc \in Statement /\ AtStatement /\ ActionIsFor(pc, arg)
  BY StatementNumbers DEF IInv, TypeInv, TypeOK, VmTypeOK, StackInv, PhaseInv
<1>2. is_function_call_statement(pc)
  BY <1>1 DEF ActionIsFor, IsInvocation
<1>3. action_on_new_statement.substack =
        SubStack(pc, next_frame_id, get_current_function_variables)
  BY <1>1, <1>2
  DEF ActionIsFor, CallSubStack, AtStatement, last_executed_statement,
      get_current_function_variables
<1>4. next_frame_id \in Nat
  BY DEF IInv, TypeInv, TypeOK, next_frame_id, flat_length, MIN_OBJECT_REFERENCE
<1>5. QED
  BY <1>1, <1>3, <1>4, SubStackShape

LEMMA GetVariablesRegistry ==
  ASSUME IInv, RegistryInv, NEW ref \in References, get_variables(ref)
  PROVE  RegistryInv'
<1> DEFINE children == Requested(ref)
           shown == VariablesBelow(Len(frames)) \union {get_current_function_variables}
<1>1. TypeOK /\ phase = "handle" /\ ref \in Nat
  BY ReferenceAssumption DEF get_variables, IInv, TypeInv
<1>2. children.of \in shown
  BY <1>1, RequestedIsShown
<1>3. /\ phase' = "handle"
      /\ UNCHANGED <<vmVars, frames, contexts, current_context, action_on_new_statement>>
  BY <1>1 DEF get_variables
<1> HIDE DEF children
<1>4. CASE UNCHANGED <<nested_var_registry, next_nested_ref>>
  BY <1>1, <1>3, <1>4, RegistryKept DEF vmVars
<1>5. CASE /\ nested_var_registry' =
                [r \in DOMAIN nested_var_registry \union {next_nested_ref} |->
                   IF r = next_nested_ref THEN children ELSE nested_var_registry[r]]
           /\ next_nested_ref' = next_nested_ref + 1
  <2>1. /\ \A i : RefStart(i)' = RefStart(i)
        /\ \A n : VariablesBelow(n)' = VariablesBelow(n)
        /\ nested_ref_start' = nested_ref_start
        /\ get_current_function_variables' = get_current_function_variables
    BY <1>3 DEF RefStart, VariablesBelow, nested_ref_start, get_current_function_variables,
                vmVars
  <2>2. /\ DOMAIN nested_var_registry' = DOMAIN nested_var_registry \union {next_nested_ref}
        /\ \A r \in DOMAIN nested_var_registry' :
              IF r = next_nested_ref THEN nested_var_registry'[r] = children
              ELSE /\ r \in DOMAIN nested_var_registry
                   /\ nested_var_registry'[r] = nested_var_registry[r]
    BY <1>5
  <2>3. /\ next_nested_ref \in Nat /\ nested_ref_start \in Nat
        /\ nested_ref_start <= next_nested_ref
        /\ NESTED_VAR_REF_START \in Nat /\ NESTED_VAR_REF_START <= next_nested_ref
        /\ \A i \in DOMAIN contexts : RefStart(i) \in Nat /\ RefStart(i) <= next_nested_ref
    BY <1>1, StartsType, ReferenceAssumption DEF RegistryInv, StartsOrdered
  <2>4. StartsOrdered'
    <3>1. nested_ref_start \in NESTED_VAR_REF_START..(next_nested_ref + 1)
      BY <2>3 DEF RegistryInv, StartsOrdered
    <3>2. DOMAIN nested_var_registry' \subseteq NESTED_VAR_REF_START..(next_nested_ref + 1 - 1)
      BY <2>2, <2>3 DEF RegistryInv, StartsOrdered
    <3>3. QED
      BY <1>3, <1>5, <2>1, <3>1, <3>2 DEF RegistryInv, StartsOrdered
  <2>5. \A r \in DOMAIN nested_var_registry' : nested_var_registry'[r].of \in shown
    BY <1>1, <1>2, <2>2 DEF RegistryInv, RegistryMatches, ShownOnly
  <2>6. RegistryMatches'
    <3>1. ASSUME NEW i \in DOMAIN contexts, NEW r \in DOMAIN nested_var_registry',
                 r < RefStart(i)
          PROVE  nested_var_registry'[r].of \in VariablesBelow(contexts[i].base)
      BY <2>2, <2>3, <3>1 DEF RegistryInv, RegistryMatches
    <3>2. ASSUME NEW r \in DOMAIN nested_var_registry', r < nested_ref_start
          PROVE  nested_var_registry'[r].of \in VariablesBelow(Len(frames))
      BY <2>2, <2>3, <3>2 DEF RegistryInv, RegistryMatches
    <3>3. ShownOnly(shown)'
      BY <1>3, <2>1, <2>5 DEF ShownOnly, VariablesBelow
    <3>4. action_on_new_statement'.kind = "push" =>
            LET pushed == action_on_new_statement'.substack
            IN  pushed[Len(pushed)].vars = get_current_function_variables
      BY <1>1, <1>3, PushedVariables
    <3>5. QED
      BY <1>3, <2>1, <3>1, <3>2, <3>3, <3>4
      DEF RegistryMatches, RefStart, VariablesBelow, ShownOnly
  <2>7. QED
    BY <2>4, <2>6 DEF RegistryInv
<1>6. QED
  BY <1>4, <1>5 DEF get_variables, register_children, children

(* A push hands the current references to the suspended function.          *)
LEMMA ApplyPushRegistry ==
  ASSUME IInv, RegistryInv, update_post_step, ApplyPush
  PROVE  RegistryInv'
<1> DEFINE new == action_on_new_statement.substack
           entry == [base |-> flat_length, context |-> current_context]
<1>1. /\ TypeOK /\ frames \in Seq(FrameType) /\ new \in Seq(FrameType)
      /\ contexts \in Seq(ContextEntry) /\ entry \in ContextEntry
      /\ Len(frames) \in Nat
  BY DEF IInv, TypeInv, TypeOK, ContextEntry, flat_length
<1>2. PICK n \in Nat : n = Len(contexts) /\ DOMAIN contexts = 1..n
  BY <1>1
<1>3. /\ phase = "post" /\ phase' = "pre"
      /\ action_on_new_statement.kind = "push"
      /\ action_on_new_statement' = NoAction
      /\ frames' = frames \o new
      /\ contexts' = Append(contexts, entry)
      /\ nested_ref_start' = next_nested_ref
      /\ UNCHANGED <<nested_var_registry, next_nested_ref>>
  BY DEF update_post_step, ApplyPush, SierraFunctionContext, nested_ref_start
<1>4. entry.base = Len(frames) /\ entry.context.nested_ref_start = nested_ref_start
  BY DEF flat_length, nested_ref_start
<1>5. new # << >>
  <2>1. PushPending
    BY <1>3 DEF IInv, StackInv, PhaseInv
  <2>2. rets \in Seq(Activation) /\ Len(rets) \in DOMAIN rets
    BY <2>1, LastElement DEF IInv, TypeInv, TypeOK, VmTypeOK, PushPending
  <2>3. current_statement_idx \in Statement
    BY <2>1, <2>2, <1>1, SuspendedType DEF PushPending, LastCall, TypeOK
  <2>4. next_frame_id \in Nat
    BY <1>1 DEF next_frame_id, flat_length, MIN_OBJECT_REFERENCE
  <2>5. \A v : Len(SubStack(current_statement_idx, next_frame_id, v)) \in Nat \ {0}
    BY <2>3, <2>4, SubStackShape
  <2>6. \E v : new = SubStack(current_statement_idx, next_frame_id, v)
    BY <2>1 DEF PushPending, CallSubStack
  <2>7. QED
    BY <2>5, <2>6
<1> HIDE DEF new, entry
<1>6. /\ DOMAIN contexts' = 1..(n + 1)
      /\ \A i \in 1..n : contexts'[i] = contexts[i]
      /\ contexts'[n + 1] = entry
  BY <1>1, <1>2, <1>3, Extension
<1>7. /\ Len(frames') = Len(frames) + Len(new) /\ Len(new) \in Nat \ {0}
      /\ \A i \in 1..Len(frames) : frames'[i] = frames[i]
      /\ frames'[Len(frames')] = new[Len(new)]
  BY <1>1, <1>3, <1>5
<1>8. StartsOrdered'
  <2>1. /\ next_nested_ref \in Nat /\ nested_ref_start \in Nat
        /\ NESTED_VAR_REF_START \in Nat
        /\ nested_ref_start \in NESTED_VAR_REF_START..next_nested_ref
        /\ \A i \in 1..n : RefStart(i) \in Nat
    BY <1>1, <1>2, StartsType, ReferenceAssumption DEF RegistryInv, StartsOrdered
  <2>2. \A i \in 1..n : RefStart(i)' = RefStart(i)
    BY <1>6 DEF RefStart
  <2>3. RefStart(n + 1)' = nested_ref_start
    BY <1>4, <1>6 DEF RefStart
  <2>4. ASSUME NEW i \in 1..(n + 1)
        PROVE  /\ RefStart(i)' \in NESTED_VAR_REF_START..next_nested_ref
               /\ \A j \in 1..i : RefStart(j)' <= RefStart(i)'
    <3>1. \A k \in 1..n : /\ NESTED_VAR_REF_START <= RefStart(k)
                          /\ RefStart(k) <= nested_ref_start
                          /\ \A j \in 1..k : RefStart(j) <= RefStart(k)
      BY <1>2, <2>1 DEF RegistryInv, StartsOrdered
    <3>2. /\ NESTED_VAR_REF_START <= nested_ref_start
          /\ nested_ref_start <= next_nested_ref
      BY <2>1
    <3>3. CASE i \in 1..n
      <4>1. \A j \in 1..i : j \in 1..n
        BY <1>2, <3>3
      <4>2. QED
        BY <2>1, <2>2, <3>1, <3>2, <3>3, <4>1
    <3>4. CASE i = n + 1
      <4>1. \A j \in 1..i : j \in 1..n \/ j = n + 1
        BY <1>2, <3>4
      <4>2. \A j \in 1..i : RefStart(j)' <= nested_ref_start
        BY <2>1, <2>2, <2>3, <3>1, <4>1
      <4>3. QED
        BY <2>1, <2>3, <3>2, <3>4, <4>2
    <3>5. i \in 1..n \/ i = n + 1
      BY <1>2
    <3>6. QED
      BY <3>3, <3>4, <3>5
  <2>5. DOMAIN contexts' = 1..(n + 1)
    BY <1>6
  <2>6. /\ next_nested_ref' = next_nested_ref /\ nested_ref_start' = next_nested_ref
        /\ nested_var_registry' = nested_var_registry
    BY <1>3
  <2>7. nested_ref_start' \in NESTED_VAR_REF_START..next_nested_ref'
    BY <2>1, <2>6
  <2>8. \A i \in DOMAIN contexts' :
           /\ RefStart(i)' \in NESTED_VAR_REF_START..nested_ref_start'
           /\ \A j \in 1..i : RefStart(j)' <= RefStart(i)'
    BY <2>4, <2>5, <2>6
  <2>9. DOMAIN nested_var_registry' \subseteq NESTED_VAR_REF_START..(next_nested_ref' - 1)
    BY <1>2, <2>6 DEF RegistryInv, StartsOrdered
  <2>10. QED
    BY <2>7, <2>8, <2>9 DEF StartsOrdered
<1>9. RegistryMatches'
  <2>1. ASSUME NEW m \in Nat, m <= Len(frames)
        PROVE  {frames'[x].vars : x \in 1..m} = VariablesBelow(m)
    <3>1. \A x \in 1..m : frames'[x] = frames[x]
      BY <1>1, <1>7, <2>1
    <3>2. QED
      BY <3>1 DEF VariablesBelow
  <2>2. ASSUME NEW r \in DOMAIN nested_var_registry
        PROVE  nested_var_registry[r].of \in VariablesBelow(Len(frames))'
    <3>0. ShownOnly(VariablesBelow(Len(frames)) \union {new[Len(new)].vars})
      BY <1>3 DEF RegistryInv, RegistryMatches, new
    <3>1. nested_var_registry[r].of \in
            VariablesBelow(Len(frames)) \union {new[Len(new)].vars}
      BY <3>0 DEF ShownOnly
    <3>2. 1..Len(frames) \subseteq 1..Len(frames') /\ Len(frames') \in 1..Len(frames')
      BY <1>1, <1>7
    <3>3. new[Len(new)].vars \in VariablesBelow(Len(frames))'
      BY <1>7, <3>2 DEF VariablesBelow
    <3>4. VariablesBelow(Len(frames)) \subseteq VariablesBelow(Len(frames))'
      BY <1>7, <3>2 DEF VariablesBelow
    <3>5. QED
      BY <3>1, <3>3, <3>4
  <2>3. ASSUME NEW i \in 1..(n + 1), NEW r \in DOMAIN nested_var_registry, r < RefStart(i)'
        PROVE  nested_var_registry[r].of \in VariablesBelow(contexts[i].base)'
    <3>1. CASE i = n + 1
      <4>1. contexts'[i].base = Len(frames) /\ RefStart(i)' = nested_ref_start
        BY <1>4, <1>6, <3>1 DEF RefStart
      <4>2. nested_var_registry[r].of \in VariablesBelow(Len(frames))
        BY <2>3, <4>1 DEF RegistryInv, RegistryMatches
      <4>3. VariablesBelow(contexts[i].base)' = {frames'[x].vars : x \in 1..Len(frames)}
        BY <4>1 DEF VariablesBelow
      <4>4. QED
        BY <1>1, <2>1, <4>2, <4>3
    <3>2. CASE i # n + 1
      <4>1. i \in 1..n
        BY <1>2, <3>2
      <4>2. contexts'[i] = contexts[i] /\ RefStart(i)' = RefStart(i)
        BY <1>6, <4>1 DEF RefStart
      <4>3. nested_var_registry[r].of \in VariablesBelow(contexts[i].base)
        BY <1>2, <2>3, <4>1, <4>2 DEF RegistryInv, RegistryMatches
      <4>4. contexts[i].base \in Nat /\ contexts[i].base <= Len(frames)
        BY <1>1, <1>2, <4>1, ContextEntryType DEF IInv, TypeInv, BasesOrdered
      <4>5. VariablesBelow(contexts[i].base)' = VariablesBelow(contexts[i].base)
        BY <2>1, <4>2, <4>4 DEF VariablesBelow
      <4>6. QED
        BY <4>3, <4>5
    <3>3. QED
      BY <3>1, <3>2
  <2>4. QED
    BY <1>3, <1>6, <2>2, <2>3 DEF RegistryMatches, NoAction
<1>10. QED
  BY <1>8, <1>9 DEF RegistryInv

(* A pop forgets the references of the function that has returned.         *)
LEMMA ApplyPopRegistry ==
  ASSUME IInv, RegistryInv, update_post_step, ApplyPop
  PROVE  RegistryInv'
<1>1. /\ TypeOK /\ frames \in Seq(FrameType)
      /\ contexts \in Seq(ContextEntry) /\ contexts # << >>
  BY DEF IInv, TypeInv, TypeOK, ApplyPop
<1>2. PICK n \in Nat \ {0} : n = Len(contexts) /\ DOMAIN contexts = 1..n
  BY <1>1
<1> DEFINE top == contexts[n]
           start == RefStart(n)
<1>3. /\ top.base \in Nat /\ top.base <= Len(frames) /\ start \in Nat
      /\ \A i \in 1..n : contexts[i].base \in Nat /\ contexts[i].base <= top.base
  <2>1. n \in DOMAIN contexts /\ n \in 1..n
    BY <1>2
  <2>2. QED
    BY <1>1, <1>2, <2>1, ContextEntryType, StartsType DEF IInv, TypeInv, BasesOrdered
<1>4. /\ phase' = "pre"
      /\ action_on_new_statement' = NoAction
      /\ frames' = SubSeq(frames, 1, top.base)
      /\ contexts' = SubSeq(contexts, 1, n - 1)
      /\ nested_var_registry' = Retain(start)
      /\ next_nested_ref' = start
      /\ nested_ref_start' = start
  BY <1>2 DEF update_post_step, ApplyPop, RefStart, nested_ref_start
<1> HIDE DEF top
<1>5. Len(frames') = top.base /\ \A i \in 1..top.base : frames'[i] = frames[i]
  BY <1>1, <1>3, <1>4, Prefix
<1>6. DOMAIN contexts' = 1..(n - 1) /\ \A i \in 1..(n - 1) : contexts'[i] = contexts[i]
  <2>1. n - 1 \in Nat /\ n - 1 <= Len(contexts)
    BY <1>2
  <2>2. contexts' \in Seq(ContextEntry) /\ Len(contexts') = n - 1
    BY <1>1, <1>4, <2>1, Prefix
  <2>3. QED
    BY <1>1, <1>4, <2>1, <2>2, Prefix
<1>7. /\ DOMAIN nested_var_registry' = {r \in DOMAIN nested_var_registry : r < start}
      /\ \A r \in DOMAIN nested_var_registry' :
            nested_var_registry'[r] = nested_var_registry[r]
  BY <1>4, Retained
<1>8. \A i \in 1..(n - 1) : i \in 1..n /\ RefStart(i)' = RefStart(i)
  BY <1>2, <1>6 DEF RefStart
<1>9. StartsOrdered'
  <2>1. NESTED_VAR_REF_START \in Nat /\ DOMAIN nested_var_registry \subseteq Nat
    BY <1>1, ReferenceAssumption DEF TypeOK
  <2>2. \A i \in 1..n : /\ RefStart(i) \in Nat
                        /\ NESTED_VAR_REF_START <= RefStart(i)
                        /\ RefStart(i) <= start
                        /\ \A j \in 1..i : RefStart(j) <= RefStart(i)
    <3>1. n \in 1..n /\ \A i \in 1..n : i \in 1..n
      BY <1>2
    <3>2. QED
      BY <1>1, <1>2, <2>1, <3>1, StartsType DEF RegistryInv, StartsOrdered
  <2>3. start \in NESTED_VAR_REF_START..start
    BY <1>2, <1>3, <2>1, <2>2
  <2>4. DOMAIN nested_var_registry' \subseteq NESTED_VAR_REF_START..(start - 1)
    BY <1>3, <1>7, <2>1 DEF RegistryInv, StartsOrdered
  <2>5. ASSUME NEW i \in 1..(n - 1)
        PROVE  /\ RefStart(i)' \in NESTED_VAR_REF_START..start
               /\ \A j \in 1..i : RefStart(j)' <= RefStart(i)'
    <3>1. \A j \in 1..i : j \in 1..(n - 1)
      BY <1>2
    <3>2. QED
      BY <1>3, <1>8, <2>1, <2>2, <3>1
  <2>6. QED
    BY <1>4, <1>6, <2>3, <2>4, <2>5 DEF StartsOrdered
<1>10. RegistryMatches'
  <2>1. ASSUME NEW m \in Nat, m <= top.base
        PROVE  VariablesBelow(m)' = VariablesBelow(m)
    <3>1. \A x \in 1..m : frames'[x] = frames[x]
      BY <1>3, <1>5, <2>1
    <3>2. QED
      BY <3>1 DEF VariablesBelow
  <2>2. ASSUME NEW i \in 1..(n - 1), NEW r \in DOMAIN nested_var_registry',
               r < RefStart(i)'
        PROVE  nested_var_registry'[r].of \in VariablesBelow(contexts[i].base)'
    <3>1. nested_var_registry[r].of \in VariablesBelow(contexts[i].base)
      BY <1>2, <1>7, <1>8, <2>2 DEF RegistryInv, RegistryMatches
    <3>2. VariablesBelow(contexts[i].base)' = VariablesBelow(contexts[i].base)
      BY <1>3, <1>6, <1>8, <2>1 DEF VariablesBelow
    <3>3. QED
      BY <1>7, <3>1, <3>2
  <2>3. ASSUME NEW r \in DOMAIN nested_var_registry'
        PROVE  nested_var_registry'[r].of \in VariablesBelow(Len(frames))'
    <3>1. nested_var_registry[r].of \in VariablesBelow(top.base)
      BY <1>2, <1>7 DEF RegistryInv, RegistryMatches, top
    <3>2. VariablesBelow(Len(frames))' = VariablesBelow(top.base)
      BY <1>3, <1>5, <2>1 DEF VariablesBelow
    <3>3. QED
      BY <1>7, <3>1, <3>2
  <2>4. QED
    BY <1>4, <1>6, <2>2, <2>3 DEF RegistryMatches, NoAction
<1>11. QED
  BY <1>9, <1>10 DEF RegistryInv

LEMMA RegistryInductive ==
  ASSUME IInv, RegistryInv, [Next]_vars
  PROVE  RegistryInv'
<1>1. CASE EnterStatement
  BY <1>1, EnterStatementRegistry
<1>2. ASSUME NEW ref \in References, get_variables(ref) PROVE RegistryInv'
  BY <1>2, GetVariablesRegistry
<1>3. CASE update_post_step
  <2>1. CASE NothingToApply
    BY <1>3, <2>1, RegistryKept DEF update_post_step, NothingToApply, stackVars
  <2>2. CASE PopNothing
    <3>1. contexts = << >> /\ UNCHANGED <<frames, contexts, current_context,
                                         nested_var_registry, next_nested_ref>>
          /\ phase' = "pre"
      BY <1>3, <2>2 DEF update_post_step, PopNothing
    <3>2. RegistryInv' <=> StartsOrdered' /\ RegistryMatches'
      BY DEF RegistryInv
    <3>3. StartsOrdered'
      BY <3>1 DEF RegistryInv, StartsOrdered, RefStart, nested_ref_start
    <3>4. RegistryMatches'
      BY <3>1 DEF RegistryInv, RegistryMatches, RefStart, nested_ref_start, VariablesBelow
    <3>5. QED
      BY <3>2, <3>3, <3>4
  <2>3. QED
    BY <1>3, <2>1, <2>2, ApplyPushRegistry, ApplyPopRegistry DEF update_post_step
<1>4. CASE SkipInstruction
  <2>1. action_on_new_statement.kind = "none"
    BY <1>4 DEF SkipInstruction, IInv, StackInv, PhaseInv
  <2>2. QED
    BY <1>4, <2>1, RegistryKept DEF SkipInstruction, debuggerVars, stackVars
<1>5. CASE ExecuteInstruction
  BY <1>5, RegistryKept DEF ExecuteInstruction, debuggerVars, stackVars
<1>6. CASE FinishPreStep \/ VmError \/ VmEnd \/ HookError \/ UNCHANGED vars
  BY <1>6, RegistryKept
  DEF FinishPreStep, VmError, VmEnd, HookError, vars, vmVars, debuggerVars, stackVars
<1>7. QED
  BY <1>1, <1>2, <1>3, <1>4, <1>5, <1>6 DEF Next

LEMMA RegistryInvariant ==
  ASSUME NoTailRecursion
  PROVE  Spec => [](IInv /\ RegistryInv)
<1>1. Init => RegistryInv
  BY InitRegistry
<1>2. IInv /\ RegistryInv /\ [Next]_vars => RegistryInv'
  BY RegistryInductive
<1>3. QED
  BY <1>1, <1>2, DebuggerFollowsVm, PTL DEF Spec

(* No registered reference outlives the frame it was given out for: after  *)
(* the retain of update_pre_step and update_post_step, what is registered  *)
(* is what a frame now on the stack would show.  This says nothing of the  *)
(* ids that were dropped, which a client may still ask for.                *)
THEOREM NoReferenceIsStale ==
  ASSUME NoTailRecursion
  PROVE  Spec => []NoStaleReference
<1>1. IInv /\ RegistryInv => NoStaleReference
  <2>1. SUFFICES ASSUME IInv, RegistryInv, phase = "handle" PROVE NoStaleReference
    BY DEF NoStaleReference
  <2>2. DOMAIN frames = 1..Len(frames)
    BY <2>1 DEF IInv, TypeInv, TypeOK
  <2>3. QED
    BY <2>1, <2>2 DEF RegistryInv, RegistryMatches, ShownOnly, VariablesBelow, NoStaleReference
<1>2. QED
  BY <1>1, RegistryInvariant, PTL

----------------------------------------------------------------------------
(* Scopes and nested references do not meet. *)

LEMMA Products ==
  ASSUME NEW K \in Nat
  PROVE  /\ \A n \in Nat : K * n \in Nat /\ K * (n + 1) = K * n + K
         /\ \A m, n \in Nat : m <= n => K * m <= K * n
         /\ \A n \in Nat : K * n = n * K
  OBVIOUS

(* At most K frames for each activation suspended, when no statement has   *)
(* more than K code locations.                                             *)
LEMMA FramesBoundedInductive ==
  ASSUME IInv, NEW K \in Nat, FramesBounded(K), [Next]_vars,
         MaxDepth > 0 => \A s \in Statement : Len(FrameLocations(s)) <= K
  PROVE  FramesBounded(K)'
<1>1. /\ TypeOK /\ VmTypeOK /\ MaxDepth \in Nat
      /\ rets \in Seq(Activation) /\ Len(rets) \in Nat
      /\ contexts \in Seq(ContextEntry) /\ Len(contexts) \in Nat
      /\ frames \in Seq(FrameType) /\ Len(frames) \in Nat
  BY MaxDepthAssumption DEF IInv, TypeInv, TypeOK, VmTypeOK
<1>2. CASE UNCHANGED <<frames, contexts>> /\ Len(rets') <= MaxDepth
  BY <1>2 DEF FramesBounded
<1>3. CASE ExecuteInstruction
  <2>1. UNCHANGED <<frames, contexts>>
    BY <1>3, DebuggerUnchanged
  <2>2. CASE UNCHANGED rets
    BY <1>2, <2>1, <2>2 DEF FramesBounded
  <2>3. CASE VmCall
    <3> DEFINE suspended == [call |-> pc, arg |-> arg, executed |-> executed]
    <3>1. rets' = Append(rets, suspended) /\ Len(rets) < MaxDepth
      BY <2>3 DEF VmCall
    <3>2. Len(rets') = Len(rets) + 1
      BY <1>1, <3>1
    <3>3. QED
      BY <1>1, <1>2, <2>1, <3>1, <3>2
  <2>4. CASE VmReturn
    <3>1. rets # << >> /\ rets' = SubSeq(rets, 1, Len(rets) - 1)
      BY <2>4 DEF VmReturn
    <3>2. Len(rets) - 1 \in Nat /\ Len(rets) - 1 <= Len(rets)
      BY <1>1, <3>1
    <3>3. Len(rets') = Len(rets) - 1
      BY <1>1, <3>1, <3>2, Prefix
    <3>4. QED
      BY <1>1, <1>2, <2>1, <3>3 DEF FramesBounded
  <2>5. QED
    BY <1>3, <2>2, <2>3, <2>4
    DEF ExecuteInstruction, VmInstruction, VmStay, VmOutside, VmBranch, VmHalt
<1>4. CASE update_post_step /\ ApplyPush
  <2> DEFINE n == Len(contexts)
             new == action_on_new_statement.substack
             entry == [base |-> flat_length, context |-> current_context]
  <2>1. /\ frames' = frames \o new /\ contexts' = Append(contexts, entry) /\ rets' = rets
        /\ entry \in ContextEntry /\ entry.base = Len(frames) /\ new \in Seq(FrameType)
    BY <1>1, <1>4 DEF update_post_step, ApplyPush, vmVars, flat_length, TypeOK, ContextEntry
  <2>2. PushPending
    BY <1>4 DEF update_post_step, ApplyPush, IInv, StackInv, PhaseInv
  <2>3. n + 1 <= MaxDepth /\ Len(rets) <= MaxDepth
    BY <2>2 DEF PushPending, FramesBounded
  <2>4. Len(new) <= K
    <3>1. Len(rets) \in DOMAIN rets
      BY <1>1, <2>2, LastElement DEF PushPending
    <3>2. current_statement_idx \in Statement
      BY <1>1, <2>2, <3>1, SuspendedType DEF PushPending, LastCall
    <3>3. next_frame_id \in Nat
      BY <1>1 DEF next_frame_id, flat_length, MIN_OBJECT_REFERENCE
    <3>4. \A v : Len(SubStack(current_statement_idx, next_frame_id, v))
                  = Len(FrameLocations(current_statement_idx))
      BY <3>2, <3>3, SubStackShape
    <3>5. \E v : new = SubStack(current_statement_idx, next_frame_id, v)
      BY <2>2 DEF PushPending, CallSubStack
    <3>6. Len(FrameLocations(current_statement_idx)) <= K
      BY <1>1, <2>3, <3>2
    <3>7. QED
      BY <3>4, <3>5, <3>6
  <2> HIDE DEF new, entry
  <2>5. /\ DOMAIN contexts' = 1..(n + 1) /\ Len(contexts') = n + 1
        /\ \A i \in 1..n : i \in DOMAIN contexts /\ contexts'[i] = contexts[i]
        /\ contexts'[n + 1] = entry
    BY <1>1, <2>1
  <2>6. Len(frames') = Len(frames) + Len(new) /\ Len(new) \in Nat
    BY <1>1, <2>1
  <2>7. K * n \in Nat /\ K * (n + 1) = K * n + K
    BY <1>1, Products
  <2>8. Len(frames) <= K * n
    BY DEF FramesBounded
  <2>9. Len(frames') <= K * (n + 1)
    BY <1>1, <2>4, <2>6, <2>7, <2>8
  <2>10. \A i \in 1..(n + 1) : contexts'[i].base <= K * (i - 1)
    <3>1. (n + 1) - 1 = n
      BY <1>1
    <3>2. contexts'[n + 1].base <= K * ((n + 1) - 1)
      BY <2>1, <2>5, <2>8, <3>1
    <3>3. \A i \in 1..n : contexts'[i].base <= K * (i - 1)
      BY <2>5 DEF FramesBounded
    <3>4. \A i \in 1..(n + 1) : i \in 1..n \/ i = n + 1
      BY <1>1
    <3>5. QED
      BY <3>2, <3>3, <3>4
  <2>11. QED
    BY <2>1, <2>3, <2>5, <2>9, <2>10 DEF FramesBounded
<1>5. CASE update_post_step /\ ApplyPop
  <2> DEFINE n == Len(contexts)
             top == contexts[n]
  <2>1. /\ contexts # << >> /\ rets' = rets
        /\ frames' = SubSeq(frames, 1, top.base) /\ contexts' = SubSeq(contexts, 1, n - 1)
    BY <1>5 DEF update_post_step, ApplyPop, vmVars
  <2>2. n \in DOMAIN contexts /\ n - 1 \in Nat /\ n - 1 <= n /\ DOMAIN contexts = 1..n
    BY <1>1, <2>1
  <2>3. top.base \in Nat /\ top.base <= Len(frames)
    BY <1>1, <2>2, ContextEntryType DEF IInv, TypeInv, BasesOrdered
  <2>4. Len(frames') = top.base
    BY <1>1, <2>1, <2>3, Prefix
  <2>5. contexts' \in Seq(ContextEntry) /\ Len(contexts') = n - 1
    BY <1>1, <2>1, <2>2, Prefix
  <2>6. DOMAIN contexts' = 1..(n - 1)
    BY <2>5
  <2>7. \A i \in 1..(n - 1) : contexts'[i] = contexts[i] /\ i \in DOMAIN contexts
    BY <1>1, <2>1, <2>2, Prefix
  <2>8. top.base <= K * (n - 1)
    BY <2>2 DEF FramesBounded
  <2> HIDE DEF top
  <2>9. \A i \in DOMAIN contexts' : contexts'[i].base <= K * (i - 1)
    BY <2>6, <2>7 DEF FramesBounded
  <2>10. Len(rets') <= MaxDepth /\ Len(contexts') <= MaxDepth
    BY <1>1, <2>1, <2>5 DEF FramesBounded
  <2>11. Len(frames') <= K * Len(contexts')
    BY <2>4, <2>5, <2>8
  <2>12. QED
    BY <2>9, <2>10, <2>11 DEF FramesBounded
<1>6. CASE UNCHANGED <<frames, contexts, rets>>
  BY <1>2, <1>6 DEF FramesBounded
<1>7. CASE update_post_step
  BY <1>4, <1>5, <1>6, <1>7
  DEF update_post_step, NothingToApply, PopNothing, stackVars, vmVars
<1>8. CASE EnterStatement
  BY <1>6, <1>8 DEF EnterStatement, update_pre_step, stackVars, vmVars
<1>9. ASSUME \/ \E ref \in References : get_variables(ref)
             \/ SkipInstruction \/ FinishPreStep \/ VmError \/ VmEnd \/ HookError
             \/ UNCHANGED vars
      PROVE  FramesBounded(K)'
  BY <1>6, <1>9
  DEF get_variables, SkipInstruction, FinishPreStep, VmError, VmEnd, HookError, vars,
      debuggerVars, stackVars, vmVars
<1>10. QED
  BY <1>3, <1>7, <1>8, <1>9 DEF Next

(* There is such a K, and the scopes of all frames then stay below the     *)
(* first nested reference.                                                 *)
LEMMA FrameBound ==
  ASSUME StartsAboveScopes
  PROVE  \E K \in Nat :
           /\ 2 * (K * MaxDepth) + 4 < NESTED_VAR_REF_START
           /\ MaxDepth > 0 => \A s \in Statement : Len(FrameLocations(s)) <= K
<1> DEFINE length(s) == Len(FrameLocations(s))
<1>1. \A s \in Statement : length(s) \in Nat
  BY FrameLocationsType
<1>2. MaxDepth \in Nat /\ NESTED_VAR_REF_START \in Nat /\ 0 \in Statement
  BY MaxDepthAssumption, ReferenceAssumption, FunctionAssumption
<1>3. CASE MaxDepth = 0
  <2>1. 2 * (MaxDepth * length(0)) + 4 < NESTED_VAR_REF_START
    BY <1>2 DEF StartsAboveScopes
  <2> HIDE DEF length
  <2>2. MaxDepth * length(0) = 0 /\ 0 * MaxDepth = 0
    BY <1>1, <1>2, <1>3
  <2>3. 2 * (0 * MaxDepth) + 4 < NESTED_VAR_REF_START
    BY <2>1, <2>2
  <2>4. QED
    BY <1>3, <2>3
<1>4. CASE MaxDepth > 0
  <2> DEFINE S == {NESTED_VAR_REF_START - length(s) : s \in Statement}
  <2>1. \A s \in Statement : 2 * (length(s) * MaxDepth) + 4 < NESTED_VAR_REF_START
    <3>1. SUFFICES ASSUME NEW s \in Statement
                   PROVE  2 * (length(s) * MaxDepth) + 4 < NESTED_VAR_REF_START
      OBVIOUS
    <3>2. 2 * (MaxDepth * length(s)) + 4 < NESTED_VAR_REF_START
      BY <3>1 DEF StartsAboveScopes
    <3>3. length(s) \in Nat
      BY <1>1
    <3> HIDE DEF length
    <3>4. MaxDepth * length(s) = length(s) * MaxDepth
      BY <1>2, <3>3
    <3>5. QED
      BY <3>2, <3>4
  <2>2. \A s \in Statement : length(s) <= NESTED_VAR_REF_START
    <3>1. SUFFICES ASSUME NEW s \in Statement PROVE length(s) <= NESTED_VAR_REF_START
      OBVIOUS
    <3>2. 2 * (length(s) * MaxDepth) + 4 < NESTED_VAR_REF_START /\ length(s) \in Nat
      BY <1>1, <2>1
    <3> HIDE DEF length
    <3>3. length(s) * 1 <= length(s) * MaxDepth /\ length(s) * MaxDepth \in Nat
      BY <1>2, <1>4, <3>2, Products
    <3>4. QED
      BY <1>2, <3>2, <3>3
  <2> HIDE DEF length
  <2>3. S \in SUBSET Nat /\ S # {}
    BY <1>1, <1>2, <2>2
  <2>4. PICK m \in S : \A k \in S : m <= k
    BY <2>3, LeastElement
  <2>5. PICK t \in Statement : m = NESTED_VAR_REF_START - length(t)
    BY <2>4
  <2>6. ASSUME NEW s \in Statement PROVE length(s) <= length(t)
    <3>1. NESTED_VAR_REF_START - length(s) \in S
      OBVIOUS
    <3>2. m <= NESTED_VAR_REF_START - length(s)
      BY <2>4, <3>1
    <3>3. QED
      BY <1>1, <1>2, <2>5, <3>2
  <2>7. length(t) \in Nat /\ 2 * (length(t) * MaxDepth) + 4 < NESTED_VAR_REF_START
    BY <1>1, <2>1
  <2>8. QED
    BY <2>6, <2>7 DEF length
<1>5. QED
  BY <1>2, <1>3, <1>4

(* Within a stop a reference stands for one thing, if nested references    *)
(* start above the scopes of as many frames as the VM can suspend: what    *)
(* call_stack.rs:27 takes for granted of its constant.                     *)
THEOREM ReferencesAreUnique ==
  ASSUME NoTailRecursion, StartsAboveScopes
  PROVE  Spec => []ReferencesUnique
<1>1. PICK K \in Nat :
        /\ 2 * (K * MaxDepth) + 4 < NESTED_VAR_REF_START
        /\ MaxDepth > 0 => \A s \in Statement : Len(FrameLocations(s)) <= K
  BY FrameBound
<1>2. Init => FramesBounded(K)
  <2>1. SUFFICES ASSUME Init PROVE FramesBounded(K)
    OBVIOUS
  <2>2. rets = << >> /\ contexts = << >> /\ frames = << >> /\ MaxDepth \in Nat
    BY <2>1, MaxDepthAssumption DEF Init, VmInit
  <2>3. K * 0 = 0
    OBVIOUS
  <2>4. QED
    BY <2>2, <2>3 DEF FramesBounded
<1>3. IInv /\ FramesBounded(K) /\ [Next]_vars => FramesBounded(K)'
  BY <1>1, FramesBoundedInductive
<1>4. IInv /\ RegistryInv /\ FramesBounded(K) => ReferencesUnique
  <2>1. SUFFICES ASSUME IInv, RegistryInv, FramesBounded(K) PROVE ReferencesUnique
    OBVIOUS
  <2>2. /\ MaxDepth \in Nat /\ NESTED_VAR_REF_START \in Nat
        /\ next_nested_ref \in Nat /\ DOMAIN nested_var_registry \subseteq Nat
        /\ Len(contexts) \in Nat /\ Len(frames) \in Nat
    BY <2>1, MaxDepthAssumption, ReferenceAssumption DEF IInv, TypeInv, TypeOK
  <2>3. \A r \in DOMAIN nested_var_registry :
          NESTED_VAR_REF_START <= r /\ r < next_nested_ref
    BY <2>1, <2>2 DEF RegistryInv, StartsOrdered
  <2>4. flat_length <= K * MaxDepth
    <3>1. Len(frames) <= K * Len(contexts) /\ Len(contexts) <= MaxDepth
      BY <2>1 DEF FramesBounded
    <3>2. K * Len(contexts) <= K * MaxDepth /\ K * Len(contexts) \in Nat /\ K * MaxDepth \in Nat
      BY <2>2, <3>1, Products
    <3>3. QED
      BY <2>2, <3>1, <3>2 DEF flat_length
  <2>5. K * MaxDepth \in Nat
    BY <2>2, Products
  <2>6. \A i \in 0..(flat_length + 1) :
          get_scopes_for_frame(MIN_OBJECT_REFERENCE + 2 * i) < NESTED_VAR_REF_START
    BY <1>1, <2>2, <2>4, <2>5 DEF get_scopes_for_frame, MIN_OBJECT_REFERENCE, flat_length
  <2>7. \A i \in 0..(flat_length + 1) :
          get_scopes_for_frame(MIN_OBJECT_REFERENCE + 2 * i) \in Nat
    BY <2>2 DEF get_scopes_for_frame, MIN_OBJECT_REFERENCE, flat_length
  <2>8. QED
    BY <2>2, <2>3, <2>6, <2>7 DEF ReferencesUnique
<1>5. QED
  BY <1>2, <1>3, <1>4, RegistryInvariant, PTL DEF Spec

----------------------------------------------------------------------------
(* The trace. *)

LEMMA TraceOfItself ==
  ASSUME NEW T
  PROVE  Traces(T, T)
  BY DEF Traces

(* A branch of a statement with CASM, and what is fallen through from its  *)
(* target to the next CASM: the trace may miss the target, nothing else.   *)
LEMMA TraceExtended ==
  ASSUME NEW trace, NEW truth, Traces(trace, truth),
         NEW s \in Casm, NEW b \in Statement, NEW t \in Statement, LeadsTo(b, t)
  PROVE  Traces(trace \union {[stmt |-> s, target |-> b]} \union FallThrough(b + 1, t),
                truth \union {[stmt |-> s, target |-> b]} \union FallThrough(b, t))
<1> DEFINE e0 == [stmt |-> s, target |-> b]
           recorded == trace \union {e0} \union FallThrough(b + 1, t)
           real == truth \union {e0} \union FallThrough(b, t)
<1>1. b \in Nat /\ t \in Nat
  BY StatementNumbers
<1>2. FallThrough(b + 1, t) \subseteq FallThrough(b, t)
  <2>1. (b + 1)..(t - 1) \subseteq b..(t - 1)
    BY <1>1
  <2>2. QED
    BY <2>1 DEF FallThrough
<1>3. recorded \subseteq real
  BY <1>2 DEF Traces
<1>4. ASSUME NEW e \in real \ recorded
      PROVE  /\ ~ does_compile_to_casm(e.stmt)
             /\ \E p \in recorded : does_compile_to_casm(p.stmt) /\ p.target = e.stmt
  <2>1. CASE e \in truth
    BY <1>4, <2>1 DEF Traces
  <2>2. CASE e \in FallThrough(b, t)
    <3>1. PICK u \in b..(t - 1) : e = [stmt |-> u, target |-> u + 1]
      BY <2>2 DEF FallThrough
    <3>2. u \notin (b + 1)..(t - 1)
      BY <1>4, <3>1 DEF FallThrough
    <3>3. u = b
      BY <1>1, <3>1, <3>2
    <3>4. ~ does_compile_to_casm(e.stmt)
      BY <3>1 DEF LeadsTo
    <3>5. does_compile_to_casm(e0.stmt) /\ e0.target = e.stmt /\ e0 \in recorded
      BY <3>1, <3>3 DEF does_compile_to_casm
    <3>6. QED
      BY <3>4, <3>5
  <2>3. QED
    BY <1>4, <2>1, <2>2
<1>5. QED
  BY <1>3, <1>4 DEF Traces

(* With one path at most, the branch found is the branch taken.            *)
LEMMA BranchTaken ==
  ASSUME UnambiguousBranches,
         NEW s \in Statement, NEW t \in Statement,
         NEW b \in BranchTargets(s), LeadsTo(b, t)
  PROVE  hit_branch_entrance(s, t) = b
<1>1. HitBranches(s, t) # {}
  BY HitBranchFound
<1>2. /\ hit_branch_entrance(s, t) \in BranchTargets(s)
      /\ LeadsTo(hit_branch_entrance(s, t), t)
  BY <1>1, HitBranchType
<1>3. QED
  BY <1>2 DEF UnambiguousBranches

(* What is recorded on arriving at t through the branch b.                 *)
LEMMA RecordedOnArrival ==
  ASSUME UnambiguousBranches,
         NEW context, NEW s \in Casm, context.last_executed_statement = s,
         NEW truth, Traces(context.post_statements_registers, truth),
         NEW b \in BranchTargets(s), NEW t \in Statement, LeadsTo(b, t)
  PROVE  Traces(Recorded(context, t),
                truth \union {[stmt |-> s, target |-> b]} \union FallThrough(b, t))
<1>1. s \in Statement /\ s \in Nat /\ t \in Nat /\ s # NoStatement
  BY StatementNumbers
<1>2. b \in Statement /\ b > s /\ b \in Nat /\ b <= t
  BY <1>1, BranchTargetType, StatementNumbers DEF LeadsTo
<1>3. s # t
  BY <1>1, <1>2
<1>4. hit_branch_entrance(s, t) = b
  BY <1>1, BranchTaken
<1>5. Recorded(context, t) =
        context.post_statements_registers \union {[stmt |-> s, target |-> b]}
                                          \union FallThrough(b + 1, t)
  BY <1>1, <1>3, <1>4 DEF Recorded
<1>6. QED
  BY <1>2, <1>5, TraceExtended

(* In a function that has just been entered.                               *)
LEMMA RecordedOnEntry ==
  ASSUME NEW context, context.last_executed_statement = NoStatement,
         context.post_statements_registers = {},
         NEW e \in EntryPoints, NEW t \in Statement, LeadsTo(e, t)
  PROVE  Traces(Recorded(context, t), FallThrough(e, t))
<1>1. sierra_function_for_statement(t) = e
  BY FallThroughSameFunction, FunctionOfEntryPoint
<1>2. t # NoStatement
  BY StatementNumbers
<1>3. Recorded(context, t) = FallThrough(e, t)
  BY <1>1, <1>2 DEF Recorded
<1>4. QED
  BY <1>3, TraceOfItself

LEMMA InitTrace == Init => TraceInv
<1> SUFFICES ASSUME Init PROVE TraceInv
  OBVIOUS
<1>1. Main \in EntryPoints /\ Main \in Statement
  BY FunctionAssumption
<1>2. pc \in Statement /\ LeadsTo(Main, pc) /\ executed = FallThrough(Main, pc)
  BY <1>1, NextCasmType, StatementNumbers DEF Init, VmInit
<1>3. /\ current_context.last_executed_statement = NoStatement
      /\ current_context.post_statements_registers = {}
      /\ contexts = << >> /\ phase = "pre"
  BY DEF Init, SierraFunctionContext
<1>4. Traces(Recorded(current_context, pc), executed)
  BY <1>1, <1>2, <1>3, RecordedOnEntry
<1>5. QED
  BY <1>3, <1>4 DEF TraceInv

(* Steps of the debugger that leave the stack alone.                       *)
LEMMA TraceKept ==
  ASSUME TraceInv,
         UNCHANGED <<vmVars, contexts, current_context, action_on_new_statement>>,
         \/ phase' \notin {"pre", "handle", "exec", "post"}
         \/ phase' = phase /\ UNCHANGED next_nested_ref
         \/ phase \in {"pre", "handle", "exec"} /\ phase' \in {"pre", "handle", "exec"}
         \/ phase = "post" /\ phase' = "pre" /\ action_on_new_statement.kind = "none"
  PROVE  TraceInv'
<1>1. /\ Recorded(current_context, pc)' = Recorded(current_context, pc)
      /\ Recorded(contexts[Len(contexts)].context, pc)' =
           Recorded(contexts[Len(contexts)].context, pc)
      /\ UNCHANGED next_nested_ref =>
           Recorded(EmptyContext, pc)' = Recorded(EmptyContext, pc)
  BY DEF vmVars, Recorded, EmptyContext
<1>2. /\ UNCHANGED <<halted, executed, rets>>
      /\ \A i : contexts'[i] = contexts[i]
      /\ DOMAIN contexts' = DOMAIN contexts
      /\ current_context'.post_statements_registers = current_context.post_statements_registers
      /\ action_on_new_statement'.kind = action_on_new_statement.kind
  BY DEF vmVars
<1>3. QED
  BY <1>1, <1>2 DEF TraceInv

(* The hook records what it has to.                                        *)
LEMMA EnterStatementTrace ==
  ASSUME IInv, TraceInv, EnterStatement
  PROVE  TraceInv'
<1>1. TypeInv /\ Arriving /\ ~ halted
  BY DEF EnterStatement, AtNewStatement, IInv, StackInv, PhaseInv, Settled, AtStatement,
         HaltedOutside
<1>2. current_context.last_executed_statement # pc
  BY <1>1 DEF Arriving, last_executed_statement
<1>3. /\ phase = "pre" /\ phase' = "handle"
      /\ UNCHANGED <<contexts, vmVars>>
      /\ current_context' =
           SierraFunctionContext(current_context.post_statements_registers
                                   \union handle_branch_entrances(pc), pc,
                                 current_context.nested_ref_start)
  BY <1>1, <1>2, ArrivingFindsBranch DEF EnterStatement, update_pre_step
<1>4. Recorded(current_context, pc) =
        current_context.post_statements_registers \union handle_branch_entrances(pc)
  BY <1>2 DEF Recorded, handle_branch_entrances
<1>5. Recorded(current_context, pc)' = Recorded(current_context, pc)
  <2>1. /\ current_context'.last_executed_statement = pc
        /\ current_context'.post_statements_registers = Recorded(current_context, pc)
    BY <1>3, <1>4 DEF SierraFunctionContext
  <2>2. pc' = pc
    BY <1>3 DEF vmVars
  <2>3. QED
    BY <2>1, <2>2 DEF Recorded
<1>6. Traces(Recorded(current_context, pc), executed)
  BY <1>1, <1>3 DEF TraceInv
<1>7. UNCHANGED <<executed, rets>>
  BY <1>3 DEF vmVars
<1>8. QED
  BY <1>3, <1>5, <1>6, <1>7 DEF TraceInv

(* At a statement the debugger has seen nothing is left to record.         *)
LEMMA RecordedAtStatement ==
  ASSUME AtStatement
  PROVE  Recorded(current_context, pc) = current_context.post_statements_registers
  BY DEF AtStatement, last_executed_statement, Recorded

LEMMA BranchTrace ==
  ASSUME UnambiguousBranches, IInv, TraceInv, ExecuteInstruction, VmBranch
  PROVE  TraceInv'
<1>1. PICK b \in BranchTargets(pc) :
        /\ pc' = NextCasm(b)
        /\ executed' = executed \union {[stmt |-> pc, target |-> b]} \union FallThrough(b, pc')
  BY DEF VmBranch
<1>2. pc \in Casm /\ pc \in Statement /\ AtStatement /\ ActionIsFor(pc, arg) /\ ~ halted
  BY StatementNumbers
  DEF IInv, TypeInv, TypeOK, VmTypeOK, StackInv, PhaseInv, HaltedOutside, ExecuteInstruction,
      VmBranch
<1>3. action_on_new_statement.kind = "none"
  BY <1>2, KindsDisjoint DEF VmBranch, ActionIsFor, IsInvocation
<1>4. pc' \in Statement /\ LeadsTo(b, pc')
  BY <1>1, <1>2, BranchTargetType, NextCasmType, StatementNumbers
<1>5. Traces(current_context.post_statements_registers, executed)
  BY <1>2, RecordedAtStatement DEF TraceInv, ExecuteInstruction
<1>6. Traces(Recorded(current_context, pc'), executed')
  <2>1. current_context.last_executed_statement = pc
    BY <1>2 DEF AtStatement, last_executed_statement
  <2>2. QED
    BY <1>1, <1>2, <1>4, <1>5, <2>1, RecordedOnArrival
<1>7. UNCHANGED <<contexts, rets, current_context, action_on_new_statement>> /\ phase' = "post"
  BY DebuggerUnchanged DEF VmBranch
<1>8. Recorded(current_context, pc)' = Recorded(current_context, pc')
  BY <1>7 DEF Recorded
<1>9. QED
  BY <1>3, <1>6, <1>7, <1>8 DEF TraceInv

LEMMA CallTrace ==
  ASSUME IInv, TraceInv, ExecuteInstruction, VmCall
  PROVE  TraceInv'
<1>1. /\ pc \in Statement /\ is_function_call_statement(pc) /\ AtStatement
      /\ ActionIsFor(pc, arg) /\ SameDepth /\ ~ halted
      /\ rets \in Seq(Activation) /\ contexts \in Seq(ContextEntry)
  BY StatementNumbers
  DEF IInv, TypeInv, TypeOK, VmTypeOK, StackInv, PhaseInv, HaltedOutside, ExecuteInstruction,
      VmCall
<1>2. Callee[pc] \in EntryPoints /\ Callee[pc] \in Statement
  BY <1>1, CallContinues, FunctionAssumption
<1>3. pc' \in Statement /\ LeadsTo(Callee[pc], pc') /\ executed' = FallThrough(Callee[pc], pc')
  BY <1>2, NextCasmType, StatementNumbers DEF VmCall
<1>4. UNCHANGED <<contexts, current_context, action_on_new_statement, next_nested_ref>>
      /\ phase' = "post"
  BY DEF ExecuteInstruction, debuggerVars, stackVars
<1>5. action_on_new_statement.kind = "push"
  BY <1>1 DEF ActionIsFor
<1> DEFINE suspended == [call |-> pc, arg |-> arg, executed |-> executed]
<1>6. /\ DOMAIN contexts = DOMAIN rets
      /\ \A i \in DOMAIN rets : rets'[i] = rets[i]
      /\ rets'[Len(rets')] = suspended
  <2>1. suspended \in Activation
    BY <1>1 DEF IInv, TypeInv, TypeOK, VmTypeOK, Activation
  <2>2. rets' = Append(rets, suspended)
    BY DEF VmCall
  <2> HIDE DEF suspended
  <2>3. QED
    BY <1>1, <2>1, <2>2, Extension DEF SameDepth
<1>7. Traces(current_context.post_statements_registers, executed)
  BY <1>1, RecordedAtStatement DEF TraceInv, ExecuteInstruction
<1>8. Traces(Recorded(EmptyContext, pc'), executed')
  BY <1>2, <1>3, RecordedOnEntry DEF EmptyContext, SierraFunctionContext
<1>9. Recorded(EmptyContext, pc)' = Recorded(EmptyContext, pc')
  BY <1>4 DEF EmptyContext
<1>10. \A i \in DOMAIN contexts' :
         Traces(contexts'[i].context.post_statements_registers, rets'[i].executed)
  BY <1>4, <1>6 DEF TraceInv
<1>11. rets'[Len(rets')].executed = executed
  BY <1>6
<1>12. QED
  BY <1>4, <1>5, <1>7, <1>8, <1>9, <1>10, <1>11 DEF TraceInv

LEMMA ReturnTrace ==
  ASSUME UnambiguousBranches, IInv, TraceInv, ExecuteInstruction, VmReturn
  PROVE  TraceInv'
<1>1. /\ pc \in Statement /\ is_return_statement(pc) /\ ActionIsFor(pc, arg)
      /\ SameDepth /\ ~ halted
      /\ rets # << >>
  BY StatementNumbers
  DEF IInv, TypeInv, TypeOK, VmTypeOK, StackInv, PhaseInv, HaltedOutside, ExecuteInstruction,
      VmReturn
<1>2. rets \in Seq(Activation) /\ contexts \in Seq(ContextEntry)
  BY DEF IInv, TypeInv, TypeOK, VmTypeOK
<1>3. PICK n \in Nat \ {0} : /\ n = Len(rets) /\ n = Len(contexts)
                            /\ DOMAIN rets = 1..n /\ DOMAIN contexts = 1..n
                            /\ n \in 1..n /\ n - 1 \in Nat /\ n - 1 <= n
  BY <1>1, <1>2 DEF SameDepth
<1> DEFINE c == rets[n].call
<1>4. c \in Statement /\ is_function_call_statement(c)
  BY <1>3, SuspendedType DEF IInv, TypeInv, TypeOK, CallsSuspended
<1>5. c \in Casm /\ c + 1 \in Statement /\ BranchTargets(c) = {c + 1}
  BY <1>4, CallContinues, CallsAndReturnsAreCasm
<1>6. /\ pc' \in Statement /\ LeadsTo(c + 1, pc')
      /\ executed' = rets[n].executed \union {[stmt |-> c, target |-> c + 1]}
                                       \union FallThrough(c + 1, pc')
  BY <1>3, <1>5, NextCasmType, StatementNumbers DEF VmReturn
<1>7. /\ contexts[n].context.last_executed_statement = c
      /\ Traces(contexts[n].context.post_statements_registers, rets[n].executed)
  BY <1>3 DEF IInv, StackInv, ContextsMatch, TraceInv
<1> HIDE DEF c
<1>8. Traces(Recorded(contexts[n].context, pc'), executed')
  BY <1>5, <1>6, <1>7, RecordedOnArrival
<1>9. UNCHANGED <<contexts, current_context, action_on_new_statement>> /\ phase' = "post"
  BY DebuggerUnchanged
<1>10. action_on_new_statement.kind = "pop"
  BY <1>1 DEF ActionIsFor
<1>11. \A i \in DOMAIN rets' : i \in DOMAIN rets /\ rets'[i] = rets[i]
  <2>1. rets' \in Seq(Activation) /\ Len(rets') = n - 1
    BY <1>2, <1>3, Prefix DEF VmReturn
  <2>2. DOMAIN rets' = 1..(n - 1) /\ \A i \in 1..(n - 1) : i \in 1..n
    BY <1>3, <2>1
  <2>3. QED
    BY <1>2, <1>3, <2>2, Prefix DEF VmReturn
<1>12. Recorded(contexts[Len(contexts)].context, pc)' = Recorded(contexts[n].context, pc')
  BY <1>3, <1>9 DEF Recorded
<1>13. \A i \in DOMAIN contexts' : i \in DOMAIN rets' =>
         Traces(contexts'[i].context.post_statements_registers, rets'[i].executed)
  BY <1>9, <1>11 DEF TraceInv
<1>14. QED
  BY <1>8, <1>9, <1>10, <1>12, <1>13 DEF TraceInv

LEMMA OutsideTrace ==
  ASSUME IInv, TraceInv, ExecuteInstruction, VmStay \/ VmOutside
  PROVE  TraceInv'
<1>1. action_on_new_statement.kind = "none"
  <2>1. CASE VmStay
    BY <2>1 DEF IInv, StackInv, ExecuteInstruction, PhaseInv, VmStay, ActionIsFor, IsInvocation
  <2>2. CASE VmOutside
    BY <2>2 DEF IInv, StackInv, ExecuteInstruction, PhaseInv, VmOutside
  <2>3. QED
    BY <2>1, <2>2
<1>2. UNCHANGED <<pc, halted, rets, executed, contexts, current_context,
                  action_on_new_statement>>
      /\ phase = "exec" /\ phase' = "post"
  BY DebuggerUnchanged DEF ExecuteInstruction, VmStay, VmOutside
<1>3. Recorded(current_context, pc)' = Recorded(current_context, pc)
  BY <1>2 DEF Recorded
<1>4. QED
  BY <1>1, <1>2, <1>3 DEF TraceInv

LEMMA ExecuteInstructionTrace ==
  ASSUME UnambiguousBranches, IInv, TraceInv, ExecuteInstruction
  PROVE  TraceInv'
<1>1. CASE VmHalt
  <2>1. UNCHANGED <<contexts, rets, action_on_new_statement>> /\ halted'
    BY <1>1, DebuggerUnchanged DEF VmHalt
  <2>2. action_on_new_statement.kind = "pop"
    BY <1>1 DEF IInv, StackInv, PhaseInv, ExecuteInstruction, VmHalt, ActionIsFor
  <2>3. QED
    BY <2>1, <2>2 DEF TraceInv
<1>2. QED
  BY <1>1, BranchTrace, CallTrace, ReturnTrace, OutsideTrace
  DEF ExecuteInstruction, VmInstruction

LEMMA ApplyPushTrace ==
  ASSUME IInv, TraceInv, update_post_step, ApplyPush
  PROVE  TraceInv'
<1> DEFINE entry == [base |-> flat_length, context |-> current_context]
<1>1. /\ phase = "post" /\ phase' = "pre" /\ action_on_new_statement.kind = "push"
      /\ UNCHANGED vmVars
      /\ current_context' = EmptyContext
      /\ contexts' = Append(contexts, entry)
  BY DEF update_post_step, ApplyPush, EmptyContext
<1>2. contexts \in Seq(ContextEntry) /\ entry \in ContextEntry
  BY DEF IInv, TypeInv, TypeOK, ContextEntry, flat_length
<1>3. entry.context = current_context /\ Len(rets) = Len(contexts) + 1
  BY <1>1 DEF IInv, StackInv, PhaseInv, PushPending
<1> HIDE DEF entry
<1>4. /\ DOMAIN contexts' = DOMAIN contexts \union {Len(contexts) + 1}
      /\ \A i \in DOMAIN contexts : contexts'[i] = contexts[i]
      /\ contexts'[Len(contexts) + 1] = entry
  BY <1>1, <1>2, Extension
<1>5. UNCHANGED <<pc, rets, executed, halted>>
  BY <1>1 DEF vmVars
<1>6. \A i \in DOMAIN contexts' : i \in DOMAIN rets' =>
        Traces(contexts'[i].context.post_statements_registers, rets'[i].executed)
  <2>1. Traces(current_context.post_statements_registers, rets[Len(contexts) + 1].executed)
    BY <1>1, <1>3 DEF TraceInv
  <2>2. QED
    BY <1>3, <1>4, <1>5, <2>1 DEF TraceInv
<1>7. Recorded(current_context, pc)' = Recorded(EmptyContext, pc)
  BY <1>1, <1>5 DEF Recorded
<1>8. QED
  BY <1>1, <1>5, <1>6, <1>7 DEF TraceInv

LEMMA ApplyPopTrace ==
  ASSUME IInv, TraceInv, update_post_step, ApplyPop
  PROVE  TraceInv'
<1> DEFINE n == Len(contexts)
<1>1. /\ phase = "post" /\ phase' = "pre" /\ action_on_new_statement.kind = "pop"
      /\ UNCHANGED vmVars
      /\ contexts # << >>
      /\ current_context' = contexts[n].context
      /\ contexts' = SubSeq(contexts, 1, n - 1)
  BY DEF update_post_step, ApplyPop
<1>2. UNCHANGED <<pc, rets, executed, halted>>
  BY <1>1 DEF vmVars
<1>3. \A i \in DOMAIN contexts' : i \in DOMAIN contexts /\ contexts'[i] = contexts[i]
  <2>1. contexts \in Seq(ContextEntry) /\ n - 1 \in Nat /\ n - 1 <= n /\ DOMAIN contexts = 1..n
    BY <1>1 DEF IInv, TypeInv, TypeOK
  <2>2. contexts' \in Seq(ContextEntry) /\ Len(contexts') = n - 1
    BY <1>1, <2>1, Prefix
  <2>3. DOMAIN contexts' = 1..(n - 1) /\ \A i \in 1..(n - 1) : i \in 1..n
    BY <2>1, <2>2
  <2>4. QED
    BY <1>1, <2>1, <2>3, Prefix
<1>4. Recorded(current_context, pc)' = Recorded(contexts[n].context, pc)
  BY <1>1, <1>2 DEF Recorded
<1>5. \A i \in DOMAIN contexts' : i \in DOMAIN rets' =>
        Traces(contexts'[i].context.post_statements_registers, rets'[i].executed)
  BY <1>2, <1>3 DEF TraceInv
<1>6. QED
  BY <1>1, <1>2, <1>4, <1>5 DEF TraceInv

LEMMA TraceInductive ==
  ASSUME UnambiguousBranches, IInv, TraceInv, [Next]_vars
  PROVE  TraceInv'
<1>1. CASE EnterStatement
  BY <1>1, EnterStatementTrace
<1>2. CASE ExecuteInstruction
  BY <1>2, ExecuteInstructionTrace
<1>3. CASE update_post_step
  <2>1. CASE NothingToApply
    BY <1>3, <2>1, TraceKept DEF update_post_step, NothingToApply, stackVars
  <2>2. CASE PopNothing
    <3>1. contexts = << >> /\ UNCHANGED <<contexts, rets, halted>> /\ phase' = "pre"
      BY <1>3, <2>2 DEF update_post_step, PopNothing, vmVars
    <3>2. halted
      BY <1>3, <2>2 DEF IInv, StackInv, PhaseInv, TypeInv, TypeOK, VmTypeOK, PopPending,
                        update_post_step, PopNothing
    <3>3. QED
      BY <3>1, <3>2 DEF TraceInv
  <2>3. QED
    BY <1>3, <2>1, <2>2, ApplyPushTrace, ApplyPopTrace DEF update_post_step
<1>4. ASSUME \/ \E ref \in References : get_variables(ref)
             \/ SkipInstruction \/ FinishPreStep \/ VmError \/ VmEnd \/ HookError
             \/ UNCHANGED vars
      PROVE  TraceInv'
  <2>1. UNCHANGED <<vmVars, contexts, current_context, action_on_new_statement>>
    BY <1>4
    DEF get_variables, SkipInstruction, FinishPreStep, VmError, VmEnd, HookError, vars,
        debuggerVars, stackVars
  <2>2. \/ phase' = "ended"
        \/ phase \in {"pre", "handle", "exec"} /\ phase' \in {"pre", "handle", "exec"}
        \/ phase' = phase /\ UNCHANGED next_nested_ref
    BY <1>4
    DEF get_variables, SkipInstruction, FinishPreStep, VmError, VmEnd, HookError, vars,
        debuggerVars, stackVars
  <2>3. QED
    BY <2>1, <2>2, TraceKept
<1>5. QED
  BY <1>1, <1>2, <1>3, <1>4 DEF Next

(* What is read at a stop is right at each point of the VM loop (ReadInv   *)
(* says how): the registry of references and the recorded trace.           *)
THEOREM ReadingsFollowVm ==
  ASSUME NoTailRecursion, UnambiguousBranches
  PROVE  Spec => []ReadInv
<1>1. Init => TraceInv
  BY InitTrace
<1>2. IInv /\ TraceInv /\ [Next]_vars => TraceInv'
  BY TraceInductive
<1>3. IInv /\ RegistryInv /\ TraceInv => ReadInv
  BY DEF ReadInv
<1>4. QED
  BY <1>1, <1>2, <1>3, RegistryInvariant, PTL DEF Spec

(* The statements from which variables are read were executed, through the *)
(* branch recorded; only the targets of branches without CASM are missed.  *)
(* handle_branch_entrances takes the first branch that could have led to   *)
(* the statement, so no two of them may (call_stack.rs:472).               *)
THEOREM TraceIsAlwaysSound ==
  ASSUME NoTailRecursion, UnambiguousBranches
  PROVE  Spec => []TraceIsSound
<1>1. IInv /\ ReadInv => TraceIsSound
  <2>1. SUFFICES ASSUME IInv, TraceInv, phase = "handle" PROVE TraceIsSound
    BY DEF TraceIsSound, ReadInv
  <2>2. AtStatement /\ ~ halted
    BY <2>1 DEF IInv, StackInv, PhaseInv, HaltedOutside
  <2>3. Traces(current_context.post_statements_registers, executed)
    BY <2>1, <2>2, RecordedAtStatement DEF TraceInv
  <2>4. \A i \in 1..Len(contexts) : i \in DOMAIN contexts /\ i \in DOMAIN rets
    BY <2>1, StopDepth DEF IInv, TypeInv, TypeOK
  <2>5. QED
    BY <2>1, <2>3, <2>4 DEF TraceInv, TraceIsSound
<1>2. QED
  BY <1>1, DebuggerFollowsVm, ReadingsFollowVm, PTL
=============================================================================
