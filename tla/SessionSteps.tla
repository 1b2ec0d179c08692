---------------------------- MODULE SessionSteps ----------------------------
(***************************************************************************)
(* The steps of a session: that what the debugger decides by the depth of  *)
(* its shadow stack is right by the depth of the VM's, and that a step is  *)
(* over where the debugger stops and nowhere else.                         *)
(***************************************************************************)
EXTENDS SessionInvariant, SessionProofs, CallStackReadings, FiniteSetTheorems

----------------------------------------------------------------------------
(* How deep the VM's stack of calls is. *)

LEMMA LengthOfFrames ==
  ASSUME NEW s \in Statement
  PROVE  /\ Len(FrameLocations(s)) \in Nat \ {0}
         /\ DOMAIN FrameLocations(s) = 1..Len(FrameLocations(s))
  BY FrameLocationsType

LEMMA PathFramesFinite ==
  ASSUME NEW path \in Seq(Statement), NEW n \in Nat, n <= Len(path)
  PROVE  IsFiniteSet(PathFrames(path, n)) /\ Cardinality(PathFrames(path, n)) \in Nat
<1> DEFINE f == [i \in 1..n |-> {i} \X DOMAIN FrameLocations(path[i])]
           T == {{i} \X DOMAIN FrameLocations(path[i]) : i \in 1..n}
<1>1. IsFiniteSet(1..n)
  BY FS_Interval
<1>2. f \in Surjection(1..n, T)
  BY DEF Surjection
<1>3. ASSUME NEW i \in 1..n
      PROVE  IsFiniteSet({i} \X DOMAIN FrameLocations(path[i]))
  <2>1. path[i] \in Statement
    OBVIOUS
  <2> DEFINE m == Len(FrameLocations(path[i]))
  <2>2. m \in Nat /\ DOMAIN FrameLocations(path[i]) = 1..m
    BY <2>1, LengthOfFrames
  <2> HIDE DEF m
  <2>3. IsFiniteSet(1..m)
    BY <2>2, FS_Interval
  <2>4. IsFiniteSet({i})
    BY FS_Singleton
  <2>5. QED
    BY <2>2, <2>3, <2>4, FS_Product
<1>4. IsFiniteSet(T)
  <2> HIDE DEF f, T
  <2>1. QED
    BY <1>1, <1>2, FS_Surjection
<1>5. IsFiniteSet(UNION T)
  <2>1. \A t \in T : IsFiniteSet(t)
    BY <1>3
  <2> HIDE DEF T
  <2>2. QED
    BY <1>4, <2>1, FS_UNION
<1>6. QED
  BY <1>5, FS_CardinalityType DEF PathFrames

(* One more call counts for its frames.                                    *)
LEMMA PathFramesGrow ==
  ASSUME NEW path \in Seq(Statement), NEW n \in Nat, n + 1 <= Len(path)
  PROVE  Cardinality(PathFrames(path, n + 1)) =
           Cardinality(PathFrames(path, n)) + Len(FrameLocations(path[n + 1]))
<1> DEFINE m == Len(FrameLocations(path[n + 1]))
           S == PathFrames(path, n)
           T == {n + 1} \X DOMAIN FrameLocations(path[n + 1])
<1>1. path[n + 1] \in Statement /\ n <= Len(path)
  OBVIOUS
<1>2. m \in Nat /\ DOMAIN FrameLocations(path[n + 1]) = 1..m
  BY <1>1, LengthOfFrames
<1>3. IsFiniteSet(S) /\ Cardinality(S) \in Nat
  BY <1>1, PathFramesFinite
<1>4. IsFiniteSet(T) /\ Cardinality(T) = m
  <2> HIDE DEF m
  <2>1. IsFiniteSet(1..m) /\ Cardinality(1..m) = m
    <3>1. m \in Int /\ 1 \in Int
      BY <1>2
    <3>2. /\ IsFiniteSet(1..m)
          /\ Cardinality(1..m) = IF 1 > m THEN 0 ELSE m - 1 + 1
      BY <3>1, FS_Interval, Zenon
    <3>3. QED
      BY <1>2, <3>2
  <2>2. IsFiniteSet({n + 1}) /\ Cardinality({n + 1}) = 1
    BY FS_Singleton
  <2>3. /\ IsFiniteSet({n + 1} \X (1..m))
        /\ Cardinality({n + 1} \X (1..m)) = Cardinality({n + 1}) * Cardinality(1..m)
    BY <2>1, <2>2, FS_Product
  <2>4. 1 * m = m
    BY <1>2
  <2>5. QED
    BY <1>2, <2>1, <2>2, <2>3, <2>4
<1>5. PathFrames(path, n + 1) = S \union T
  <2>1. 1..(n + 1) = 1..n \union {n + 1}
    OBVIOUS
  <2>2. QED
    BY <2>1 DEF PathFrames
<1>6. Cardinality(S \cap T) = 0
  <2>1. S \cap T = {}
    BY DEF PathFrames
  <2>2. QED
    BY <2>1, FS_EmptySet
<1> HIDE DEF S, T, m
<1>7. Cardinality(S \union T) = Cardinality(S) + Cardinality(T) - 0
  BY <1>3, <1>4, <1>6, FS_Union
<1>8. Cardinality(S \union T) = Cardinality(S) + m
  BY <1>2, <1>3, <1>4, <1>7
<1>9. QED
  BY <1>5, <1>8 DEF S, m

(* The path of a session is that of the activations the VM has suspended.  *)
LEMMA VmPathType ==
  ASSUME VmTypeOK
  PROVE  /\ VmPath \in Seq(Statement) /\ Len(VmPath) = Len(rets)
         /\ \A i \in 1..Len(rets) : VmPath[i] = rets[i].call
         /\ \A n \in 0..Len(rets) : PathFrames(VmPath, n) = VmFrames(n)
<1>1. rets \in Seq(Activation) /\ Len(rets) \in Nat /\ DOMAIN rets = 1..Len(rets)
  BY DEF VmTypeOK
<1>2. VmPath = [i \in 1..Len(rets) |-> rets[i].call]
  BY <1>1 DEF VmPath
<1>3. \A i \in 1..Len(rets) : rets[i].call \in Statement
  BY <1>1, SuspendedType
<1>4. VmPath \in Seq(Statement) /\ Len(VmPath) = Len(rets)
  BY <1>1, <1>2, <1>3
<1>5. ASSUME NEW n \in 0..Len(rets)
      PROVE  PathFrames(VmPath, n) = VmFrames(n)
  <2>1. \A i \in 1..n : VmPath[i] = rets[i].call
    BY <1>1, <1>2
  <2>2. QED
    BY <2>1 DEF PathFrames, VmFrames
<1>6. QED
  BY <1>2, <1>4, <1>5

LEMMA VmFramesFinite ==
  ASSUME VmTypeOK, NEW n \in Nat, n <= Len(rets)
  PROVE  Cardinality(VmFrames(n)) \in Nat
<1>1. Len(rets) \in Nat
  BY DEF VmTypeOK
<1>2. n \in 0..Len(rets) /\ n <= Len(VmPath)
  BY <1>1, VmPathType
<1>3. QED
  BY <1>2, VmPathType, PathFramesFinite

LEMMA VmFramesGrow ==
  ASSUME VmTypeOK, NEW n \in Nat, n + 1 <= Len(rets)
  PROVE  Cardinality(VmFrames(n + 1)) =
           Cardinality(VmFrames(n)) + Len(FrameLocations(rets[n + 1].call))
<1>1. Len(rets) \in Nat
  BY DEF VmTypeOK
<1>2. n \in 0..Len(rets) /\ n + 1 \in 0..Len(rets) /\ n + 1 \in 1..Len(rets)
  BY <1>1
<1>3. VmPath[n + 1] = rets[n + 1].call /\ n + 1 <= Len(VmPath)
  BY <1>2, VmPathType
<1>4. PathFrames(VmPath, n) = VmFrames(n) /\ PathFrames(VmPath, n + 1) = VmFrames(n + 1)
  BY <1>2, VmPathType
<1>5. QED
  BY <1>3, <1>4, VmPathType, PathFramesGrow

(* The frames of activations that stay suspended stay.                     *)
LEMMA VmFramesKept ==
  ASSUME NEW n \in Nat, \A i \in 1..n : rets'[i] = rets[i]
  PROVE  VmFrames(n)' = VmFrames(n)
  BY DEF VmFrames

LEMMA NoVmFrames == VmFrames(0) = {} /\ Cardinality(VmFrames(0)) = 0
<1>1. VmFrames(0) = {}
  BY DEF VmFrames
<1>2. QED
  BY <1>1, FS_EmptySet

(* Where neither the stack nor the activations it shows change.            *)
LEMMA FramesCountedKept ==
  ASSUME TypeOK, FramesCounted, UNCHANGED <<frames, contexts>>,
         \A i \in 1..(Len(contexts) - 1) : rets'[i] = rets[i],
         Len(contexts) <= Len(rets') =>
           Len(contexts) <= Len(rets) /\ \A i \in 1..Len(contexts) : rets'[i] = rets[i]
  PROVE  FramesCounted'
<1>1. contexts \in Seq(ContextEntry)
  BY DEF TypeOK
<1>2. DOMAIN contexts = 1..Len(contexts) /\ Len(contexts) \in Nat
  BY <1>1
<1>3. ASSUME NEW i \in DOMAIN contexts
      PROVE  contexts[i].base = Cardinality(VmFrames(i - 1)')
  <2>1. i - 1 \in Nat /\ \A k \in 1..(i - 1) : k \in 1..(Len(contexts) - 1)
    BY <1>2
  <2>2. VmFrames(i - 1)' = VmFrames(i - 1)
    BY <2>1, VmFramesKept
  <2>3. QED
    BY <2>2 DEF FramesCounted
<1>4. ASSUME Len(contexts) <= Len(rets')
      PROVE  Len(frames) = Cardinality(VmFrames(Len(contexts))')
  <2>1. VmFrames(Len(contexts))' = VmFrames(Len(contexts))
    BY <1>2, <1>4 DEF VmFrames
  <2>2. QED
    BY <1>4, <2>1 DEF FramesCounted
<1>5. QED
  BY <1>3, <1>4 DEF FramesCounted

LEMMA ApplyPushCounted ==
  ASSUME IInv, FramesCounted, update_post_step, ApplyPush
  PROVE  FramesCounted'
<1> DEFINE n == Len(contexts)
           new == action_on_new_statement.substack
           entry == [base |-> flat_length, context |-> current_context]
<1>1. /\ TypeOK /\ VmTypeOK
      /\ rets \in Seq(Activation) /\ Len(rets) \in Nat
      /\ contexts \in Seq(ContextEntry) /\ n \in Nat
      /\ frames \in Seq(FrameType) /\ Len(frames) \in Nat
  BY DEF IInv, TypeInv, TypeOK, VmTypeOK
<1>2. /\ frames' = frames \o new /\ contexts' = Append(contexts, entry) /\ rets' = rets
      /\ entry \in ContextEntry /\ entry.base = Len(frames) /\ new \in Seq(FrameType)
  BY <1>1 DEF update_post_step, ApplyPush, vmVars, flat_length, TypeOK, ContextEntry
<1>3. PushPending
  BY DEF update_post_step, ApplyPush, IInv, StackInv, PhaseInv
<1>4. Len(rets) = n + 1 /\ LastCall = rets[n + 1].call /\ LastCall = current_statement_idx
  BY <1>3 DEF PushPending, LastCall
<1>5. current_statement_idx \in Statement
  <2>1. n + 1 \in DOMAIN rets
    BY <1>1, <1>4
  <2>2. rets[n + 1].call \in Statement
    BY <1>1, <2>1, SuspendedType
  <2>3. QED
    BY <1>4, <2>2
<1>6. Len(new) = Len(FrameLocations(rets[n + 1].call))
  <2>1. next_frame_id \in Nat
    BY <1>1 DEF next_frame_id, flat_length, MIN_OBJECT_REFERENCE
  <2>2. \A v : Len(SubStack(current_statement_idx, next_frame_id, v))
                = Len(FrameLocations(current_statement_idx))
    BY <1>5, <2>1, SubStackShape
  <2>3. \E v : new = SubStack(current_statement_idx, next_frame_id, v)
    BY <1>3 DEF PushPending, CallSubStack
  <2>4. QED
    BY <1>4, <2>2, <2>3
<1> HIDE DEF new, entry
<1>7. /\ DOMAIN contexts' = 1..(n + 1) /\ Len(contexts') = n + 1
      /\ \A i \in 1..n : i \in DOMAIN contexts /\ contexts'[i] = contexts[i]
      /\ contexts'[n + 1] = entry
  BY <1>1, <1>2
<1>8. Len(frames') = Len(frames) + Len(new) /\ Len(new) \in Nat
  BY <1>1, <1>2
<1>9. \A k : VmFrames(k)' = VmFrames(k)
  BY <1>2 DEF VmFrames
<1>10. Len(frames) = Cardinality(VmFrames(n))
  BY <1>1, <1>4 DEF FramesCounted
<1>11. ASSUME NEW i \in DOMAIN contexts'
       PROVE  contexts'[i].base = Cardinality(VmFrames(i - 1))
  <2>1. CASE i = n + 1
    <3>1. i - 1 = n
      BY <1>1, <2>1
    <3>2. QED
      BY <1>2, <1>7, <1>10, <2>1, <3>1
  <2>2. CASE i \in 1..n
    BY <1>7, <2>2 DEF FramesCounted
  <2>3. QED
    BY <1>1, <1>7, <2>1, <2>2
<1>12. Len(frames') = Cardinality(VmFrames(n + 1))
  <2>1. Cardinality(VmFrames(n + 1)) =
          Cardinality(VmFrames(n)) + Len(FrameLocations(rets[n + 1].call))
    <3>1. VmTypeOK /\ n \in Nat /\ n + 1 <= Len(rets)
      BY <1>1, <1>4
    <3> HIDE DEF n
    <3>2. QED
      BY <3>1, VmFramesGrow
  <2>2. QED
    BY <1>6, <1>8, <1>10, <2>1
<1>13. QED
  BY <1>7, <1>9, <1>11, <1>12 DEF FramesCounted

LEMMA ApplyPopCounted ==
  ASSUME IInv, FramesCounted, update_post_step, ApplyPop
  PROVE  FramesCounted'
<1> DEFINE n == Len(contexts)
           top == contexts[n]
<1>1. /\ TypeOK
      /\ contexts \in Seq(ContextEntry) /\ n \in Nat
      /\ frames \in Seq(FrameType) /\ Len(frames) \in Nat
  BY DEF IInv, TypeInv, TypeOK
<1>2. /\ contexts # << >> /\ rets' = rets
      /\ frames' = SubSeq(frames, 1, top.base) /\ contexts' = SubSeq(contexts, 1, n - 1)
  BY DEF update_post_step, ApplyPop, vmVars
<1>3. n \in DOMAIN contexts /\ n - 1 \in Nat /\ n - 1 <= n /\ DOMAIN contexts = 1..n
  BY <1>1, <1>2
<1>4. top.base \in Nat /\ top.base <= Len(frames)
  BY <1>1, <1>3, ContextEntryType DEF IInv, TypeInv, BasesOrdered
<1>5. Len(frames') = top.base
  BY <1>1, <1>2, <1>4, Prefix
<1>6. contexts' \in Seq(ContextEntry) /\ Len(contexts') = n - 1
  BY <1>1, <1>2, <1>3, Prefix
<1>7. DOMAIN contexts' = 1..(n - 1)
  BY <1>6
<1>8. \A i \in 1..(n - 1) : contexts'[i] = contexts[i] /\ i \in DOMAIN contexts
  BY <1>1, <1>2, <1>3, Prefix
<1>9. top.base = Cardinality(VmFrames(n - 1))
  BY <1>3 DEF FramesCounted
<1> HIDE DEF top
<1>10. \A k : VmFrames(k)' = VmFrames(k)
  BY <1>2 DEF VmFrames
<1>11. \A i \in DOMAIN contexts' : contexts'[i].base = Cardinality(VmFrames(i - 1))
  BY <1>7, <1>8 DEF FramesCounted
<1>12. Len(frames') = Cardinality(VmFrames(Len(contexts')))
  BY <1>5, <1>6, <1>9
<1>13. QED
  BY <1>10, <1>11, <1>12 DEF FramesCounted

LEMMA FramesCountedInductive ==
  ASSUME IInv, FramesCounted, [Next]_vars
  PROVE  FramesCounted'
<1>1. /\ TypeOK /\ VmTypeOK
      /\ rets \in Seq(Activation) /\ Len(rets) \in Nat /\ DOMAIN rets = 1..Len(rets)
      /\ contexts \in Seq(ContextEntry) /\ Len(contexts) \in Nat
  BY DEF IInv, TypeInv, TypeOK, VmTypeOK
<1>2. CASE UNCHANGED <<frames, contexts, rets>>
  BY <1>1, <1>2, FramesCountedKept
<1>3. CASE ExecuteInstruction
  <2>1. UNCHANGED <<frames, contexts>>
    BY <1>3, DebuggerUnchanged
  <2>2. Len(contexts) = Len(rets)
    BY <1>3 DEF ExecuteInstruction, IInv, StackInv, PhaseInv, SameDepth
  <2>3. CASE VmCall
    <3> DEFINE suspended == [call |-> pc, arg |-> arg, executed |-> executed]
    <3>1. suspended \in Activation
      BY <1>1, StatementNumbers DEF TypeOK, VmTypeOK, Activation
    <3>2. rets' = Append(rets, suspended)
      BY <2>3 DEF VmCall
    <3> HIDE DEF suspended
    <3>3. \A i \in DOMAIN rets : rets'[i] = rets[i]
      BY <1>1, <3>1, <3>2, Extension
    <3>4. \A i \in 1..(Len(contexts) - 1) : i \in DOMAIN rets
      BY <1>1, <2>2
    <3>5. QED
      BY <1>1, <2>1, <2>2, <3>3, <3>4, FramesCountedKept
  <2>4. CASE VmReturn
    <3>1. rets # << >> /\ rets' = SubSeq(rets, 1, Len(rets) - 1)
      BY <2>4 DEF VmReturn
    <3>2. Len(rets) - 1 \in Nat /\ Len(rets) - 1 <= Len(rets)
      BY <1>1, <3>1
    <3>3. /\ Len(rets') = Len(rets) - 1
          /\ \A i \in 1..(Len(rets) - 1) : rets'[i] = rets[i]
      BY <1>1, <3>1, <3>2, Prefix
    <3>4. ~ Len(contexts) <= Len(rets')
      BY <1>1, <2>2, <3>3
    <3>5. QED
      BY <1>1, <2>1, <2>2, <3>3, <3>4, FramesCountedKept
  <2>5. QED
    BY <1>2, <1>3, <2>1, <2>3, <2>4
    DEF ExecuteInstruction, VmInstruction, VmStay, VmOutside, VmBranch, VmHalt
<1>4. CASE update_post_step
  BY <1>2, <1>4, ApplyPushCounted, ApplyPopCounted
  DEF update_post_step, NothingToApply, PopNothing, stackVars, vmVars
<1>5. CASE EnterStatement
  BY <1>2, <1>5 DEF EnterStatement, update_pre_step, stackVars, vmVars
<1>6. ASSUME \/ \E ref \in References : get_variables(ref)
             \/ SkipInstruction \/ FinishPreStep \/ VmError \/ VmEnd \/ HookError
             \/ UNCHANGED vars
      PROVE  FramesCounted'
  BY <1>2, <1>6
  DEF get_variables, SkipInstruction, FinishPreStep, VmError, VmEnd, HookError, vars,
      debuggerVars, stackVars, vmVars
<1>7. QED
  BY <1>3, <1>4, <1>5, <1>6 DEF Next

LEMMA InitCounted == Init => FramesCounted
<1> SUFFICES ASSUME Init PROVE FramesCounted
  OBVIOUS
<1>1. frames = << >> /\ contexts = << >>
  BY DEF Init
<1>2. Len(frames) = 0 /\ Len(contexts) = 0 /\ DOMAIN contexts = {}
  BY <1>1
<1>3. QED
  BY <1>2, NoVmFrames DEF FramesCounted

(* While requests are served the depth the debugger reads off its stack is *)
(* that of the VM's.                                                       *)
LEMMA DepthAgrees ==
  ASSUME IInv, FramesCounted, phase = "handle"
  PROVE  /\ depth(current_statement_idx) = VmDepth
         /\ depth(current_statement_idx) \in Nat \ {0}
         /\ pc = current_statement_idx /\ pc \in Casm
<1>1. /\ TypeOK /\ VmTypeOK /\ frames \in Seq(FrameType) /\ Len(frames) \in Nat
      /\ rets \in Seq(Activation) /\ Len(rets) \in Nat /\ pc \in Casm
  BY DEF IInv, TypeInv, TypeOK, VmTypeOK
<1>2. pc = current_statement_idx /\ Len(contexts) = Len(rets) /\ pc \in Statement
  BY <1>1, StatementNumbers DEF IInv, StackInv, PhaseInv, SameDepth, AtStatement
<1>3. Len(frames) = Cardinality(VmFrames(Len(rets)))
  BY <1>1, <1>2 DEF FramesCounted
<1>4. Len(FrameLocations(pc)) \in Nat \ {0}
  BY <1>2, LengthOfFrames
<1>5. QED
  BY <1>1, <1>2, <1>3, <1>4 DEF depth, flat_length, VmDepth

----------------------------------------------------------------------------
(* Steps. *)

StepInv == PlaceOfHook /\ StepIsLast /\ StepIsChecked /\ StepStopsAtItsDepth

(* What a step leaves alone that touches neither the VM nor a step.        *)
Undisturbed == UNCHANGED <<pc, rets, current_statement_idx, step_action, resumption>>

LEMMA SameOver ==
  ASSUME Undisturbed
  PROVE  VmDepth' = VmDepth
  BY DEF Undisturbed, VmDepth, VmFrames

(* The debugger's thread is where it was, or at a place nothing is said of *)
(* that the hook allows.                                                   *)
LEMMA UndisturbedKeeps ==
  ASSUME StepInv, Undisturbed, PlaceOfHook',
         at' = "step_paused" => at = "step_paused",
         at' \in {"vm", "poll", "step_paused", "poll_paused"} =>
           at \in {"vm", "poll", "step_paused", "poll_paused"}
  PROVE  StepInv'
<1>1. VmDepth' = VmDepth
  BY SameOver
<1>2. StepIsLast'
  BY DEF StepInv, Undisturbed, StepIsLast
<1>3. StepIsChecked'
  BY <1>1 DEF StepInv, Undisturbed, StepIsChecked
<1>4. StepStopsAtItsDepth'
  BY <1>1 DEF StepInv, Undisturbed, StepStopsAtItsDepth
<1>5. QED
  BY <1>2, <1>3, <1>4 DEF StepInv

LEMMA DropKeeps ==
  ASSUME StepInv, NEW messages, NEW how \in Over, Drop(messages, how),
         UNCHANGED <<step_action, resumption>>
  PROVE  StepInv'
<1>1. Undisturbed
  BY DEF Drop, HookError, Undisturbed, vmVars, debuggerVars
<1>2. at' = how /\ at' \in Over
  BY DEF Drop
<1>3. PlaceOfHook'
  BY <1>2 DEF PlaceOfHook, Over, Serving, Paused
<1>4. QED
  BY <1>1, <1>2, <1>3, UndisturbedKeeps DEF Over

(* A request that leaves the execution as it is, or stops it.              *)
LEMMA AnswerKeeps ==
  ASSUME DapInv, StepInv,
         \/ HandleQuery \/ HandleVariables \/ HandleSetBreakpoints \/ HandlePause
  PROVE  StepInv'
<1>1. Serving /\ Undisturbed /\ UNCHANGED phase
  BY DEF HandleQuery, HandleVariables, HandleSetBreakpoints, HandlePause, SameProgram,
    get_variables, Undisturbed, vars, vmVars, debuggerVars, stateVars, ghostVars
<1>2. \E stopped : Onward(stopped) /\ (at = "poll" \/ stopped = TRUE)
  BY <1>1 DEF HandleQuery, HandleVariables, HandleSetBreakpoints, HandlePause, DapInv,
    AnnouncedInv, AnnouncedState, Serving
<1>3. at' = at \/ (at = "poll" /\ at' = "poll_paused")
  BY <1>1, <1>2 DEF Onward, Serving
<1>4. PlaceOfHook'
  BY <1>1, <1>3 DEF StepInv, PlaceOfHook, Undisturbed, Serving, Paused
<1>5. QED
  BY <1>1, <1>3, <1>4, UndisturbedKeeps

(* A request that resumes: the step it leaves is not over where it starts. *)
LEMMA ResumeKeeps ==
  ASSUME IInv, FramesCounted, StepInv, Serving, NEW action, Resume(action),
         Head(inbound).cmd = "Next" =>
           action = StepOver(action.prev_line, depth(current_statement_idx)),
         Head(inbound).cmd = "StepOut" =>
           action = StepOut(depth(current_statement_idx)),
         \/ action = step_action
         \/ HasCodeLocation(pc) =>
              ~ StepIsOver(action, Line(pc), depth(current_statement_idx))
  PROVE  StepInv'
<1>1. phase = "handle"
  BY DEF StepInv, PlaceOfHook
<1>2. /\ depth(current_statement_idx) = VmDepth /\ VmDepth \in Nat
      /\ pc = current_statement_idx
  BY <1>1, DepthAgrees
<1>3. /\ UNCHANGED <<pc, rets, current_statement_idx, phase>>
      /\ step_action' = action
      /\ resumption' = [cmd |-> Head(inbound).cmd, depth |-> VmDepth, from |-> CurrentLocation]
      /\ at' = IF at = "breakpoint_paused" THEN "step" ELSE "poll"
  BY DEF Resume, SameProgram, Onward, vars, vmVars, debuggerVars
<1>4. VmDepth' = VmDepth
  BY <1>3 DEF VmDepth, VmFrames
<1>5. PlaceOfHook'
  BY <1>1, <1>3 DEF PlaceOfHook, Serving, Paused
<1>6. StepIsLast'
  BY <1>2, <1>3 DEF StepIsLast
<1>7. StepIsChecked'
  <2>1. SUFFICES ASSUME at # "breakpoint_paused", HasCodeLocation(pc)
                 PROVE  ~ StepIsOver(action, Line(pc), VmDepth)
    BY <1>3, <1>4 DEF StepIsChecked
  <2>2. CASE action = step_action
    BY <1>2, <2>1, <2>2 DEF StepInv, StepIsChecked, Serving, Paused
  <2>3. QED
    BY <1>2, <2>1, <2>2
<1>8. StepStopsAtItsDepth'
  BY <1>3 DEF StepStopsAtItsDepth
<1>9. QED
  BY <1>5, <1>6, <1>7, <1>8 DEF StepInv

LEMMA NewStepsNotOver ==
  ASSUME NEW line, NEW d \in Nat
  PROVE  /\ ~ StepIsOver(StepOver(line, d), line, d)
         /\ ~ StepIsOver(StepIn(line), line, d)
         /\ ~ StepIsOver(StepOut(d), line, d)
         /\ ~ StepIsOver(NoStep, line, d)
         /\ StepOver(line, d).prev_line = line
  BY DEF StepIsOver, StepOver, StepIn, StepOut, NoStep

LEMMA RequestKeepsSteps ==
  ASSUME IInv, FramesCounted, DapInv, StepInv, HandleRequest
  PROVE  StepInv'
<1>1. CASE HandleQuery \/ HandleVariables \/ HandleSetBreakpoints \/ HandlePause
  BY <1>1, AnswerKeeps
<1>2. Serving
  BY DEF HandleRequest, HandleQuery, HandleVariables, HandleSetBreakpoints, HandlePause,
    HandleContinue, HandleStep, HandleStepOut, HandleDisconnect, HandleRefused
<1>3. phase = "handle"
  BY <1>2 DEF StepInv, PlaceOfHook
<1> DEFINE d == depth(current_statement_idx)
<1>4. d \in Nat /\ d > 0 /\ pc = current_statement_idx
  BY <1>3, DepthAgrees
<1> HIDE DEF d
<1>5. CASE HandleContinue
  BY <1>2, <1>5, ResumeKeeps DEF HandleContinue, Take
<1>6. CASE HandleStepOut
  <2>1. Resume(StepOut(d)) /\ Head(inbound).cmd = "StepOut"
    BY <1>4, <1>6 DEF HandleStepOut, Take, d
  <2>2. ~ StepIsOver(StepOut(d), Line(pc), d)
    BY <1>4, NewStepsNotOver
  <2>3. QED
    BY <1>2, <2>1, <2>2, ResumeKeeps DEF d
<1>7. CASE HandleStep /\ HasCodeLocation(current_statement_idx)
  <2> DEFINE line == Line(current_statement_idx)
  <2>1. /\ Head(inbound).cmd \in {"Next", "StepIn"}
        /\ Resume(IF Head(inbound).cmd = "Next" THEN StepOver(line, d) ELSE StepIn(line))
    BY <1>7 DEF HandleStep, Take, d
  <2>2. CASE Head(inbound).cmd = "Next"
    <3>1. Resume(StepOver(line, d))
      BY <2>1, <2>2
    <3>2. /\ StepOver(line, d) = StepOver(StepOver(line, d).prev_line, d)
          /\ ~ StepIsOver(StepOver(line, d), Line(pc), d)
      BY <1>4, NewStepsNotOver
    <3>3. QED
      BY <1>2, <2>2, <3>1, <3>2, ResumeKeeps DEF d
  <2>3. CASE Head(inbound).cmd = "StepIn"
    <3>1. Resume(StepIn(line))
      BY <2>1, <2>3
    <3>2. ~ StepIsOver(StepIn(line), Line(pc), d)
      BY <1>4, NewStepsNotOver
    <3>3. QED
      BY <1>2, <2>3, <3>1, <3>2, ResumeKeeps DEF d
  <2>4. QED
    BY <2>1, <2>2, <2>3
<1>8. CASE HandleStep /\ ~ HasCodeLocation(current_statement_idx)
  BY <1>8, DropKeeps DEF HandleStep, Over
<1>9. CASE HandleDisconnect
  BY <1>9, DropKeeps DEF HandleDisconnect, Over, stateVars, ghostVars
<1>10. CASE HandleRefused
  <2>1. \E how \in Over : Drop(<< >>, how)
    BY <1>10 DEF HandleRefused, Over
  <2>2. QED
    BY <1>10, <2>1, DropKeeps DEF HandleRefused, stateVars, ghostVars
<1>11. QED
  BY <1>1, <1>5, <1>6, <1>7, <1>8, <1>9, <1>10 DEF HandleRequest

(* The initialization, the ends, and what the client does.                 *)
LEMMA EndsKeepSteps ==
  ASSUME IInv, StepInv,
         \/ InitSetBreakpoints \/ InitAnswered \/ InitConfigurationDone \/ InitRefused
         \/ InboundClosed \/ SendFails \/ VmStops
         \/ ClientSends \/ InboundCloses \/ UNCHANGED allVars
  PROVE  StepInv'
<1>1. CASE InitRefused \/ InboundClosed \/ SendFails
  BY <1>1, DropKeeps DEF InitRefused, InboundClosed, SendFails, Over, stateVars, ghostVars
<1>2. CASE \/ InitSetBreakpoints \/ InitAnswered
           \/ ClientSends \/ InboundCloses \/ UNCHANGED allVars
  <2>1. Undisturbed /\ UNCHANGED <<at, phase>>
    BY <1>2 DEF InitSetBreakpoints, InitAnswered, ClientSends, InboundCloses, SameProgram,
      Undisturbed, allVars, sessionVars, vars, vmVars, debuggerVars, stateVars, ghostVars
  <2>2. PlaceOfHook'
    BY <2>1 DEF StepInv, PlaceOfHook, Undisturbed, Serving
  <2>3. QED
    BY <2>1, <2>2, UndisturbedKeeps
<1>3. CASE InitConfigurationDone
  <2>1. /\ Undisturbed /\ UNCHANGED phase
        /\ at = "init" /\ at' = "vm"
    BY <1>3 DEF InitConfigurationDone, SameProgram, Undisturbed, vars, vmVars, debuggerVars,
      ghostVars
  <2>2. phase = "pre" /\ current_statement_idx = NoStatement
    BY <2>1 DEF StepInv, PlaceOfHook
  <2>3. pc # current_statement_idx
    BY <2>2, StatementNumbers DEF IInv, TypeInv, TypeOK, VmTypeOK
  <2>4. PlaceOfHook'
    BY <2>1, <2>2 DEF PlaceOfHook, Serving, Paused
  <2>5. StepIsLast' /\ StepStopsAtItsDepth'
    BY <2>1 DEF StepInv, Undisturbed, StepIsLast, StepStopsAtItsDepth
  <2>6. StepIsChecked'
    BY <2>1, <2>3 DEF Undisturbed, StepIsChecked
  <2>7. QED
    BY <2>4, <2>5, <2>6 DEF StepInv
<1>4. CASE VmStops
  <2>1. Undisturbed /\ at' = "gone"
    BY <1>4 DEF VmStops, VmEnd, VmError, Undisturbed, vmVars, debuggerVars, stateVars, ghostVars
  <2>2. PlaceOfHook'
    BY <2>1 DEF PlaceOfHook, Serving, Paused
  <2>3. QED
    BY <2>1, <2>2, UndisturbedKeeps
<1>5. QED
  BY <1>1, <1>2, <1>3, <1>4

(* The stages of the hook.                                                 *)
LEMMA HookKeepsSteps ==
  ASSUME IInv, FramesCounted, StepInv,
         \/ PreStepEnters \/ maybe_handle_breakpoint_hit \/ maybe_handle_step_action
         \/ NothingToPoll
  PROVE  StepInv'
<1>1. CASE PreStepEnters
  <2>1. /\ UNCHANGED <<step_action, resumption>>
        /\ \/ at' = "panicked"
           \/ at' = "breakpoint" /\ phase' = "handle"
    BY <1>1 DEF PreStepEnters, EnterStatement, stateVars, ghostVars
  <2>2. PlaceOfHook'
    BY <2>1 DEF PlaceOfHook, Serving, Paused
  <2>3. StepIsLast' /\ StepIsChecked' /\ StepStopsAtItsDepth'
    BY <2>1 DEF StepInv, StepIsLast, StepIsChecked, StepStopsAtItsDepth
  <2>4. QED
    BY <2>2, <2>3 DEF StepInv
<1>2. CASE maybe_handle_breakpoint_hit
  <2>1. CASE Drop(<< >>, "panicked")
    BY <1>2, <2>1, DropKeeps DEF maybe_handle_breakpoint_hit, Over
  <2>2. CASE ~ Drop(<< >>, "panicked")
    <3>1. /\ Undisturbed /\ UNCHANGED phase
          /\ at = "breakpoint" /\ at' \in {"breakpoint_paused", "step"}
      BY <1>2, <2>2 DEF maybe_handle_breakpoint_hit, pause_and_process_requests, SameProgram,
        Undisturbed, vars, vmVars, debuggerVars
    <3>2. PlaceOfHook'
      BY <3>1 DEF StepInv, PlaceOfHook, Serving, Paused
    <3>3. QED
      BY <3>1, <3>2, UndisturbedKeeps
  <2>3. QED
    BY <2>1, <2>2
<1>3. CASE maybe_handle_step_action
  <2>1. /\ at = "step" /\ UNCHANGED <<pc, rets, current_statement_idx, phase, resumption>>
        /\ \/ has_step_action_happened /\ step_action' = NoStep /\ at' = "step_paused"
           \/ ~ has_step_action_happened /\ step_action' = step_action /\ at' = "poll"
    BY <1>3 DEF maybe_handle_step_action, pause_and_process_requests, SameProgram,
      vars, vmVars, debuggerVars, ghostVars
  <2>2. phase = "handle"
    BY <2>1 DEF StepInv, PlaceOfHook
  <2>3. /\ depth(current_statement_idx) = VmDepth /\ VmDepth \in Nat
        /\ pc = current_statement_idx
    BY <2>2, DepthAgrees
  <2>4. VmDepth' = VmDepth
    BY <2>1 DEF VmDepth, VmFrames
  <2>5. PlaceOfHook'
    BY <2>1, <2>2 DEF PlaceOfHook, Serving, Paused
  <2>6. StepIsLast'
    BY <2>1 DEF StepInv, StepIsLast, NoStep
  <2>7. StepIsChecked'
    BY <2>1, <2>3, <2>4, NewStepsNotOver DEF StepIsChecked, has_step_action_happened
  <2>8. StepStopsAtItsDepth'
    <3>1. SUFFICES ASSUME has_step_action_happened
                   PROVE  /\ resumption.cmd = "Next" => VmDepth <= resumption.depth
                          /\ resumption.cmd = "StepOut" => VmDepth < resumption.depth
      BY <2>1, <2>4 DEF StepStopsAtItsDepth
    <3>2. StepIsOver(step_action, Line(pc), VmDepth)
      BY <2>3, <3>1 DEF has_step_action_happened
    <3>3. ASSUME resumption.cmd = "Next" PROVE VmDepth <= resumption.depth
      <4>1. step_action = StepOver(step_action.prev_line, resumption.depth)
        BY <3>2, <3>3 DEF StepInv, StepIsLast, StepIsOver
      <4>2. step_action.kind = "Next" /\ step_action.depth = resumption.depth
        BY <4>1 DEF StepOver
      <4>3. QED
        BY <3>2, <4>2 DEF StepIsOver
    <3>4. ASSUME resumption.cmd = "StepOut" PROVE VmDepth < resumption.depth
      <4>1. step_action = StepOut(resumption.depth)
        BY <3>2, <3>4 DEF StepInv, StepIsLast, StepIsOver
      <4>2. step_action.kind = "StepOut" /\ step_action.depth = resumption.depth
        BY <4>1 DEF StepOut
      <4>3. QED
        BY <3>2, <4>2 DEF StepIsOver
    <3>5. QED
      BY <3>3, <3>4
  <2>9. QED
    BY <2>5, <2>6, <2>7, <2>8 DEF StepInv
<1>4. CASE NothingToPoll
  <2>1. Undisturbed /\ phase' = "exec" /\ at = "poll" /\ at' = "vm"
    BY <1>4 DEF NothingToPoll, FinishPreStep, Undisturbed, vmVars, debuggerVars, stateVars,
      ghostVars
  <2>2. PlaceOfHook'
    BY <2>1 DEF PlaceOfHook, Serving, Paused
  <2>3. QED
    BY <2>1, <2>2, UndisturbedKeeps
<1>5. QED
  BY <1>1, <1>2, <1>3, <1>4

(* The VM: where it is still, or again, at the statement the debugger      *)
(* has looked at, it has made no call and no return.                       *)
LEMMA VmKeepsSteps ==
  ASSUME IInv, IInv', StepInv, PreStepSkips \/ RunVm
  PROVE  StepInv'
<1>1. /\ at = "vm" /\ at' = "vm" /\ UNCHANGED <<step_action, resumption>>
      /\ current_statement_idx' = current_statement_idx
      /\ phase' \in {"pre", "exec", "post"}
  BY DEF PreStepSkips, RunVm, SkipInstruction, ExecuteInstruction, update_post_step,
    sessionVars, stateVars, ghostVars, debuggerVars
<1>2. PlaceOfHook'
  BY <1>1 DEF PlaceOfHook, Serving, Paused
<1>3. CASE UNCHANGED <<pc, rets>>
  <2>1. Undisturbed
    BY <1>1, <1>3 DEF Undisturbed
  <2>2. QED
    BY <1>1, <1>2, <2>1, UndisturbedKeeps
<1>4. CASE pc' # current_statement_idx
  <2>1. StepIsLast' /\ StepIsChecked' /\ StepStopsAtItsDepth'
    BY <1>1, <1>4 DEF StepInv, StepIsLast, StepIsChecked, StepStopsAtItsDepth
  <2>2. QED
    BY <1>2, <2>1 DEF StepInv
<1>5. CASE ExecuteInstruction
  <2>1. phase = "exec" /\ phase' = "post"
    BY <1>5 DEF ExecuteInstruction
  <2>2. CASE VmBranch
    <3>1. pc = current_statement_idx /\ pc \in Statement
      BY <2>1, <2>2, StatementNumbers
      DEF VmBranch, IInv, TypeInv, TypeOK, VmTypeOK, StackInv, PhaseInv, AtStatement
    <3>2. PICK b \in BranchTargets(pc) : pc' = NextCasm(b)
      BY <2>2 DEF VmBranch
    <3>3. b \in Statement /\ b > pc
      BY <3>1, <3>2, BranchTargetType
    <3>4. pc' \in Statement /\ b <= pc'
      BY <3>2, <3>3, NextCasmType, StatementNumbers DEF LeadsTo
    <3>5. pc' # pc
      BY <3>1, <3>3, <3>4, StatementNumbers
    <3>6. QED
      BY <1>4, <3>1, <3>5
  <2>3. CASE VmCall \/ VmReturn
    <3>1. /\ mapped /\ mapped'
          /\ is_function_call_statement(pc) \/ is_return_statement(pc)
      BY <2>3 DEF VmCall, VmReturn
    <3>2. action_on_new_statement.kind # "none"
      BY <2>1, <3>1 DEF IInv, StackInv, PhaseInv, ActionIsFor
    <3>3. action_on_new_statement'.kind # "none"
      BY <1>5, <3>2, DebuggerUnchanged
    <3>4. ActionMeansNewStatement'
      BY ActionLeavesStatement, PTL DEF IInv
    <3>5. pc' # current_statement_idx'
      BY <2>1, <3>1, <3>3, <3>4 DEF ActionMeansNewStatement
    <3>6. QED
      BY <1>1, <1>4, <3>5
  <2>4. QED
    BY <1>3, <1>5, <2>2, <2>3
    DEF ExecuteInstruction, VmInstruction, VmStay, VmOutside, VmHalt
<1>6. CASE PreStepSkips \/ update_post_step
  BY <1>3, <1>6 DEF PreStepSkips, SkipInstruction, update_post_step, vmVars
<1>7. QED
  BY <1>5, <1>6 DEF RunVm

LEMMA InitSteps == SessionInit => StepInv
<1> SUFFICES ASSUME SessionInit PROVE StepInv
  OBVIOUS
<1>1. /\ at = "init" /\ step_action = NoStep /\ resumption.cmd = "ConfigurationDone"
      /\ phase = "pre" /\ current_statement_idx = NoStatement
  BY DEF SessionInit, Init
<1>2. QED
  BY <1>1 DEF StepInv, PlaceOfHook, Serving, Paused, StepIsLast, StepIsChecked,
    StepStopsAtItsDepth

(* What the steps rest on; IInv, of the call stack, comes on top.          *)
StepsInv == DapInv /\ FramesCounted /\ StepInv

LEMMA StepsInductive ==
  ASSUME IInv, IInv', StepsInv, [SessionNext]_allVars
  PROVE  StepsInv'
<1>1. DapInv'
  BY DapInductive DEF StepsInv
<1>2. FramesCounted'
  <2>1. [Next]_vars
    BY SessionIsStackStep DEF StepsInv, DapInv
  <2>2. QED
    BY <2>1, FramesCountedInductive DEF StepsInv
<1>3. StepInv'
  BY RequestKeepsSteps, EndsKeepSteps, HookKeepsSteps, VmKeepsSteps
  DEF StepsInv, SessionNext, DebuggerStep
<1>4. QED
  BY <1>1, <1>2, <1>3 DEF StepsInv

LEMMA StepsInvariant ==
  ASSUME NoTailRecursion
  PROVE  SessionSpec => [](IInv /\ StepsInv)
<1>1. SessionSpec => []IInv
  BY SessionRefinesCallStack, DebuggerFollowsVm, PTL
<1>2. SessionInit => StepsInv
  <2>1. SessionInit => Init
    BY DEF SessionInit
  <2>2. QED
    BY <2>1, DapInit, InitCounted, InitSteps DEF StepsInv
<1>3. IInv /\ IInv' /\ StepsInv /\ [SessionNext]_allVars => StepsInv'
  BY StepsInductive
<1>4. QED
  BY <1>1, <1>2, <1>3, PTL DEF SessionSpec

(* Next stops at the depth it was asked for at or above it, StepOut only   *)
(* above it, by the VM's own count of frames: has_step_action_happened     *)
(* compares depths of the shadow stack.                                    *)
THEOREM StepsStopAtTheirDepth ==
  ASSUME NoTailRecursion
  PROVE  SessionSpec => []StepStopsAtItsDepth
<1>1. StepsInv => StepStopsAtItsDepth
  BY DEF StepsInv, StepInv
<1>2. QED
  BY <1>1, StepsInvariant, PTL

(* No statement at which a pending step is over, by the VM's own depth, is *)
(* executed: the hook has looked at the statement, at the right depth, and *)
(* would have stopped.                                                     *)
THEOREM NoStepRunsOn ==
  ASSUME NoTailRecursion
  PROVE  SessionSpec => []NoStepIsMissed
<1>1. IInv /\ StepsInv => NoStepIsMissed
  <2>1. SUFFICES ASSUME IInv, StepsInv, at = "vm", phase = "exec", mapped, HasCodeLocation(pc)
                 PROVE  ~ StepIsOver(step_action, Line(pc), VmDepth)
    BY DEF NoStepIsMissed
  <2>2. pc = current_statement_idx
    BY <2>1 DEF IInv, StackInv, PhaseInv, AtStatement
  <2>3. QED
    BY <2>1, <2>2 DEF StepsInv, StepInv, StepIsChecked
<1>2. QED
  BY <1>1, StepsInvariant, PTL

----------------------------------------------------------------------------
(* StepIn. *)

(* No two files of the program have statements at a line of one number, as *)
(* in a program of one file: Line compares numbers only.                   *)
LinesToldApart ==
  \A s, t \in Casm :
    HasCodeLocation(s) /\ HasCodeLocation(t) /\ Line(s) = Line(t) =>
      code_location_for_statement_idx(s).file = code_location_for_statement_idx(t).file

(* The line a StepIn leaves is that of the statement it was asked at.      *)
StepInIsFromLine ==
  resumption.cmd = "StepIn" /\ step_action.kind = "StepIn" =>
    \E s \in Casm : /\ HasCodeLocation(s)
                    /\ resumption.from = code_location_for_statement_idx(s)
                    /\ step_action.prev_line = Line(s)

LEMMA StepInIsFromLineInductive ==
  ASSUME IInv, StepsInv, StepInIsFromLine, [SessionNext]_allVars
  PROVE  StepInIsFromLine'
<1>1. CASE UNCHANGED <<step_action, resumption>>
  BY <1>1 DEF StepInIsFromLine
<1>2. CASE HandleContinue \/ HandleStepOut
  <2>1. \E action : Resume(action)
    BY <1>2 DEF HandleContinue, HandleStepOut
  <2>2. Head(inbound).cmd # "StepIn"
    BY <1>2 DEF HandleContinue, HandleStepOut, Take
  <2>3. QED
    BY <2>1, <2>2 DEF Resume, StepInIsFromLine
<1>3. CASE HandleStep
  <2>1. phase = "handle"
    BY <1>3 DEF HandleStep, StepsInv, StepInv, PlaceOfHook
  <2>2. pc = current_statement_idx /\ pc \in Casm
    BY <2>1, DepthAgrees DEF StepsInv
  <2>3. CASE ~ HasCodeLocation(current_statement_idx)
    BY <1>1, <1>3, <2>3 DEF HandleStep
  <2>4. CASE HasCodeLocation(current_statement_idx)
    <3>1. /\ resumption'.cmd = Head(inbound).cmd
          /\ resumption'.from = code_location_for_statement_idx(pc)
          /\ step_action' = IF Head(inbound).cmd = "Next"
                            THEN StepOver(Line(pc), depth(pc)) ELSE StepIn(Line(pc))
      BY <1>3, <2>2, <2>4 DEF HandleStep, Resume, CurrentLocation
    <3>2. Head(inbound).cmd = "StepIn" => step_action'.prev_line = Line(pc)
      BY <3>1 DEF StepIn
    <3>3. QED
      BY <2>2, <2>4, <3>1, <3>2 DEF StepInIsFromLine
  <2>5. QED
    BY <2>3, <2>4
<1>4. CASE maybe_handle_step_action
  BY <1>4 DEF maybe_handle_step_action, NoStep, ghostVars, StepInIsFromLine
<1>5. CASE \/ HandleQuery \/ HandleVariables \/ HandleSetBreakpoints \/ HandlePause
           \/ HandleDisconnect \/ HandleRefused \/ InboundClosed \/ SendFails
           \/ InitSetBreakpoints \/ InitAnswered \/ InitConfigurationDone \/ InitRefused
  BY <1>1, <1>5 DEF HandleQuery, HandleVariables, HandleSetBreakpoints, HandlePause,
    HandleDisconnect, HandleRefused, InboundClosed, SendFails, InitSetBreakpoints,
    InitAnswered, InitConfigurationDone, InitRefused, stateVars, ghostVars
<1>6. CASE \/ PreStepSkips \/ PreStepEnters \/ maybe_handle_breakpoint_hit \/ NothingToPoll
           \/ RunVm \/ VmStops \/ ClientSends \/ InboundCloses \/ UNCHANGED allVars
  BY <1>1, <1>6 DEF PreStepSkips, PreStepEnters, maybe_handle_breakpoint_hit, NothingToPoll,
    RunVm, VmStops, ClientSends, InboundCloses, allVars, sessionVars, stateVars, ghostVars
<1>7. QED
  BY <1>2, <1>3, <1>4, <1>5, <1>6 DEF SessionNext, DebuggerStep, HandleRequest

(* Where lines are told apart by their numbers a StepIn stops at the very  *)
(* next line, as handler.rs:182 says: until then the VM executes only      *)
(* statements of the line it was asked on, in whatever function they are.  *)
(* The finding step_in_line shows what happens where they are not.         *)
THEOREM StepInReachesNextLine ==
  ASSUME NoTailRecursion, LinesToldApart
  PROVE  SessionSpec => []StepInStopsAtNextLine
<1>1. SessionInit => StepInIsFromLine
  BY DEF SessionInit, StepInIsFromLine
<1>2. IInv /\ StepsInv /\ StepInIsFromLine /\ [SessionNext]_allVars => StepInIsFromLine'
  BY StepInIsFromLineInductive
<1>3. IInv /\ StepsInv /\ StepInIsFromLine => StepInStopsAtNextLine
  <2>1. SUFFICES ASSUME IInv, StepsInv, StepInIsFromLine,
                        at = "vm", phase = "exec", mapped, HasCodeLocation(pc),
                        resumption.cmd = "StepIn", step_action.kind = "StepIn"
                 PROVE  /\ CurrentLocation.file = resumption.from.file
                        /\ CurrentLocation.line = resumption.from.line
    BY DEF StepInStopsAtNextLine
  <2>2. pc = current_statement_idx /\ pc \in Casm
    BY <2>1 DEF IInv, StackInv, PhaseInv, AtStatement, TypeInv, TypeOK, VmTypeOK
  <2>3. step_action.prev_line = Line(pc)
    BY <2>1, <2>2 DEF StepsInv, StepInv, StepIsChecked, StepIsOver
  <2>4. PICK s \in Casm : /\ HasCodeLocation(s)
                          /\ resumption.from = code_location_for_statement_idx(s)
                          /\ step_action.prev_line = Line(s)
    BY <2>1 DEF StepInIsFromLine
  <2>5. code_location_for_statement_idx(s).file = code_location_for_statement_idx(pc).file
    BY <2>1, <2>2, <2>3, <2>4 DEF LinesToldApart
  <2>6. code_location_for_statement_idx(s).line = code_location_for_statement_idx(pc).line
    BY <2>3, <2>4 DEF Line
  <2>7. QED
    BY <2>1, <2>4, <2>5, <2>6 DEF CurrentLocation
<1>4. QED
  BY <1>1, <1>2, <1>3, StepsInvariant, PTL DEF SessionSpec

----------------------------------------------------------------------------
(* Panics. *)

(* Every statement a session can stop at has a line.                       *)
LinesKnown == \A s \in Casm : HasCodeLocation(s)

(* No client asks for the text of a source.                                *)
NoSourceRequest == \A r \in Request : r.cmd # "Source"

LEMMA RequestDoesNotPanic ==
  ASSUME LinesKnown, NoSourceRequest, IInv, StepsInv, HandleRequest
  PROVE  at' # "panicked"
<1>1. Serving /\ inbound # << >>
  BY DEF HandleRequest, HandleQuery, HandleVariables, HandleSetBreakpoints, HandlePause,
    HandleContinue, HandleStep, HandleStepOut, HandleDisconnect, HandleRefused, Take
<1>2. phase = "handle" /\ at # "panicked"
  BY <1>1 DEF StepsInv, StepInv, PlaceOfHook, Serving, Paused
<1>3. HasCodeLocation(current_statement_idx)
  BY <1>2, DepthAgrees DEF StepsInv, LinesKnown
<1>4. Head(inbound).cmd # "Source"
  BY <1>1, HeadOfInbound DEF StepsInv, DapInv, NoSourceRequest
<1>5. CASE HandleDisconnect \/ HandleRefused
  BY <1>4, <1>5 DEF HandleDisconnect, HandleRefused, Drop
<1>6. CASE \E stopped : Onward(stopped)
  BY <1>2, <1>6 DEF Onward
<1>7. QED
  BY <1>3, <1>5, <1>6 DEF HandleRequest, HandleQuery, HandleVariables, HandleSetBreakpoints,
    HandlePause, HandleContinue, HandleStep, HandleStepOut, Resume

LEMMA StepDoesNotPanic ==
  ASSUME LinesKnown, NoSourceRequest, IInv, IInv', StepsInv, SessionNoPanic,
         [SessionNext]_allVars
  PROVE  SessionNoPanic'
<1>1. CASE HandleRequest
  BY <1>1, RequestDoesNotPanic DEF SessionNoPanic
<1>2. CASE PreStepEnters
  <2>1. phase' # "panicked"
    BY DEF IInv, StackInv, NoPanic
  <2>2. QED
    BY <1>2, <2>1 DEF PreStepEnters, SessionNoPanic
<1>3. CASE InitRefused \/ InboundClosed \/ SendFails
  BY <1>3 DEF InitRefused, InboundClosed, SendFails, Drop, SessionNoPanic
<1>4. CASE \/ InitSetBreakpoints \/ InitAnswered \/ InitConfigurationDone
           \/ maybe_handle_step_action
           \/ PreStepSkips \/ NothingToPoll \/ RunVm \/ VmStops
  BY <1>4 DEF InitSetBreakpoints, InitAnswered, InitConfigurationDone,
    maybe_handle_step_action, pause_and_process_requests,
    PreStepSkips, NothingToPoll, RunVm, VmStops, sessionVars, SessionNoPanic
<1>5. CASE maybe_handle_breakpoint_hit
  <2>1. phase = "handle"
    BY <1>5 DEF maybe_handle_breakpoint_hit, StepsInv, StepInv, PlaceOfHook
  <2>2. HasCodeLocation(current_statement_idx)
    BY <2>1, DepthAgrees DEF StepsInv, LinesKnown
  <2>3. QED
    BY <1>5, <2>2 DEF maybe_handle_breakpoint_hit, pause_and_process_requests, SessionNoPanic
<1>6. CASE ClientSends \/ InboundCloses \/ UNCHANGED allVars
  BY <1>6 DEF ClientSends, InboundCloses, allVars, sessionVars, SessionNoPanic
<1>7. QED
  BY <1>1, <1>2, <1>3, <1>4, <1>5, <1>6 DEF SessionNext, DebuggerStep

(* In a program without tail recursion whose statements all have a line no *)
(* sequence of requests brings the debugger down by a panic, Source apart, *)
(* which is a todo!() (handler.rs:203).  The findings tail_recursion and   *)
(* step_panic show that neither condition can be dropped.                  *)
THEOREM NothingPanics ==
  ASSUME NoTailRecursion, LinesKnown, NoSourceRequest
  PROVE  SessionSpec => []SessionNoPanic
<1>1. SessionInit => SessionNoPanic
  BY DEF SessionInit, SessionNoPanic
<1>2. /\ IInv /\ StepsInv /\ (IInv /\ StepsInv)' /\ SessionNoPanic /\ [SessionNext]_allVars
      => SessionNoPanic'
  BY StepDoesNotPanic
<1>3. QED
  BY <1>1, <1>2, StepsInvariant, PTL DEF SessionSpec

----------------------------------------------------------------------------
(* Types. *)

(* Requests are served in the hook, once it knows the statement.           *)
StatementKnown ==
  /\ at \in {"breakpoint", "step"} \/ Serving => phase = "handle"
  /\ phase = "handle" => current_statement_idx \in Casm

StepActions ==
  [kind : {"none", "StepIn", "Next", "StepOut"}, prev_line : Nat, depth : Nat]

(* The variables of Session that are neither those of CallStack nor told   *)
(* to the client.                                                          *)
OwnTypes ==
  /\ configuration_done \in BOOLEAN
  /\ breakpoints \in [Files -> SUBSET Casm]
  /\ step_action \in StepActions
  /\ inbound_open \in BOOLEAN
  /\ budget \in 0..MaxRequests
  /\ resumption \in [cmd : CommandNames, depth : Nat, from : CodeLocations]

SessionTypeInv == DapInv /\ StatementKnown /\ OwnTypes

LEMMA DropKeepsStatement ==
  ASSUME NEW messages, NEW how \in Over, Drop(messages, how)
  PROVE  StatementKnown'
<1>1. at' = how /\ phase' = "ended"
  BY DEF Drop, HookError
<1>2. QED
  BY <1>1 DEF StatementKnown, Over, Serving, Paused

LEMMA StatementKnownInductive ==
  ASSUME TypeInv, StatementKnown, [SessionNext]_allVars
  PROVE  StatementKnown'
<1> DEFINE Kept == UNCHANGED <<phase, current_statement_idx>>
           Waiting == {"breakpoint", "step"} \union Paused \union {"poll"}
<1>1. ASSUME Kept, at' \in Waiting => at \in Waiting
      PROVE  StatementKnown'
  BY <1>1 DEF StatementKnown, Serving
<1>2. CASE InitRefused \/ InboundClosed \/ SendFails \/ HandleDisconnect \/ HandleRefused
  <2>1. \E messages : \E how \in Over : Drop(messages, how)
    BY <1>2 DEF InitRefused, InboundClosed, SendFails, HandleDisconnect, HandleRefused, Over
  <2>2. QED
    BY <2>1, DropKeepsStatement
<1>3. CASE HandleStep
  <2>1. CASE Drop(<< >>, "panicked")
    BY <2>1, DropKeepsStatement DEF Over
  <2>2. CASE \E action : Resume(action)
    <3>1. at \in Waiting
      BY <1>3 DEF HandleStep, Serving
    <3>2. QED
      BY <1>1, <2>2, <3>1 DEF Resume, SameProgram, vars, debuggerVars
  <2>3. QED
    BY <1>3, <2>1, <2>2 DEF HandleStep
<1>4. CASE \/ HandleQuery \/ HandleVariables \/ HandleSetBreakpoints \/ HandlePause
           \/ HandleContinue \/ HandleStepOut
  <2>1. at \in Waiting
    BY <1>4 DEF HandleQuery, HandleVariables, HandleSetBreakpoints, HandlePause,
      HandleContinue, HandleStepOut, Serving
  <2>2. Kept
    BY <1>4 DEF HandleQuery, HandleVariables, HandleSetBreakpoints, HandlePause,
      HandleContinue, HandleStepOut, Resume, SameProgram, get_variables, vars, debuggerVars
  <2>3. QED
    BY <1>1, <2>1, <2>2
<1>5. CASE maybe_handle_breakpoint_hit
  <2>1. CASE Drop(<< >>, "panicked")
    BY <2>1, DropKeepsStatement DEF Over
  <2>2. CASE ~ Drop(<< >>, "panicked")
    BY <1>1, <1>5, <2>2 DEF maybe_handle_breakpoint_hit, pause_and_process_requests, SameProgram,
      vars, debuggerVars, Paused
  <2>3. QED
    BY <2>1, <2>2
<1>6. CASE \/ maybe_handle_step_action
           \/ InitSetBreakpoints \/ InitAnswered \/ InitConfigurationDone
           \/ ClientSends \/ InboundCloses \/ UNCHANGED allVars
  BY <1>1, <1>6
  DEF maybe_handle_step_action, InitSetBreakpoints, InitAnswered,
    InitConfigurationDone, ClientSends, InboundCloses, SameProgram, allVars, sessionVars,
    vars, debuggerVars, Paused
<1>7. CASE PreStepEnters
  <2>1. pc \in Casm
    BY DEF TypeInv, TypeOK, VmTypeOK
  <2>2. \/ phase' = "panicked" /\ at' = "panicked"
        \/ phase' = "handle" /\ current_statement_idx' \in Casm
    BY <1>7, <2>1 DEF PreStepEnters, EnterStatement
  <2>3. QED
    BY <2>2 DEF StatementKnown, Serving, Paused
<1>8. CASE PreStepSkips \/ NothingToPoll \/ RunVm \/ VmStops
  <2>1. at' \in {"vm", "gone"} /\ phase' # "handle"
    BY <1>8 DEF PreStepSkips, NothingToPoll, RunVm, VmStops, SkipInstruction, FinishPreStep,
      ExecuteInstruction, update_post_step, VmEnd, VmError, sessionVars
  <2>2. QED
    BY <2>1 DEF StatementKnown, Serving, Paused
<1>9. QED
  BY <1>2, <1>3, <1>4, <1>5, <1>6, <1>7, <1>8 DEF SessionNext, DebuggerStep, HandleRequest

LEMMA BreakpointsType ==
  ASSUME InboundType, OwnTypes, Take({"SetBreakpoints"}), handle_set_breakpoints
  PROVE  breakpoints' \in [Files -> SUBSET Casm]
<1> DEFINE r == Head(inbound)
           stops == verify_and_set_breakpoints(r.source, r.lines)
<1>1. stops \in SUBSET Casm
  BY DEF verify_and_set_breakpoints, statement_idxs_for_breakpoint
<1> HIDE DEF stops
<1>2. breakpoints' = [breakpoints EXCEPT ![r.source] = stops]
  BY DEF handle_set_breakpoints, stops
<1>3. QED
  BY <1>1, <1>2 DEF OwnTypes

LEMMA LocationType ==
  ASSUME NEW s \in Statement, HasCodeLocation(s)
  PROVE  code_location_for_statement_idx(s) \in CodeLocations /\ Line(s) \in Nat
<1> DEFINE L == Locations[s]
           V == {L[i] : i \in DOMAIN L}
<1>1. L \in Seq(V) /\ L # << >>
  BY StatementAssumption DEF HasCodeLocation
<1> HIDE DEF V, L
<1>2. 1 \in DOMAIN L
  BY <1>1
<1>3. QED
  BY <1>2, StatementAssumption DEF code_location_for_statement_idx, CodeLocations, Line, L

LEMMA ResumeType ==
  ASSUME TypeInv, OwnTypes, NEW action \in StepActions, Resume(action),
         Head(inbound).cmd \in ResumeCommands,
         UNCHANGED <<configuration_done, breakpoints, clientVars>>
  PROVE  OwnTypes'
<1>1. VmTypeOK /\ pc \in Casm /\ pc \in Statement
  BY StatementNumbers DEF TypeInv, TypeOK, VmTypeOK
<1>2. VmDepth \in Nat
  <2>1. Len(rets) \in Nat /\ Len(rets) <= Len(rets)
    BY <1>1 DEF VmTypeOK
  <2>2. Cardinality(VmFrames(Len(rets))) \in Nat
    BY <1>1, <2>1, VmFramesFinite
  <2>3. QED
    BY <1>1, <2>2, LengthOfFrames DEF VmDepth
<1>3. CurrentLocation \in CodeLocations
  BY <1>1, LocationType DEF CurrentLocation, CodeLocations
<1>4. resumption' \in [cmd : CommandNames, depth : Nat, from : CodeLocations]
  BY <1>2, <1>3 DEF Resume, ResumeCommands, CommandNames
<1>5. QED
  BY <1>4 DEF Resume, OwnTypes, clientVars

LEMMA DepthType ==
  ASSUME TypeInv, StatementKnown, Serving
  PROVE  /\ current_statement_idx \in Statement
         /\ depth(current_statement_idx) \in Nat
<1>1. current_statement_idx \in Statement
  BY StatementNumbers DEF StatementKnown
<1>2. flat_length \in Nat
  BY DEF TypeInv, TypeOK, flat_length
<1>3. QED
  BY <1>1, <1>2, LengthOfFrames DEF depth

LEMMA OwnTypesInductive ==
  ASSUME TypeInv, SessionTypeInv, [SessionNext]_allVars
  PROVE  OwnTypes'
<1> USE DEF SessionTypeInv
<1> DEFINE OthersKept == UNCHANGED <<configuration_done, step_action, clientVars, resumption>>
<1>1. CASE UNCHANGED breakpoints /\ OthersKept
  BY <1>1 DEF OwnTypes, clientVars
<1>2. CASE InitSetBreakpoints \/ HandleSetBreakpoints
  <2>1. OthersKept /\ breakpoints' \in [Files -> SUBSET Casm]
    BY <1>2, BreakpointsType DEF InitSetBreakpoints, HandleSetBreakpoints, DapInv
  <2>2. QED
    BY <2>1 DEF OwnTypes, clientVars
<1>3. CASE InitConfigurationDone
  BY <1>3 DEF InitConfigurationDone, OwnTypes, clientVars, ghostVars
<1>4. CASE HandleContinue
  BY <1>4, ResumeType DEF HandleContinue, OwnTypes, Take, ResumeCommands
<1>5. CASE HandleStepOut
  <2>1. depth(current_statement_idx) \in Nat
    BY <1>5, DepthType DEF HandleStepOut
  <2>2. PICK action \in StepActions : Resume(action)
    BY <1>5, <2>1 DEF HandleStepOut, OwnTypes, StepActions, StepOut
  <2>3. QED
    BY <1>5, <2>2, ResumeType DEF HandleStepOut, Take, ResumeCommands
<1>6. CASE HandleStep
  <2>1. CASE ~ HasCodeLocation(current_statement_idx)
    BY <1>1, <1>6, <2>1 DEF HandleStep
  <2>2. CASE HasCodeLocation(current_statement_idx)
    <3> DEFINE line == Line(current_statement_idx)
               d == depth(current_statement_idx)
    <3>1. line \in Nat /\ d \in Nat
      BY <1>6, <2>2, DepthType, LocationType DEF HandleStep
    <3>2. StepOver(line, d) \in StepActions /\ StepIn(line) \in StepActions
      BY <3>1 DEF StepActions, StepOver, StepIn
    <3>3. PICK action \in StepActions : Resume(action)
      BY <1>6, <2>2, <3>2 DEF HandleStep
    <3>4. QED
      BY <1>6, <3>3, ResumeType DEF HandleStep, Take, ResumeCommands
  <2>3. QED
    BY <2>1, <2>2
<1>7. CASE maybe_handle_step_action
  BY <1>7 DEF maybe_handle_step_action, OwnTypes, StepActions, NoStep, clientVars, ghostVars
<1>8. CASE ClientSends \/ InboundCloses
  <2>1. UNCHANGED <<configuration_done, breakpoints, step_action, resumption>>
    BY <1>8 DEF ClientSends, InboundCloses, stateVars, ghostVars
  <2>2. inbound_open' \in BOOLEAN
    BY <1>8 DEF ClientSends, InboundCloses, OwnTypes
  <2>3. budget' = budget \/ (budget > 0 /\ budget' = budget - 1)
    BY <1>8 DEF ClientSends, InboundCloses
  <2>4. budget' \in 0..MaxRequests
    BY <2>3, SessionAssumption DEF OwnTypes
  <2>5. QED
    BY <2>1, <2>2, <2>4 DEF OwnTypes
<1>9. CASE \/ InitAnswered \/ InitRefused \/ InboundClosed \/ SendFails
           \/ HandleQuery \/ HandleVariables \/ HandlePause
           \/ HandleDisconnect \/ HandleRefused
  BY <1>1, <1>9 DEF InitAnswered, InitRefused, InboundClosed, SendFails, HandleQuery,
    HandleVariables, HandlePause, HandleDisconnect, HandleRefused, stateVars, ghostVars
<1>10. CASE \/ PreStepSkips \/ PreStepEnters \/ maybe_handle_breakpoint_hit
            \/ NothingToPoll \/ RunVm \/ VmStops \/ UNCHANGED allVars
  BY <1>1, <1>10 DEF PreStepSkips, PreStepEnters, maybe_handle_breakpoint_hit, NothingToPoll,
    RunVm, VmStops, allVars, sessionVars, stateVars, ghostVars
<1>11. QED
  BY <1>2, <1>3, <1>4, <1>5, <1>6, <1>7, <1>8, <1>9, <1>10
  DEF SessionNext, DebuggerStep, HandleRequest

(* The variables of a session keep their types, whatever the program and   *)
(* the client: what the handlers store of a request, the line of a step,   *)
(* its depth and the statements of a breakpoint, is of the program.        *)
THEOREM SessionTypes == SessionSpec => []SessionTypeOK
<1>1. SessionInit => TypeInv /\ SessionTypeInv
  <2>1. SUFFICES ASSUME SessionInit PROVE TypeInv /\ SessionTypeInv
    OBVIOUS
  <2>2. Init /\ TypeInv /\ DapInv
    BY <2>1, InitType, DapInit DEF SessionInit
  <2>3. StatementKnown
    BY <2>1, <2>2 DEF SessionInit, Init, StatementKnown, Serving, Paused
  <2>4. OwnTypes
    <3>1. breakpoints \in [Files -> SUBSET Casm]
      BY <2>1 DEF SessionInit
    <3>2. step_action \in StepActions
      BY <2>1 DEF SessionInit, StepActions, NoStep
    <3>3. budget \in 0..MaxRequests
      BY <2>1, SessionAssumption DEF SessionInit
    <3>4. resumption \in [cmd : CommandNames, depth : Nat, from : CodeLocations]
      <4>1. UnknownLocation \in CodeLocations
        BY DEF CodeLocations
      <4>2. QED
        BY <2>1, <4>1 DEF SessionInit, CommandNames
    <3>5. QED
      BY <2>1, <3>1, <3>2, <3>3, <3>4 DEF SessionInit, OwnTypes
  <2>5. QED
    BY <2>2, <2>3, <2>4 DEF SessionTypeInv
<1>2. TypeInv /\ SessionTypeInv /\ [SessionNext]_allVars => TypeInv' /\ SessionTypeInv'
  <2>1. SUFFICES ASSUME TypeInv, SessionTypeInv, [SessionNext]_allVars
                 PROVE  TypeInv' /\ SessionTypeInv'
    OBVIOUS
  <2>2. [Next]_vars
    BY <2>1, SessionIsStackStep DEF SessionTypeInv, DapInv
  <2>3. TypeInv'
    BY <2>1, <2>2, TypeInvInductive
  <2>4. DapInv' /\ StatementKnown' /\ OwnTypes'
    BY <2>1, DapInductive, StatementKnownInductive, OwnTypesInductive DEF SessionTypeInv
  <2>5. QED
    BY <2>3, <2>4 DEF SessionTypeInv
<1>3. TypeInv /\ SessionTypeInv => SessionTypeOK
  BY DEF TypeInv, SessionTypeInv, DapInv, InboundType, Request, AnnouncedInv, OwnTypes,
    StepActions, SessionTypeOK
<1>4. QED
  BY <1>1, <1>2, <1>3, PTL DEF SessionSpec
=============================================================================
