-------------------------- MODULE CallStackProofs --------------------------
(***************************************************************************)
(* The shadow stack follows the VM.  First the facts this and later proofs *)
(* need of the operators CallStack is built from: how statements without   *)
(* CASM are skipped, which function a statement belongs to, which branch   *)
(* was taken.  Then type correctness: every read of the hooks is of a      *)
(* frame, a statement or a context that exists.  Then, for every program   *)
(* without tail recursion: the branch a function took is always found, the *)
(* debugger never takes a statement for the one before it, and the frames  *)
(* it keeps are those of the activations the VM has suspended.             *)
(***************************************************************************)
EXTENDS CallStackInvariant, WellFoundedInduction, TLAPS

(* A set of naturals that is not empty has a least element.                *)
Less == {p \in Nat \X Nat : p[1] < p[2]}

LEMMA LessIsWellFounded == IsWellFoundedOn(Less, Nat)
  BY NatLessThanWellFounded, Zenon DEF OpToRel, Less

LEMMA LeastElement ==
  ASSUME NEW S \in SUBSET Nat, S # {}
  PROVE  \E m \in S : \A k \in S : m <= k
<1>1. PICK m \in S : \A k \in S : ~ (<<k, m>> \in Less)
  BY WFMin, LessIsWellFounded, Zenon
<1>2. \A k \in S : ~ (k < m)
  BY <1>1 DEF Less
<1>3. QED
  BY <1>2

(* Statements are numbers, NoStatement is none of them.                    *)
LEMMA StatementNumbers ==
  /\ Statement \subseteq Nat
  /\ NoStatement \notin Statement
  /\ Casm \subseteq Statement
  /\ \A s \in Statement : \A u \in 0..s : u \in Statement
  BY StatementAssumption DEF Statement, NoStatement

(* Only statements that compile to CASM are calls or returns.              *)
LEMMA CallsAndReturnsAreCasm ==
  ASSUME NEW s \in Statement, is_function_call_statement(s) \/ is_return_statement(s)
  PROVE  s \in Casm
  BY FlowAssumption
  DEF is_function_call_statement, is_return_statement, does_compile_to_casm

LEMMA BranchTargetType ==
  ASSUME NEW s \in Statement, NEW t \in BranchTargets(s)
  PROVE  t \in Statement /\ t > s
<1>1. PICK i \in DOMAIN Branches[s] : t = Branches[s][i]
  BY DEF BranchTargets, branches_for_statement
<1>2. Branches[s] \in Seq(Statement)
  BY StatementAssumption
<1>3. QED
  BY <1>1, <1>2, FlowAssumption

(* A call goes on, once it has returned, at the statement after it.        *)
LEMMA CallContinues ==
  ASSUME NEW c \in Statement, is_function_call_statement(c)
  PROVE  /\ BranchTargets(c) = {c + 1}
         /\ c + 1 \in Statement
         /\ Callee[c] \in EntryPoints
<1>1. Branches[c] = <<c + 1>> /\ Branches[c] \in Seq(Statement)
  BY FlowAssumption, StatementAssumption
<1>2. BranchTargets(c) = {c + 1}
  BY <1>1 DEF BranchTargets, branches_for_statement
<1>3. QED
  BY <1>2, BranchTargetType, FunctionAssumption

(* From every statement control falls through to some CASM.                *)
LEMMA NextCasmType ==
  ASSUME NEW b \in Statement
  PROVE  NextCasm(b) \in Casm /\ LeadsTo(b, NextCasm(b))
<1> DEFINE T == {t \in Casm : b <= t}
<1>1. NStatements - 1 \in T
  <2>1. NStatements - 1 \in Statement
    BY StatementAssumption DEF Statement
  <2>2. NStatements - 1 \in Casm
    BY <2>1, FunctionAssumption, CallsAndReturnsAreCasm
  <2>3. QED
    BY <2>2, StatementAssumption DEF Statement
<1>2. T \in SUBSET Nat
  BY StatementNumbers
<1>3. PICK m \in T : \A k \in T : m <= k
  BY <1>1, <1>2, LeastElement
<1>4. LeadsTo(b, m)
  <2>1. ASSUME NEW u \in b..(m - 1), u \in Casm PROVE FALSE
    <3>1. u \in T /\ u < m
      BY <2>1, StatementNumbers
    <3>2. QED
      BY <3>1, <1>2, <1>3
  <2>2. QED
    BY <2>1 DEF LeadsTo, does_compile_to_casm
<1>5. QED
  BY <1>4 DEF NextCasm

(* It falls through to only one statement with CASM.                       *)
LEMMA LeadsToOne ==
  ASSUME NEW b \in Statement, NEW t \in Casm, NEW u \in Casm, LeadsTo(b, t), LeadsTo(b, u)
  PROVE  t = u
<1>1. b \in Int /\ t \in Int /\ u \in Int
  BY StatementNumbers
<1>2. ~ t < u
  BY <1>1 DEF LeadsTo, does_compile_to_casm
<1>3. ~ u < t
  BY <1>1 DEF LeadsTo, does_compile_to_casm
<1>4. QED
  BY <1>1, <1>2, <1>3

(* Statements fallen through are trace entries.                            *)
LEMMA FallThroughType ==
  ASSUME NEW b \in Nat, NEW t \in Statement
  PROVE  FallThrough(b, t) \subseteq TraceEntry
<1>1. ASSUME NEW u \in b..(t - 1) PROVE u \in Statement /\ u + 1 \in Statement
  BY StatementNumbers
<1>2. QED
  BY <1>1 DEF FallThrough, TraceEntry

(* sierra_function_for_statement returns the last entry point not after    *)
(* the statement: the function of a statement is well defined.             *)
LEMMA FunctionOfStatement ==
  ASSUME NEW s \in Statement
  PROVE  /\ sierra_function_for_statement(s) \in EntryPoints
         /\ sierra_function_for_statement(s) \in Statement
         /\ sierra_function_for_statement(s) <= s
         /\ \A f \in EntryPoints : f <= s => f <= sierra_function_for_statement(s)
<1> DEFINE D == {s - e : e \in {x \in EntryPoints : x <= s}}
<1>1. D \in SUBSET Nat
  BY FunctionAssumption, StatementNumbers
<1>2. s - 0 \in D
  BY FunctionAssumption, StatementNumbers
<1>3. PICK m \in D : \A k \in D : m <= k
  BY <1>1, <1>2, LeastElement
<1>4. PICK e \in EntryPoints : e <= s /\ m = s - e
  BY <1>3
<1>5. \A f \in EntryPoints : f <= s => f <= e
  <2>1. SUFFICES ASSUME NEW f \in EntryPoints, f <= s PROVE f <= e
    OBVIOUS
  <2>2. s - f \in D
    BY <2>1
  <2>3. m <= s - f
    BY <2>2, <1>3
  <2>4. QED
    BY <2>3, <1>4, FunctionAssumption, StatementNumbers
<1>6. \E x \in EntryPoints : x <= s /\ \A f \in EntryPoints : f <= s => f <= x
  BY <1>4, <1>5
<1>7. QED
  BY <1>6, FunctionAssumption DEF sierra_function_for_statement

(* Falling through never leaves a function, for a function ends with a     *)
(* return, which has CASM.                                                 *)
LEMMA FallThroughSameFunction ==
  ASSUME NEW b \in Statement, NEW t \in Statement, LeadsTo(b, t)
  PROVE  sierra_function_for_statement(t) = sierra_function_for_statement(b)
<1> DEFINE f == sierra_function_for_statement(b)
           g == sierra_function_for_statement(t)
<1>1. /\ f \in EntryPoints /\ f \in Statement /\ f <= b
      /\ \A e \in EntryPoints : e <= b => e <= f
  BY FunctionOfStatement
<1>2. /\ g \in EntryPoints /\ g \in Statement /\ g <= t
      /\ \A e \in EntryPoints : e <= t => e <= g
  BY FunctionOfStatement
<1>3. b \in Nat /\ t \in Nat /\ f \in Nat /\ g \in Nat /\ b <= t
  BY <1>1, <1>2, StatementNumbers DEF LeadsTo
<1>4. ~ b < g
  <2>1. SUFFICES ASSUME b < g PROVE FALSE
    OBVIOUS
  <2>2. g - 1 \in Statement /\ is_return_statement(g - 1)
    BY <2>1, <1>2, <1>3, FunctionAssumption, StatementNumbers
  <2>3. g - 1 \in Casm
    BY <2>2, CallsAndReturnsAreCasm
  <2>4. g - 1 \in b..(t - 1)
    BY <2>1, <1>2, <1>3
  <2>5. QED
    BY <2>3, <2>4 DEF LeadsTo, does_compile_to_casm
<1>5. f <= g
  BY <1>1, <1>2, <1>3
<1>6. g <= f
  BY <1>1, <1>2, <1>3, <1>4
<1>7. QED
  BY <1>3, <1>5, <1>6

(* Nor does a branch.                                                      *)
LEMMA BranchSameFunction ==
  ASSUME NEW s \in Statement, NEW t \in BranchTargets(s)
  PROVE  sierra_function_for_statement(t) = sierra_function_for_statement(s)
<1> DEFINE f == sierra_function_for_statement(s)
           g == sierra_function_for_statement(t)
<1>1. t \in Statement /\ t > s
  BY BranchTargetType
<1>2. /\ f \in EntryPoints /\ f \in Statement /\ f <= s
      /\ \A e \in EntryPoints : e <= s => e <= f
  BY FunctionOfStatement
<1>3. /\ g \in EntryPoints /\ g \in Statement /\ g <= t
      /\ \A e \in EntryPoints : e <= t => e <= g
  BY <1>1, FunctionOfStatement
<1>4. ~ s < g
  BY <1>3, FunctionAssumption
<1>5. s \in Nat /\ t \in Nat /\ f \in Nat /\ g \in Nat
  BY <1>1, <1>2, <1>3, StatementNumbers
<1>6. f <= g /\ g <= f
  BY <1>1, <1>2, <1>3, <1>4, <1>5
<1>7. QED
  BY <1>5, <1>6

(* An entry point belongs to the function it starts.                       *)
LEMMA FunctionOfEntryPoint ==
  ASSUME NEW e \in EntryPoints
  PROVE  e \in Statement /\ sierra_function_for_statement(e) = e
<1>1. e \in Statement
  BY FunctionAssumption
<1>2. e <= sierra_function_for_statement(e) /\ sierra_function_for_statement(e) <= e
  BY <1>1, FunctionOfStatement, StatementNumbers
<1>3. e \in Nat /\ sierra_function_for_statement(e) \in Nat
  BY <1>1, FunctionOfStatement, StatementNumbers
<1>4. QED
  BY <1>1, <1>2, <1>3

(* Where handle_branch_entrances finds a branch, it is one of the          *)
(* statement's and leads to where the program is.                          *)
LEMMA HitBranchType ==
  ASSUME NEW s \in Statement, NEW t \in Statement, HitBranches(s, t) # {}
  PROVE  /\ hit_branch_entrance(s, t) \in BranchTargets(s)
         /\ hit_branch_entrance(s, t) \in Statement
         /\ LeadsTo(hit_branch_entrance(s, t), t)
<1> DEFINE H == HitBranches(s, t)
<1>1. Branches[s] \in Seq(Statement)
  BY StatementAssumption
<1>2. H \in SUBSET Nat /\ H \subseteq DOMAIN Branches[s]
  BY <1>1 DEF HitBranches, branches_for_statement
<1>3. PICK i \in H : \A j \in H : i <= j
  BY <1>2, LeastElement
<1>4. DEFINE k == CHOOSE x \in H : \A j \in H : x <= j
<1>5. k \in H
  BY <1>3
<1>6. hit_branch_entrance(s, t) = Branches[s][k]
  BY DEF hit_branch_entrance, branches_for_statement
<1>7. QED
  BY <1>1, <1>2, <1>5, <1>6, BranchTargetType
  DEF HitBranches, BranchTargets, branches_for_statement

(* A branch that leads there is found.                                     *)
LEMMA HitBranchFound ==
  ASSUME NEW s \in Statement, NEW t \in Statement,
         NEW b \in BranchTargets(s), LeadsTo(b, t)
  PROVE  HitBranches(s, t) # {}
  BY DEF HitBranches, BranchTargets, branches_for_statement

----------------------------------------------------------------------------
(* Sequences. *)

LEMMA LastElement ==
  ASSUME NEW S, NEW q \in Seq(S), q # << >>
  PROVE  Len(q) \in DOMAIN q /\ q[Len(q)] \in S
  OBVIOUS

LEMMA Prefix ==
  ASSUME NEW S, NEW q \in Seq(S), NEW n \in Nat, n <= Len(q)
  PROVE  /\ SubSeq(q, 1, n) \in Seq(S)
         /\ Len(SubSeq(q, 1, n)) = n
         /\ \A i \in 1..n : SubSeq(q, 1, n)[i] = q[i]
  OBVIOUS

LEMMA Extension ==
  ASSUME NEW S, NEW q \in Seq(S), NEW e \in S
  PROVE  /\ Append(q, e) \in Seq(S)
         /\ DOMAIN Append(q, e) = DOMAIN q \union {Len(q) + 1}
         /\ \A i \in DOMAIN q : Append(q, e)[i] = q[i]
         /\ Append(q, e)[Len(q) + 1] = e
  OBVIOUS

----------------------------------------------------------------------------
(* Types of what the actions build. *)

(* Every statement has a frame at least, that of an unknown location.      *)
LEMMA FrameLocationsType ==
  ASSUME NEW s \in Statement
  PROVE  FrameLocations(s) \in Seq(FramePlace) /\ FrameLocations(s) # << >>
<1> DEFINE L == Locations[s]
           V == {L[i] : i \in DOMAIN L}
           names == FrameNames(s)
<1>1. L \in Seq(V)
  BY StatementAssumption
<1>2. V \subseteq CodeLocations
  BY DEF CodeLocations
<1>3. CASE Len(L) = 0
  <2>1. FrameLocations(s) = <<unknown_frame>>
    BY <1>3 DEF FrameLocations, code_locations_for_statement_idx
  <2>2. unknown_frame \in FramePlace
    BY DEF CodeLocations, FrameName, FramePlace, unknown_frame
  <2>3. QED
    BY <2>1, <2>2
<1>4. CASE Len(L) # 0
  <2> DEFINE n == Len(L)
             zipped == IF n <= Len(names) THEN n ELSE Len(names)
  <2>1. names \in Seq(FrameName) /\ names # << >>
    <3> DEFINE F == FunctionNames[s]
               W == {F[i] : i \in DOMAIN F}
    <3>1. F \in Seq(W)
      BY StatementAssumption
    <3>2. W \subseteq FrameName /\ "test" \in FrameName
      BY DEF FrameName
    <3>3. names = IF F = << >> THEN <<"test">> ELSE F
      BY DEF FrameNames, function_names_for_statement_idx
    <3> HIDE DEF F, W, names
    <3>4. QED
      BY <3>1, <3>2, <3>3
  <2>2. FrameLocations(s) = [i \in 1..zipped |-> [location |-> L[n + 1 - i], name |-> names[i]]]
    BY <1>4 DEF FrameLocations, code_locations_for_statement_idx
  <2> HIDE DEF names
  <2>3. /\ zipped \in Nat \ {0} /\ zipped <= n
        /\ \A i \in 1..zipped : L[n + 1 - i] \in V /\ names[i] \in FrameName
    BY <1>1, <1>4, <2>1
  <2>4. \A i \in 1..zipped : [location |-> L[n + 1 - i], name |-> names[i]] \in FramePlace
    BY <1>2, <2>3 DEF FramePlace
  <2> HIDE DEF zipped, L, n
  <2>5. [i \in 1..zipped |-> [location |-> L[n + 1 - i], name |-> names[i]]] \in Seq(FramePlace)
    BY <2>3, <2>4
  <2>6. FrameLocations(s) # << >>
    <3>1. 1 \in DOMAIN FrameLocations(s)
      BY <2>2, <2>3
    <3>2. QED
      BY <3>1
  <2>7. QED
    BY <2>2, <2>5, <2>6
<1>5. QED
  BY <1>3, <1>4

LEMMA FunctionVariablesType ==
  ASSUME NEW s \in Statement, NEW a \in Args, NEW trace \in SUBSET TraceEntry
  PROVE  FunctionVariables(sierra_function_for_statement(s), a, trace) \in VariablesType
  BY FunctionOfStatement DEF FunctionVariables, VariablesType

LEMMA SubStackType ==
  ASSUME NEW s \in Statement, NEW id \in Nat, NEW variables \in VariablesType
  PROVE  SubStack(s, id, variables) \in Seq(FrameType)
<1> DEFINE L == FrameLocations(s)
           built == build_stack_frames(s, id)
<1>1. L \in Seq(FramePlace)
  BY FrameLocationsType
<1>2. built = [i \in 1..Len(L) |-> [id |-> id, at |-> L[i]]] /\ Len(L) \in Nat
  BY <1>1 DEF build_stack_frames
<1>3. NoVariables \in VariablesType
  BY DEF NoVariables, VariablesType
<1>4. \A i \in 1..Len(L) :
        [id |-> id, at |-> built[i].at,
         vars |-> IF i = Len(built) THEN variables ELSE NoVariables] \in FrameType
  BY <1>1, <1>2, <1>3 DEF FrameType
<1>5. DOMAIN built = 1..Len(L)
  BY <1>2
<1>6. QED
  BY <1>2, <1>4, <1>5 DEF SubStack

(* The trace grows by statements of the program.                           *)
LEMMA BranchEntrancesType ==
  ASSUME TypeOK, NEW t \in Statement, FindsBranch(t)
  PROVE  handle_branch_entrances(t) \in SUBSET TraceEntry
<1> DEFINE last == current_context.last_executed_statement
           hit == hit_branch_entrance(last, t)
<1>1. last \in Statement \union {NoStatement}
  BY DEF TypeOK, ContextType
<1>2. CASE last = NoStatement
  <2>1. sierra_function_for_statement(t) \in Nat
    BY FunctionOfStatement, StatementNumbers
  <2>2. QED
    BY <1>2, <2>1, FallThroughType DEF handle_branch_entrances
<1>3. CASE last # NoStatement
  <2>1. last \in Statement /\ HitBranches(last, t) # {}
    BY <1>1, <1>3 DEF FindsBranch
  <2>2. hit \in Statement
    BY <2>1, HitBranchType
  <2> HIDE DEF hit
  <2>3. hit \in Nat /\ hit + 1 \in Nat
    <3>1. hit \in Nat
      BY <2>2, StatementNumbers
    <3>2. QED
      BY <3>1
  <2>4. FallThrough(hit + 1, t) \subseteq TraceEntry
    BY <2>3, FallThroughType
  <2>5. [stmt |-> last, target |-> hit] \in TraceEntry
    BY <2>1, <2>2 DEF TraceEntry
  <2>6. QED
    BY <1>3, <2>4, <2>5 DEF hit, handle_branch_entrances
<1>4. QED
  BY <1>2, <1>3

----------------------------------------------------------------------------
(* One lemma per action. *)

LEMMA InitType == Init => TypeInv
<1> SUFFICES ASSUME Init PROVE TypeInv
  OBVIOUS
<1>1. Main \in Statement /\ Main \in Nat
  BY FunctionAssumption, StatementNumbers
<1>2. pc \in Casm
  BY <1>1, NextCasmType DEF Init, VmInit
<1>3. executed \in SUBSET TraceEntry
  BY <1>1, <1>2, FallThroughType, StatementNumbers DEF Init, VmInit
<1>4. VmTypeOK
  <2>1. rets \in Seq(Activation) /\ arg \in Args
    BY DEF Init, VmInit
  <2>2. mapped \in BOOLEAN /\ halted \in BOOLEAN
    BY Zenon DEF Init, VmInit
  <2>3. QED
    BY <1>2, <1>3, <2>1, <2>2 DEF VmTypeOK, TraceEntry
<1>5. current_context \in ContextType
  BY ReferenceAssumption DEF Init, SierraFunctionContext, ContextType
<1>6. action_on_new_statement \in [kind : {"none", "push", "pop"}, substack : Seq(FrameType)]
  BY DEF Init, NoAction
<1>7. CallsSuspended /\ BasesOrdered
  BY DEF Init, VmInit, CallsSuspended, BasesOrdered
<1>8. QED
  BY <1>4, <1>5, <1>6, <1>7, ReferenceAssumption
  DEF Init, TypeInv, TypeOK, FunctionKnown, Phase

LEMMA EnterStatementType == TypeInv /\ EnterStatement => TypeInv'
<1> SUFFICES ASSUME TypeInv, EnterStatement PROVE TypeInv'
  OBVIOUS
<1> USE DEF TypeInv
<1>1. pc \in Statement /\ VmTypeOK' /\ current_statement_idx' \in Statement
  BY StatementNumbers DEF TypeOK, VmTypeOK, EnterStatement, vmVars
<1>1a. CallsSuspended' /\ BasesOrdered'
  BY DEF EnterStatement, update_pre_step, vmVars, stackVars, CallsSuspended, BasesOrdered
<1> DEFINE last == current_context.last_executed_statement
           start == current_context.nested_ref_start
           trace == current_context.post_statements_registers
           context == SierraFunctionContext(trace \union handle_branch_entrances(pc), pc, start)
<1>2. /\ start \in Nat
      /\ trace \in SUBSET TraceEntry
  BY DEF TypeOK, ContextType
<1>3. CASE UNCHANGED stackVars /\ phase' = "panicked"
  BY <1>1a, <1>1, <1>3 DEF TypeOK, FunctionKnown, Phase, stackVars
<1>4. CASE UNCHANGED stackVars /\ phase' = "handle" /\ last = pc
  BY <1>1a, <1>1, <1>4, StatementNumbers DEF TypeOK, FunctionKnown, Phase, stackVars
<1>5. CASE /\ phase' = "handle" /\ last # pc /\ FindsBranch(pc)
           /\ nested_var_registry' = Retain(start)
           /\ next_nested_ref' = start
           /\ current_context' = context
           /\ action_on_new_statement' = ActionFor(pc, context)
           /\ UNCHANGED <<frames, contexts>>
  <2>1. trace \union handle_branch_entrances(pc) \in SUBSET TraceEntry
    BY <1>1, <1>2, <1>5, BranchEntrancesType
  <2>2. context \in ContextType
    BY <1>1, <1>2, <2>1 DEF SierraFunctionContext, ContextType
  <2>3. current_context'.last_executed_statement # NoStatement
    BY <1>1, <1>5, StatementNumbers DEF SierraFunctionContext
  <2>4. /\ DOMAIN Retain(start) \subseteq DOMAIN nested_var_registry
        /\ \A r \in DOMAIN Retain(start) : Retain(start)[r] = nested_var_registry[r]
    BY DEF Retain
  <2>5. ActionFor(pc, context) \in [kind : {"none", "push", "pop"}, substack : Seq(FrameType)]
    <3>1. next_frame_id \in Nat
      BY DEF TypeOK, next_frame_id, flat_length, MIN_OBJECT_REFERENCE
    <3>2. FunctionVariables(sierra_function_for_statement(pc), arg,
                            context.post_statements_registers) \in VariablesType
      <4>1. arg \in Args /\ context.post_statements_registers \in SUBSET TraceEntry
        BY <2>2 DEF TypeOK, VmTypeOK, ContextType
      <4>2. QED
        BY <1>1, <4>1, FunctionVariablesType
    <3>3. CASE is_function_call_statement(pc)
      BY <1>1, <3>1, <3>2, <3>3, SubStackType DEF ActionFor
    <3>4. CASE ~ is_function_call_statement(pc)
      BY <3>4 DEF ActionFor, TypeOK
    <3>5. QED
      BY <3>3, <3>4
  <2>6. QED
    BY <1>1a, <1>1, <1>2, <1>5, <2>2, <2>3, <2>4, <2>5 DEF TypeOK, FunctionKnown, Phase
<1>6. QED
  BY <1>3, <1>4, <1>5 DEF EnterStatement, update_pre_step

LEMMA VariablesInScopeType ==
  ASSUME TypeInv, phase = "handle", NEW ref \in Int
  PROVE  VariablesInScope(ref) \in VariablesType
<1> USE DEF TypeInv
<1>1. get_current_function_variables \in VariablesType
  <2>1. /\ current_context.last_executed_statement \in Statement
        /\ current_context.post_statements_registers \in SUBSET TraceEntry
        /\ arg \in Args
    BY DEF TypeOK, VmTypeOK, ContextType, FunctionKnown
  <2>2. QED
    BY <2>1, FunctionVariablesType DEF get_current_function_variables
<1>2. ASSUME NEW k \in 0..(flat_length - 1) PROVE frames[k + 1].vars \in VariablesType
  <2>1. frames \in Seq(FrameType) /\ k + 1 \in 1..Len(frames)
    BY DEF TypeOK, flat_length
  <2>2. frames[k + 1] \in FrameType
    BY <2>1
  <2>3. QED
    BY <2>2 DEF FrameType
<1>3. QED
  BY <1>1, <1>2 DEF VariablesInScope

LEMMA GetVariablesType ==
  ASSUME TypeInv, NEW ref \in References, get_variables(ref)
  PROVE  TypeInv'
<1> USE DEF TypeInv
<1> DEFINE children == Requested(ref)
<1>1. ref \in Nat /\ phase = "handle" /\ VmTypeOK' /\ CallsSuspended' /\ BasesOrdered'
  BY ReferenceAssumption
  DEF get_variables, vmVars, TypeOK, VmTypeOK, CallsSuspended, BasesOrdered
<1>2. children \in RegistryType
  <2>1. CASE ref \in DOMAIN nested_var_registry
    BY <2>1 DEF Requested, TypeOK, RegistryType
  <2>2. CASE ref \notin DOMAIN nested_var_registry
    BY <1>1, <2>2, VariablesInScopeType DEF Requested, RegistryType
  <2>3. QED
    BY <2>1, <2>2
<1>3. /\ DOMAIN nested_var_registry' \subseteq Nat
      /\ \A r \in DOMAIN nested_var_registry' : nested_var_registry'[r] \in RegistryType
      /\ next_nested_ref' \in Nat
  <2> HIDE DEF children
  <2>1. register_children(children)
    BY DEF get_variables, children
  <2>2. QED
    BY <1>2, <2>1 DEF register_children, TypeOK
<1>4. QED
  BY <1>1, <1>3 DEF get_variables, TypeOK, FunctionKnown

(* The VM keeps to the program.                                            *)
LEMMA VmInstructionType ==
  ASSUME VmTypeOK, CallsSuspended, VmInstruction
  PROVE  VmTypeOK' /\ CallsSuspended'
<1>1. pc \in Statement
  BY StatementNumbers DEF VmTypeOK
<1>2. CASE VmStay \/ VmOutside \/ VmHalt
  BY <1>2 DEF VmStay, VmOutside, VmHalt, VmTypeOK, CallsSuspended
<1>3. CASE VmBranch
  <2>1. PICK b \in BranchTargets(pc) :
          /\ pc' = NextCasm(b)
          /\ executed' = executed \union {[stmt |-> pc, target |-> b]} \union FallThrough(b, pc')
    BY <1>3 DEF VmBranch
  <2>2. b \in Statement /\ b \in Nat
    BY <1>1, BranchTargetType, StatementNumbers
  <2>3. pc' \in Casm /\ pc' \in Statement
    BY <2>1, <2>2, NextCasmType, StatementNumbers
  <2>4. FallThrough(b, pc') \subseteq TraceEntry
    BY <2>2, <2>3, FallThroughType
  <2>5. executed' \in SUBSET TraceEntry
    BY <1>1, <2>1, <2>2, <2>4 DEF VmTypeOK, TraceEntry
  <2>6. QED
    BY <1>3, <2>3, <2>5 DEF VmBranch, VmTypeOK, TraceEntry, CallsSuspended
<1>4. CASE VmCall
  <2>1. Callee[pc] \in Statement /\ Callee[pc] \in Nat
    BY <1>1, <1>4, CallContinues, FunctionAssumption, StatementNumbers DEF VmCall
  <2>2. pc' \in Casm /\ pc' \in Statement
    BY <1>4, <2>1, NextCasmType, StatementNumbers DEF VmCall
  <2>3. executed' \in SUBSET TraceEntry
    BY <1>4, <2>1, <2>2, FallThroughType DEF VmCall
  <2> DEFINE suspended == [call |-> pc, arg |-> arg, executed |-> executed]
  <2>4. suspended \in Activation
    BY <1>1 DEF VmTypeOK, Activation
  <2>5. rets' \in Seq(Activation)
    BY <1>4, <2>4 DEF VmCall, VmTypeOK
  <2>6. CallsSuspended'
    BY <1>4 DEF VmCall, VmTypeOK, CallsSuspended
  <2>7. QED
    BY <1>4, <2>2, <2>3, <2>5, <2>6 DEF VmCall, VmTypeOK, TraceEntry
<1>5. CASE VmReturn
  <2> DEFINE caller == rets[Len(rets)]
  <2>1. rets \in Seq(Activation) /\ rets # << >>
    BY <1>5 DEF VmReturn, VmTypeOK
  <2>1a. Len(rets) \in DOMAIN rets /\ caller \in Activation
    BY <2>1, LastElement
  <2>2. /\ caller.call \in Statement
        /\ caller.arg \in Args
        /\ caller.executed \in SUBSET TraceEntry
        /\ is_function_call_statement(caller.call)
    BY <2>1a DEF Activation, TraceEntry, CallsSuspended
  <2> DEFINE next == caller.call + 1
  <2>3. next \in Statement /\ next \in Nat
    BY <2>2, CallContinues, StatementNumbers
  <2>4. pc' \in Casm /\ pc' \in Statement
    BY <1>5, <2>3, NextCasmType, StatementNumbers DEF VmReturn
  <2>5. FallThrough(next, pc') \subseteq TraceEntry
    BY <2>3, <2>4, FallThroughType
  <2>6. [stmt |-> caller.call, target |-> next] \in TraceEntry
    BY <2>2, <2>3 DEF TraceEntry
  <2>7. executed' \in SUBSET TraceEntry
    BY <1>5, <2>2, <2>5, <2>6 DEF VmReturn
  <2>8. rets' \in Seq(Activation) /\ CallsSuspended'
    BY <1>5, <2>1 DEF VmReturn, CallsSuspended
  <2>9. QED
    BY <1>5, <2>2, <2>4, <2>7, <2>8 DEF VmReturn, VmTypeOK, TraceEntry
<1>6. QED
  BY <1>2, <1>3, <1>4, <1>5 DEF VmInstruction

LEMMA UpdatePostStepType == TypeInv /\ update_post_step => TypeInv'
<1> SUFFICES ASSUME TypeInv, update_post_step PROVE TypeInv'
  OBVIOUS
<1> USE DEF TypeInv
<1>1. VmTypeOK' /\ FunctionKnown' /\ CallsSuspended'
  BY DEF update_post_step, vmVars, TypeOK, VmTypeOK, FunctionKnown, CallsSuspended
<1>2. phase' \in Phase /\ current_statement_idx' \in Statement \union {NoStatement}
  BY DEF update_post_step, TypeOK, Phase
<1>3. NoAction \in [kind : {"none", "push", "pop"}, substack : Seq(FrameType)]
  BY DEF NoAction
<1>4. CASE NothingToApply
  BY <1>1, <1>2, <1>4 DEF NothingToApply, TypeOK, stackVars, BasesOrdered
<1>5. CASE ApplyPush
  <2>1. frames' \in Seq(FrameType)
    BY <1>5 DEF ApplyPush, TypeOK
  <2> DEFINE pushed == [base |-> flat_length, context |-> current_context]
  <2>2. pushed \in ContextEntry /\ pushed.base = Len(frames) /\ contexts \in Seq(ContextEntry)
    BY DEF TypeOK, flat_length, ContextEntry
  <2>3. /\ contexts' \in Seq(ContextEntry)
        /\ DOMAIN contexts' = DOMAIN contexts \union {Len(contexts) + 1}
        /\ \A i \in DOMAIN contexts : contexts'[i] = contexts[i]
        /\ contexts'[Len(contexts) + 1].base = Len(frames)
    <3>1. contexts' = Append(contexts, pushed)
      BY <1>5 DEF ApplyPush
    <3> HIDE DEF pushed
    <3>2. QED
      BY <2>2, <3>1, Extension
  <2>4. current_context' \in ContextType
    BY <1>5 DEF ApplyPush, SierraFunctionContext, ContextType, TypeOK
  <2>5. BasesOrdered'
    <3>1. Len(frames) \in Nat /\ Len(frames') \in Nat /\ Len(frames) <= Len(frames')
      BY <1>5, <2>1 DEF ApplyPush, TypeOK
    <3>2. \A i \in DOMAIN contexts : contexts[i].base \in Nat
      <4>1. \A i \in DOMAIN contexts : contexts[i] \in ContextEntry
        BY <2>2
      <4>2. QED
        BY <4>1 DEF ContextEntry
    <3>3. DOMAIN contexts = 1..Len(contexts) /\ Len(contexts) \in Nat
      BY <2>2
    <3>4. \A i \in DOMAIN contexts' : contexts'[i].base <= Len(frames')
      BY <2>3, <3>1, <3>2 DEF BasesOrdered
    <3>5. \A i \in DOMAIN contexts' : \A j \in 1..i : contexts'[j].base <= contexts'[i].base
      BY <2>3, <3>1, <3>2, <3>3 DEF BasesOrdered
    <3>6. QED
      BY <3>4, <3>5 DEF BasesOrdered
  <2>6. QED
    BY <1>1, <1>2, <1>3, <1>5, <2>1, <2>3, <2>4, <2>5 DEF ApplyPush, TypeOK
<1>6. CASE ApplyPop
  <2> DEFINE top == contexts[Len(contexts)]
             start == top.context.nested_ref_start
  <2>1. contexts \in Seq(ContextEntry) /\ contexts # << >>
    BY <1>6 DEF ApplyPop, TypeOK
  <2>2. top \in ContextEntry /\ Len(contexts) \in DOMAIN contexts
    BY <2>1, LastElement
  <2>3. top.base \in Nat /\ top.context \in ContextType /\ start \in Nat
    BY <2>2 DEF ContextEntry, ContextType
  <2>4. /\ contexts' \in Seq(ContextEntry)
        /\ DOMAIN contexts' = 1..(Len(contexts) - 1)
        /\ \A i \in 1..(Len(contexts) - 1) : contexts'[i] = contexts[i]
    <3>1. Len(contexts) - 1 \in Nat /\ Len(contexts) - 1 <= Len(contexts)
      BY <2>1
    <3>2. QED
      BY <1>6, <2>1, <3>1, Prefix DEF ApplyPop
  <2>5. frames' \in Seq(FrameType) /\ Len(frames') = top.base
    <3>1. frames \in Seq(FrameType) /\ top.base <= Len(frames)
      BY <2>2 DEF BasesOrdered, TypeOK
    <3>2. QED
      BY <1>6, <2>3, <3>1, Prefix DEF ApplyPop
  <2>6. /\ DOMAIN nested_var_registry' \subseteq Nat
        /\ \A r \in DOMAIN nested_var_registry' : nested_var_registry'[r] \in RegistryType
    BY <1>6 DEF ApplyPop, Retain, TypeOK
  <2>7. BasesOrdered'
    <3>1. \A i \in DOMAIN contexts' :
            /\ contexts'[i] = contexts[i]
            /\ i \in DOMAIN contexts
            /\ Len(contexts) \in Nat /\ i \in 1..Len(contexts)
      BY <2>1, <2>4
    <3>2. \A i \in DOMAIN contexts' : contexts'[i].base <= Len(frames')
      BY <2>2, <2>5, <3>1 DEF BasesOrdered
    <3>3. \A i \in DOMAIN contexts' : \A j \in 1..i : contexts'[j].base <= contexts'[i].base
      BY <2>4, <3>1 DEF BasesOrdered
    <3>4. QED
      BY <3>2, <3>3 DEF BasesOrdered
  <2>8. QED
    BY <1>1, <1>2, <1>3, <1>6, <2>3, <2>4, <2>5, <2>6, <2>7 DEF ApplyPop, TypeOK
<1>7. CASE PopNothing
  BY <1>1, <1>2, <1>3, <1>7 DEF PopNothing, TypeOK, BasesOrdered
<1>8. QED
  BY <1>4, <1>5, <1>6, <1>7 DEF update_post_step

----------------------------------------------------------------------------
LEMMA TypeInvInductive == TypeInv /\ [Next]_vars => TypeInv'
<1> SUFFICES ASSUME TypeInv, [Next]_vars PROVE TypeInv'
  OBVIOUS
<1> USE DEF TypeInv
<1>1. CASE SkipInstruction \/ FinishPreStep \/ VmError \/ VmEnd \/ HookError
  BY <1>1 DEF SkipInstruction, FinishPreStep, VmError, VmEnd, HookError, vmVars,
              debuggerVars, stackVars, TypeOK, VmTypeOK, FunctionKnown, CallsSuspended, BasesOrdered,
              Phase
<1>2. CASE EnterStatement
  BY <1>2, EnterStatementType
<1>3. ASSUME NEW ref \in References, get_variables(ref) PROVE TypeInv'
  BY <1>3, GetVariablesType
<1>4. CASE ExecuteInstruction
  <2>1. VmTypeOK' /\ CallsSuspended'
    BY <1>4, VmInstructionType DEF ExecuteInstruction, TypeOK
  <2>2. QED
    BY <1>4, <2>1
    DEF ExecuteInstruction, debuggerVars, stackVars, TypeOK, FunctionKnown, BasesOrdered, Phase
<1>5. CASE update_post_step
  BY <1>5, UpdatePostStepType
<1>6. CASE UNCHANGED vars
  BY <1>6 DEF vars, vmVars, debuggerVars, stackVars, TypeOK, VmTypeOK, FunctionKnown,
              CallsSuspended, BasesOrdered
<1>7. QED
  BY <1>1, <1>2, <1>3, <1>4, <1>5, <1>6 DEF Next

(* The variables of the debugger and the VM keep their types: no hook      *)
(* reads a frame, a statement or a context that does not exist.            *)
THEOREM TypesCorrect == Spec => []TypeOK
<1>1. TypeInv => TypeOK
  BY DEF TypeInv
<1>2. QED
  BY <1>1, InitType, TypeInvInductive, PTL DEF Spec

----------------------------------------------------------------------------
(* Branches and frames, of programs without tail recursion. *)

(* Statements are arrived at from the branch that leads to them.           *)
LEMMA ArrivingFindsBranch ==
  ASSUME TypeInv, Arriving
  PROVE  FindsBranch(pc)
<1> DEFINE last == last_executed_statement
<1>1. pc \in Statement /\ last \in Statement \union {NoStatement}
  BY StatementNumbers
  DEF TypeInv, TypeOK, VmTypeOK, ContextType, last_executed_statement
<1>2. CASE last = NoStatement
  BY <1>2 DEF FindsBranch, last_executed_statement
<1>3. CASE last # NoStatement
  <2>1. PICK b \in BranchTargets(last) : LeadsTo(b, pc)
    BY <1>3 DEF Arriving
  <2>2. HitBranches(last, pc) # {}
    BY <1>1, <1>3, <2>1, HitBranchFound
  <2>3. QED
    BY <2>2 DEF FindsBranch, last_executed_statement
<1>4. QED
  BY <1>2, <1>3

(* A statement that a call or an entry point leads to.                     *)
LEMMA LeadsForward ==
  ASSUME NEW b \in Statement, NEW t \in Statement, LeadsTo(b, t)
  PROVE  b <= t /\ b \in Nat /\ t \in Nat
  BY StatementNumbers DEF LeadsTo

----------------------------------------------------------------------------
LEMMA InitStack == Init => StackInv
<1> SUFFICES ASSUME Init PROVE StackInv
  OBVIOUS
<1>1. pc # NoStatement
  BY InitType, StatementNumbers DEF TypeInv, TypeOK, VmTypeOK
<1>2. Arriving
  BY <1>1 DEF Init, Arriving, SierraFunctionContext, last_executed_statement
<1>3. PhaseInv
  BY <1>2 DEF Init, VmInit, PhaseInv, SameDepth, NoAction, Settled
<1>4. CallsChain /\ ContextsMatch
  BY DEF Init, VmInit, CallsChain, ContextsMatch
<1>5. NoPanic /\ HaltedOutside
  BY Zenon DEF Init, VmInit, NoPanic, HaltedOutside
<1>6. QED
  BY <1>3, <1>4, <1>5 DEF StackInv

(* A hook that skips an instruction has nothing pending.                   *)
LEMMA SkipInstructionStack == StackInv /\ SkipInstruction => StackInv'
<1> SUFFICES ASSUME StackInv, SkipInstruction PROVE StackInv'
  OBVIOUS
<1>1. SameDepth /\ action_on_new_statement.kind = "none" /\ Settled
  BY DEF StackInv, SkipInstruction, PhaseInv
<1>2. mapped => AtStatement /\ IsInvocation(pc)
  BY <1>1 DEF StackInv, SkipInstruction, AtNewStatement, Settled, Arriving, HaltedOutside
<1>3. mapped => ActionIsFor(pc, arg)
  BY <1>1, <1>2 DEF ActionIsFor, IsInvocation
<1>4. /\ (SameDepth /\ action_on_new_statement.kind = "none" /\ Settled)'
      /\ mapped' => AtStatement' /\ ActionIsFor(pc, arg)'
  BY <1>1, <1>2, <1>3
  DEF SkipInstruction, vmVars, debuggerVars, stackVars, SameDepth, Settled, Arriving,
      AtStatement, ActionIsFor, CallSubStack, next_frame_id, flat_length,
      last_executed_statement
<1>5. PhaseInv' /\ NoPanic'
  BY <1>4 DEF SkipInstruction, PhaseInv, NoPanic
<1>6. CallsChain' /\ ContextsMatch' /\ HaltedOutside'
  BY DEF StackInv, SkipInstruction, vmVars, debuggerVars, stackVars, CallsChain, LastCall,
         ContextsMatch, HaltedOutside
<1>7. QED
  BY <1>5, <1>6 DEF StackInv

(* At a new statement the branch is found and the action is prepared.      *)
LEMMA EnterStatementStack == TypeInv /\ StackInv /\ EnterStatement => StackInv'
<1> SUFFICES ASSUME TypeInv, StackInv, EnterStatement PROVE StackInv'
  OBVIOUS
<1>1. /\ SameDepth
      /\ action_on_new_statement.kind = "none"
      /\ mapped /\ Arriving
  BY DEF StackInv, EnterStatement, AtNewStatement, PhaseInv, Settled, AtStatement, HaltedOutside
<1>2. FindsBranch(pc) /\ last_executed_statement # pc
  BY <1>1, ArrivingFindsBranch DEF Arriving
<1> DEFINE trace == current_context.post_statements_registers \union handle_branch_entrances(pc)
           context == SierraFunctionContext(trace, pc, current_context.nested_ref_start)
<1>3. /\ phase' = "handle"
      /\ current_context' = context
      /\ action_on_new_statement' = ActionFor(pc, context)
      /\ UNCHANGED <<frames, contexts>>
  BY <1>2 DEF EnterStatement, update_pre_step, last_executed_statement
<1>4. current_statement_idx' = pc /\ UNCHANGED vmVars
  BY DEF EnterStatement
<1>5. current_context'.last_executed_statement = pc
  BY <1>3 DEF SierraFunctionContext
<1>6. AtStatement' /\ mapped' /\ SameDepth'
  BY <1>1, <1>3, <1>4, <1>5 DEF AtStatement, last_executed_statement, SameDepth, vmVars
<1>7. ActionIsFor(pc, arg)'
  <2> HIDE DEF trace
  <2>1. pc' = pc /\ arg' = arg /\ next_frame_id' = next_frame_id
    BY <1>3, <1>4 DEF vmVars, next_frame_id, flat_length
  <2>2. CASE is_function_call_statement(pc)
    <3>1. ~ is_return_statement(pc)
      BY <2>2, FlowAssumption, StatementNumbers
      DEF is_function_call_statement, is_return_statement, TypeInv, TypeOK, VmTypeOK
    <3>2. CallSubStack(arg)' =
            SubStack(pc, next_frame_id,
                     FunctionVariables(sierra_function_for_statement(pc), arg,
                                       context.post_statements_registers))
      BY <1>3, <1>4, <2>1 DEF CallSubStack
    <3>3. action_on_new_statement' = [kind |-> "push", substack |-> CallSubStack(arg)']
      BY <1>3, <2>2, <3>2 DEF ActionFor
    <3>4. QED
      BY <2>1, <2>2, <3>1, <3>3 DEF ActionIsFor, IsInvocation
  <2>3. CASE is_return_statement(pc) /\ ~ is_function_call_statement(pc)
    BY <1>3, <2>1, <2>3 DEF ActionFor, ActionIsFor, IsInvocation
  <2>4. CASE IsInvocation(pc)
    BY <1>1, <1>3, <2>1, <2>4 DEF ActionFor, ActionIsFor, IsInvocation
  <2>5. QED
    BY <2>2, <2>3, <2>4 DEF IsInvocation
<1>8. PhaseInv' /\ NoPanic'
  BY <1>3, <1>6, <1>7 DEF PhaseInv, NoPanic
<1>9. CallsChain' /\ ContextsMatch' /\ HaltedOutside'
  BY <1>3, <1>4 DEF StackInv, vmVars, CallsChain, LastCall, ContextsMatch, HaltedOutside
<1>10. QED
  BY <1>8, <1>9 DEF StackInv

----------------------------------------------------------------------------
(* The instructions of the VM. *)

(* Calls, returns and invocations are three kinds of statements; only an   *)
(* invocation branches.                                                    *)
LEMMA KindsDisjoint ==
  ASSUME NEW s \in Statement
  PROVE  /\ ~ (is_function_call_statement(s) /\ is_return_statement(s))
         /\ BranchTargets(s) # {} => ~ is_return_statement(s)
<1>1. is_function_call_statement(s) => ~ is_return_statement(s)
  BY DEF is_function_call_statement, is_return_statement
<1>2. is_return_statement(s) => BranchTargets(s) = {}
  BY FlowAssumption DEF BranchTargets, branches_for_statement
<1>3. QED
  BY <1>1, <1>2

(* What the debugger's variables are is not changed by an instruction, and *)
(* neither is what is said of them alone.                                  *)
LEMMA DebuggerUnchanged ==
  ASSUME ExecuteInstruction
  PROVE  /\ UNCHANGED <<current_statement_idx, frames, contexts, current_context,
                        action_on_new_statement>>
         /\ last_executed_statement' = last_executed_statement
         /\ \A a : CallSubStack(a)' = CallSubStack(a)
         /\ phase' = "post"
         /\ NoPanic'
<1>1. UNCHANGED <<current_statement_idx, frames, contexts, current_context,
                  action_on_new_statement>> /\ phase' = "post"
  BY DEF ExecuteInstruction, debuggerVars, stackVars
<1>2. QED
  BY <1>1 DEF last_executed_statement, CallSubStack, next_frame_id, flat_length, NoPanic

LEMMA OutsideStack ==
  ASSUME TypeInv, StackInv, ExecuteInstruction, VmStay \/ VmOutside
  PROVE  StackInv'
<1>1. SameDepth /\ Settled /\ action_on_new_statement.kind = "none"
  <2>1. CASE VmStay
    BY <2>1 DEF StackInv, ExecuteInstruction, PhaseInv, VmStay, ActionIsFor, IsInvocation, Settled
  <2>2. CASE VmOutside
    BY <2>2 DEF StackInv, ExecuteInstruction, PhaseInv, VmOutside
  <2>3. QED
    BY <2>1, <2>2
<1>2. UNCHANGED <<pc, halted, arg, rets>> /\ HaltedOutside'
  BY DEF VmStay, VmOutside, HaltedOutside, StackInv
<1>3. (SameDepth /\ Settled /\ action_on_new_statement.kind = "none")'
  BY <1>1, <1>2, DebuggerUnchanged DEF SameDepth, Settled, Arriving, AtStatement
<1>4. PhaseInv'
  BY <1>3, DebuggerUnchanged DEF PhaseInv
<1>5. CallsChain' /\ ContextsMatch'
  BY <1>2, DebuggerUnchanged DEF StackInv, CallsChain, LastCall, ContextsMatch
<1>6. QED
  BY <1>2, <1>4, <1>5, DebuggerUnchanged DEF StackInv

LEMMA BranchStack ==
  ASSUME TypeInv, StackInv, ExecuteInstruction, VmBranch
  PROVE  StackInv'
<1>1. PICK b \in BranchTargets(pc) : pc' = NextCasm(b)
  BY DEF VmBranch
<1>2. pc \in Statement
  BY StatementNumbers DEF TypeInv, TypeOK, VmTypeOK
<1>3. b \in Statement /\ b > pc
  BY <1>2, BranchTargetType
<1>4. pc' \in Statement /\ LeadsTo(b, pc') /\ pc' # pc
  <2>1. pc' \in Casm /\ LeadsTo(b, pc')
    BY <1>1, <1>3, NextCasmType
  <2>2. pc' \in Statement
    BY <2>1, StatementNumbers
  <2>3. b <= pc' /\ b \in Nat /\ pc' \in Nat /\ pc \in Nat
    BY <1>2, <1>3, <2>1, <2>2, StatementNumbers DEF LeadsTo
  <2>4. QED
    BY <1>3, <2>1, <2>2, <2>3
<1>5. SameDepth /\ AtStatement /\ ActionIsFor(pc, arg)
  BY DEF StackInv, ExecuteInstruction, VmBranch, PhaseInv
<1>6. action_on_new_statement.kind = "none"
  BY <1>2, <1>5, KindsDisjoint DEF VmBranch, ActionIsFor, IsInvocation
<1>7. Arriving'
  <2>1. pc' # current_statement_idx' /\ last_executed_statement' # pc'
    BY <1>4, <1>5, DebuggerUnchanged DEF AtStatement
  <2>2. b \in BranchTargets(last_executed_statement')
    BY <1>1, <1>5, DebuggerUnchanged DEF AtStatement
  <2>3. QED
    BY <1>4, <2>1, <2>2 DEF Arriving
<1>8. PhaseInv'
  BY <1>5, <1>6, <1>7, DebuggerUnchanged DEF PhaseInv, Settled, SameDepth, VmBranch
<1>9. CallsChain'
  <2>1. sierra_function_for_statement(pc') = sierra_function_for_statement(pc)
    BY <1>1, <1>2, <1>3, <1>4, FallThroughSameFunction, BranchSameFunction
  <2>2. QED
    BY <2>1 DEF StackInv, VmBranch, CallsChain, LastCall
<1>10. ContextsMatch' /\ HaltedOutside'
  BY DebuggerUnchanged DEF StackInv, VmBranch, ContextsMatch, HaltedOutside
<1>11. QED
  BY <1>8, <1>9, <1>10, DebuggerUnchanged DEF StackInv

LEMMA CallStackStep ==
  ASSUME TypeInv, StackInv, ExecuteInstruction, VmCall
  PROVE  StackInv'
<1>1. pc \in Statement /\ is_function_call_statement(pc)
  BY StatementNumbers DEF TypeInv, TypeOK, VmTypeOK, VmCall
<1>2. Callee[pc] \in EntryPoints /\ Callee[pc] \in Statement
  BY <1>1, CallContinues, FunctionAssumption
<1>3. pc' \in Statement /\ LeadsTo(Callee[pc], pc')
  BY <1>2, NextCasmType, StatementNumbers DEF VmCall
<1>4. SameDepth /\ AtStatement /\ ActionIsFor(pc, arg)
  BY DEF StackInv, ExecuteInstruction, VmCall, PhaseInv
<1>5. action_on_new_statement = [kind |-> "push", substack |-> CallSubStack(arg)]
  BY <1>1, <1>4 DEF ActionIsFor
<1> DEFINE suspended == [call |-> pc, arg |-> arg, executed |-> executed]
<1>6. /\ rets' # << >>
      /\ Len(rets') = Len(rets) + 1
      /\ rets'[Len(rets')] = suspended
      /\ Len(rets) \in Nat
      /\ \A i \in DOMAIN rets : rets'[i] = rets[i]
      /\ DOMAIN rets' = DOMAIN rets \union {Len(rets) + 1}
      /\ DOMAIN rets = 1..Len(rets)
  <2>1. suspended \in Activation /\ rets \in Seq(Activation)
    BY <1>1 DEF TypeInv, TypeOK, VmTypeOK, Activation
  <2>2. rets' = Append(rets, suspended)
    BY DEF VmCall
  <2> HIDE DEF suspended
  <2>3. QED
    BY <2>1, <2>2, Extension
<1>7. LastCall' = pc /\ rets'[Len(rets')].arg = arg
  BY <1>6 DEF LastCall
<1>8. PushPending'
  BY <1>1, <1>3, <1>4, <1>5, <1>6, <1>7, DebuggerUnchanged
  DEF PushPending, SameDepth, AtStatement
<1>9. PhaseInv'
  BY <1>5, <1>8, DebuggerUnchanged DEF PhaseInv
<1>10. CallsChain'
  <2>1. sierra_function_for_statement(pc') = Callee[pc]
    BY <1>2, <1>3, FallThroughSameFunction, FunctionOfEntryPoint
  <2>2. ASSUME NEW i \in DOMAIN rets', i > 1
        PROVE  sierra_function_for_statement(rets'[i].call) = Callee[rets'[i - 1].call]
    <3>1. CASE i \in DOMAIN rets
      <4>1. i - 1 \in DOMAIN rets
        BY <1>6, <2>2, <3>1
      <4>2. QED
        BY <1>6, <2>2, <3>1, <4>1 DEF StackInv, CallsChain
    <3>2. CASE i = Len(rets) + 1
      <4>1. rets # << >> /\ i - 1 = Len(rets) /\ i - 1 \in DOMAIN rets
        BY <1>6, <2>2, <3>2
      <4>2. rets'[i].call = pc /\ rets'[i - 1] = rets[Len(rets)]
        BY <1>6, <3>2, <4>1
      <4>3. QED
        BY <4>1, <4>2 DEF StackInv, CallsChain, LastCall
    <3>3. QED
      BY <1>6, <3>1, <3>2
  <2>3. QED
    BY <1>7, <2>1, <2>2 DEF CallsChain
<1>11. ContextsMatch'
  <2>1. DOMAIN contexts \subseteq DOMAIN rets
    BY <1>4, <1>6 DEF SameDepth, TypeInv, TypeOK
  <2>2. QED
    BY <1>6, <2>1, DebuggerUnchanged DEF StackInv, ContextsMatch
<1>12. HaltedOutside'
  BY DEF StackInv, HaltedOutside, VmCall
<1>13. QED
  BY <1>9, <1>10, <1>11, <1>12, DebuggerUnchanged DEF StackInv

(* The one place where the program matters: were the caller to return      *)
(* right away, through the very return statement, the debugger would not   *)
(* see that it has.                                                        *)
LEMMA ReturnStack ==
  ASSUME NoTailRecursion, TypeInv, StackInv, ExecuteInstruction, VmReturn
  PROVE  StackInv'
<1> DEFINE n == Len(rets)
           c == rets[n].call
<1>1. /\ rets \in Seq(Activation) /\ rets # << >>
      /\ n \in Nat \ {0} /\ n \in DOMAIN rets /\ DOMAIN rets = 1..n
  <2>1. rets \in Seq(Activation) /\ rets # << >>
    BY DEF TypeInv, TypeOK, VmTypeOK, VmReturn
  <2>2. QED
    BY <2>1, LastElement
<1>2. c \in Statement /\ is_function_call_statement(c)
  <2>1. rets[n] \in Activation
    BY <1>1, LastElement
  <2>2. QED
    BY <1>1, <2>1 DEF Activation, TypeInv, CallsSuspended
<1>3. c + 1 \in Statement /\ BranchTargets(c) = {c + 1}
  BY <1>2, CallContinues
<1>4. pc' \in Statement /\ LeadsTo(c + 1, pc')
  BY <1>3, NextCasmType, StatementNumbers DEF VmReturn
<1>5. pc \in Statement /\ is_return_statement(pc)
  BY StatementNumbers DEF TypeInv, TypeOK, VmTypeOK, VmReturn
<1>6. pc' # pc
  <2>1. sierra_function_for_statement(pc) = Callee[c]
    BY <1>1 DEF StackInv, CallsChain, LastCall
  <2>2. QED
    BY <1>2, <1>4, <1>5, <2>1 DEF NoTailRecursion
<1>7. SameDepth /\ AtStatement /\ ActionIsFor(pc, arg)
  BY DEF StackInv, ExecuteInstruction, VmReturn, PhaseInv
<1>8. action_on_new_statement.kind = "pop"
  BY <1>5, <1>7 DEF ActionIsFor
<1>9. /\ Len(rets') = n - 1
      /\ DOMAIN rets' = 1..(n - 1)
      /\ \A i \in 1..(n - 1) : rets'[i] = rets[i]
  <2>1. n - 1 \in Nat /\ n - 1 <= n
    BY <1>1
  <2>2. QED
    BY <1>1, <2>1, Prefix DEF VmReturn
<1>10. Len(contexts) = n /\ n \in DOMAIN contexts
  BY <1>1, <1>7 DEF SameDepth, TypeInv, TypeOK
<1>11. contexts[Len(contexts)].context.last_executed_statement = c
  BY <1>1, <1>10 DEF StackInv, ContextsMatch
<1>12. PopPending'
  <2>1. Len(contexts') = Len(rets') + 1
    BY <1>1, <1>9, <1>10, DebuggerUnchanged
  <2>2. pc' # current_statement_idx'
    BY <1>6, <1>7, DebuggerUnchanged DEF AtStatement
  <2>3. contexts' = contexts
    BY DebuggerUnchanged
  <2>4. QED
    BY <1>2, <1>4, <1>11, <2>1, <2>2, <2>3 DEF PopPending
<1>13. PhaseInv'
  BY <1>8, <1>12, DebuggerUnchanged DEF PhaseInv
<1>14. CallsChain'
  <2>1. sierra_function_for_statement(pc') = sierra_function_for_statement(c)
    BY <1>2, <1>3, <1>4, FallThroughSameFunction, BranchSameFunction
  <2>2. rets' # << >> => sierra_function_for_statement(pc') = Callee[LastCall']
    <3>1. SUFFICES ASSUME rets' # << >>
                   PROVE  sierra_function_for_statement(pc') = Callee[LastCall']
      OBVIOUS
    <3>2. n > 1
      BY <1>1, <1>9, <3>1 DEF VmReturn
    <3>3. LastCall' = rets[n - 1].call
      BY <1>1, <1>9, <3>2 DEF LastCall
    <3>4. sierra_function_for_statement(c) = Callee[rets[n - 1].call]
      BY <1>1, <3>2 DEF StackInv, CallsChain
    <3>5. QED
      BY <2>1, <3>3, <3>4
  <2>3. ASSUME NEW i \in DOMAIN rets', i > 1
        PROVE  sierra_function_for_statement(rets'[i].call) = Callee[rets'[i - 1].call]
    <3>1. i \in DOMAIN rets /\ rets'[i] = rets[i] /\ rets'[i - 1] = rets[i - 1]
      BY <1>1, <1>9, <2>3
    <3>2. QED
      BY <2>3, <3>1 DEF StackInv, CallsChain
  <2>4. QED
    BY <2>2, <2>3 DEF CallsChain
<1>15. ContextsMatch'
  BY <1>1, <1>9, DebuggerUnchanged DEF StackInv, ContextsMatch
<1>16. HaltedOutside'
  BY DEF StackInv, HaltedOutside, VmReturn
<1>17. QED
  BY <1>13, <1>14, <1>15, <1>16, DebuggerUnchanged DEF StackInv

LEMMA HaltStack ==
  ASSUME TypeInv, StackInv, ExecuteInstruction, VmHalt
  PROVE  StackInv'
<1>1. SameDepth /\ ActionIsFor(pc, arg)
  BY DEF StackInv, ExecuteInstruction, VmHalt, PhaseInv
<1>2. action_on_new_statement.kind = "pop"
  BY <1>1 DEF ActionIsFor, VmHalt
<1>3. contexts = << >> /\ rets = << >>
  BY <1>1 DEF SameDepth, VmHalt, TypeInv, TypeOK
<1>4. PopPending'
  BY <1>3, DebuggerUnchanged DEF PopPending, VmHalt
<1>5. PhaseInv'
  BY <1>2, <1>4, DebuggerUnchanged DEF PhaseInv
<1>6. CallsChain' /\ ContextsMatch'
  BY <1>3, DebuggerUnchanged DEF VmHalt, CallsChain, ContextsMatch
<1>7. HaltedOutside'
  BY DEF HaltedOutside, VmHalt
<1>8. QED
  BY <1>5, <1>6, <1>7, DebuggerUnchanged DEF StackInv

LEMMA ExecuteInstructionStack ==
  ASSUME NoTailRecursion, TypeInv, StackInv, ExecuteInstruction
  PROVE  StackInv'
  BY OutsideStack, BranchStack, CallStackStep, ReturnStack, HaltStack
  DEF ExecuteInstruction, VmInstruction

----------------------------------------------------------------------------
(* The post-step hook. *)

LEMMA ApplyPushStack ==
  ASSUME TypeInv, StackInv, update_post_step, ApplyPush
  PROVE  StackInv'
<1>1. PushPending
  BY DEF StackInv, PhaseInv, update_post_step, ApplyPush
<1>2. UNCHANGED vmVars /\ UNCHANGED current_statement_idx /\ phase' = "pre"
  BY DEF update_post_step
<1>3. contexts \in Seq(ContextEntry) /\ rets \in Seq(Activation) /\ pc \in Statement
  BY StatementNumbers DEF TypeInv, TypeOK, VmTypeOK
<1> DEFINE pushed == [base |-> flat_length, context |-> current_context]
<1>4. /\ Len(contexts') = Len(contexts) + 1
      /\ DOMAIN contexts' = DOMAIN contexts \union {Len(contexts) + 1}
      /\ \A i \in DOMAIN contexts : contexts'[i] = contexts[i]
      /\ contexts'[Len(contexts) + 1] = pushed
  <2>1. pushed \in ContextEntry
    BY DEF TypeInv, TypeOK, flat_length, ContextEntry
  <2>2. contexts' = Append(contexts, pushed)
    BY DEF ApplyPush
  <2> HIDE DEF pushed
  <2>3. QED
    BY <1>3, <2>1, <2>2, Extension
<1>5. LastCall \in Statement
  <2>1. rets[Len(rets)] \in Activation
    BY <1>1, <1>3, LastElement DEF PushPending
  <2>2. QED
    BY <2>1 DEF Activation, LastCall
<1>6. Arriving'
  <2>1. pc # LastCall
    BY <1>1, <1>5, RecursionAssumption DEF PushPending
  <2>2. last_executed_statement' = NoStatement
    BY DEF ApplyPush, SierraFunctionContext, last_executed_statement
  <2>3. QED
    BY <1>1, <1>2, <1>3, <2>1, <2>2, StatementNumbers DEF PushPending, Arriving, vmVars
<1>7. PhaseInv'
  <2>1. SameDepth'
    BY <1>1, <1>2, <1>4 DEF PushPending, SameDepth, vmVars
  <2>2. action_on_new_statement'.kind = "none"
    BY DEF ApplyPush, NoAction
  <2>3. QED
    BY <1>2, <1>6, <2>1, <2>2 DEF PhaseInv, Settled
<1>8. ContextsMatch'
  <2>1. rets' = rets
    BY <1>2 DEF vmVars
  <2>2. contexts'[Len(contexts) + 1].context.last_executed_statement = rets[Len(contexts) + 1].call
    BY <1>1, <1>4 DEF PushPending, last_executed_statement, LastCall
  <2>3. QED
    BY <1>4, <2>1, <2>2 DEF StackInv, ContextsMatch
<1>9. CallsChain' /\ HaltedOutside' /\ NoPanic'
  BY <1>2 DEF StackInv, CallsChain, LastCall, HaltedOutside, NoPanic, vmVars
<1>10. QED
  BY <1>7, <1>8, <1>9 DEF StackInv

LEMMA ApplyPopStack ==
  ASSUME TypeInv, StackInv, update_post_step, ApplyPop
  PROVE  StackInv'
<1> DEFINE n == Len(contexts)
           caller == contexts[n].context.last_executed_statement
<1>1. contexts # << >> /\ contexts \in Seq(ContextEntry) /\ rets \in Seq(Activation)
  BY DEF ApplyPop, TypeInv, TypeOK, VmTypeOK
<1>2. /\ n = Len(rets) + 1
      /\ pc # current_statement_idx
      /\ caller \in Statement
      /\ is_function_call_statement(caller)
      /\ LeadsTo(caller + 1, pc)
  BY <1>1 DEF StackInv, PhaseInv, update_post_step, ApplyPop, PopPending
<1>3. UNCHANGED vmVars /\ UNCHANGED current_statement_idx /\ phase' = "pre"
  BY DEF update_post_step
<1>4. /\ Len(contexts') = n - 1
      /\ DOMAIN contexts' = 1..(n - 1)
      /\ \A i \in 1..(n - 1) : contexts'[i] = contexts[i]
      /\ DOMAIN contexts = 1..n
      /\ n \in Nat
  <2>1. n - 1 \in Nat /\ n - 1 <= n /\ DOMAIN contexts = 1..n
    BY <1>1
  <2>2. contexts' \in Seq(ContextEntry) /\ Len(contexts') = n - 1
    BY <1>1, <2>1, Prefix DEF ApplyPop
  <2>3. \A i \in 1..(n - 1) : contexts'[i] = contexts[i]
    BY <1>1, <2>1, Prefix DEF ApplyPop
  <2>4. QED
    BY <2>1, <2>2, <2>3
<1>5. last_executed_statement' = caller
  BY DEF ApplyPop, last_executed_statement
<1>6. Arriving'
  <2>1. BranchTargets(caller) = {caller + 1} /\ caller + 1 \in Statement
    BY <1>2, CallContinues
  <2>2. pc \in Statement
    BY StatementNumbers DEF TypeInv, TypeOK, VmTypeOK
  <2>3. caller \in Nat /\ caller + 1 <= pc /\ pc \in Nat
    BY <1>2, <2>1, <2>2, LeadsForward, StatementNumbers
  <2> HIDE DEF caller
  <2>4. caller # pc
    BY <2>3
  <2>5. \E b \in BranchTargets(caller) : LeadsTo(b, pc)
    BY <1>2, <2>1
  <2>6. QED
    BY <1>2, <1>3, <1>5, <2>4, <2>5 DEF Arriving, vmVars
<1>7. PhaseInv'
  <2>1. SameDepth'
    BY <1>2, <1>3, <1>4, <1>1 DEF SameDepth, vmVars
  <2>2. action_on_new_statement'.kind = "none"
    BY DEF ApplyPop, NoAction
  <2>3. QED
    BY <1>3, <1>6, <2>1, <2>2 DEF PhaseInv, Settled
<1>8. ContextsMatch'
  BY <1>3, <1>4 DEF StackInv, ContextsMatch, vmVars
<1>9. CallsChain' /\ HaltedOutside' /\ NoPanic'
  BY <1>3 DEF StackInv, CallsChain, LastCall, HaltedOutside, NoPanic, vmVars
<1>10. QED
  BY <1>7, <1>8, <1>9 DEF StackInv

LEMMA UpdatePostStepStack ==
  ASSUME TypeInv, StackInv, update_post_step
  PROVE  StackInv'
<1>1. UNCHANGED vmVars /\ UNCHANGED current_statement_idx /\ phase' = "pre"
  BY DEF update_post_step
<1>2. CallsChain' /\ HaltedOutside' /\ NoPanic'
  BY <1>1 DEF StackInv, CallsChain, LastCall, HaltedOutside, NoPanic, vmVars
<1>3. CASE NothingToApply
  <2>1. SameDepth /\ Settled /\ action_on_new_statement.kind = "none"
    BY <1>3 DEF StackInv, PhaseInv, update_post_step, NothingToApply
  <2>2. (SameDepth /\ Settled /\ action_on_new_statement.kind = "none")'
    BY <1>1, <1>3, <2>1
    DEF NothingToApply, stackVars, vmVars, SameDepth, Settled, Arriving, AtStatement,
        last_executed_statement
  <2>3. ContextsMatch'
    BY <1>1, <1>3 DEF NothingToApply, stackVars, vmVars, StackInv, ContextsMatch
  <2>4. PhaseInv'
    BY <1>1, <2>2 DEF PhaseInv
  <2>5. QED
    BY <1>2, <2>3, <2>4 DEF StackInv
<1>4. CASE ApplyPush
  BY <1>4, ApplyPushStack
<1>5. CASE ApplyPop
  BY <1>5, ApplyPopStack
<1>6. CASE PopNothing
  <2>1. contexts = << >> /\ rets \in Seq(Activation)
    BY <1>6 DEF PopNothing, TypeInv, TypeOK, VmTypeOK
  <2>2. halted /\ rets = << >>
    BY <1>6, <2>1 DEF StackInv, PhaseInv, update_post_step, PopNothing, PopPending
  <2>3. (SameDepth /\ Settled)' /\ ContextsMatch'
    BY <1>1, <1>6, <2>1, <2>2 DEF PopNothing, vmVars, SameDepth, Settled, ContextsMatch
  <2>4. PhaseInv'
    BY <1>1, <1>6, <2>3 DEF PopNothing, NoAction, PhaseInv
  <2>5. QED
    BY <1>2, <2>3, <2>4 DEF StackInv
<1>7. QED
  BY <1>3, <1>4, <1>5, <1>6 DEF update_post_step

----------------------------------------------------------------------------
LEMMA StackInvInductive ==
  ASSUME NoTailRecursion, TypeInv, StackInv, [Next]_vars
  PROVE  StackInv'
<1>1. CASE SkipInstruction
  BY <1>1, SkipInstructionStack
<1>2. CASE EnterStatement
  BY <1>2, EnterStatementStack
<1>3. CASE ExecuteInstruction
  BY <1>3, ExecuteInstructionStack
<1>4. CASE update_post_step
  BY <1>4, UpdatePostStepStack
<1>5. ASSUME \/ \E ref \in References : get_variables(ref)
             \/ FinishPreStep \/ VmError \/ VmEnd \/ HookError \/ UNCHANGED vars
      PROVE  StackInv'
  <2>1. UNCHANGED <<vmVars, current_statement_idx, frames, contexts, current_context,
                    action_on_new_statement>>
    BY <1>5 DEF get_variables, FinishPreStep, VmError, VmEnd, HookError, vars, debuggerVars,
                stackVars
  <2>2. CallsChain' /\ ContextsMatch' /\ HaltedOutside'
    BY <2>1 DEF StackInv, CallsChain, LastCall, ContextsMatch, HaltedOutside, vmVars
  <2>3. phase' = phase \/ phase' = "ended" \/ (phase = "handle" /\ phase' = "exec")
    BY <1>5 DEF get_variables, FinishPreStep, VmError, VmEnd, HookError, vars
  <2>4. /\ SameDepth' <=> SameDepth
        /\ Settled' <=> Settled
        /\ AtStatement' <=> AtStatement
        /\ ActionIsFor(pc, arg)' <=> ActionIsFor(pc, arg)
        /\ PushPending' <=> PushPending
        /\ PopPending' <=> PopPending
    BY <2>1 DEF vmVars, SameDepth, Settled, Arriving, AtStatement, ActionIsFor, CallSubStack,
                next_frame_id, flat_length, PushPending, PopPending, LastCall,
                last_executed_statement
  <2>5. PhaseInv' /\ NoPanic'
    BY <2>1, <2>3, <2>4 DEF StackInv, PhaseInv, NoPanic, vmVars
  <2>6. QED
    BY <2>2, <2>5 DEF StackInv
<1>6. QED
  BY <1>1, <1>2, <1>3, <1>4, <1>5 DEF Next

LEMMA StackInvariant ==
  ASSUME NoTailRecursion
  PROVE  Spec => [](TypeInv /\ StackInv)
<1>1. Init => TypeInv /\ StackInv
  BY InitType, InitStack
<1>2. TypeInv /\ StackInv /\ [Next]_vars => TypeInv' /\ StackInv'
  BY TypeInvInductive, StackInvInductive
<1>3. QED
  BY <1>1, <1>2, PTL DEF Spec

(* "There has to be at least one path like this." (call_stack.rs:484): in  *)
(* a program without tail recursion handle_branch_entrances never panics.  *)
THEOREM BranchAlwaysFound ==
  ASSUME NoTailRecursion
  PROVE  Spec => []NoPanic
<1>1. StackInv => NoPanic
  BY DEF StackInv
<1>2. QED
  BY <1>1, StackInvariant, PTL

(* A call or a return that is pending has left its statement.              *)
LEMMA ActionLeavesStatement ==
  ASSUME TypeInv, StackInv
  PROVE  ActionMeansNewStatement
<1>1. SUFFICES ASSUME phase = "post", action_on_new_statement.kind # "none", mapped
               PROVE  pc # current_statement_idx
  BY DEF ActionMeansNewStatement
<1>2. CASE action_on_new_statement.kind = "push"
  <2>1. PushPending
    BY <1>1, <1>2 DEF StackInv, PhaseInv
  <2>2. rets \in Seq(Activation) /\ rets # << >>
    BY <2>1 DEF PushPending, TypeInv, TypeOK, VmTypeOK
  <2>3. rets[Len(rets)] \in Activation
    BY <2>2, LastElement
  <2>4. QED
    BY <2>1, <2>3, RecursionAssumption DEF PushPending, LastCall, Activation
<1>3. CASE action_on_new_statement.kind = "pop"
  BY <1>1, <1>3 DEF StackInv, PhaseInv, PopPending, HaltedOutside
<1>4. QED
  BY <1>1, <1>2, <1>3 DEF TypeInv, TypeOK

(* "We can be sure that the next `statement_idx` is different"             *)
(* (call_stack.rs:95): in a program without tail recursion it is.          *)
THEOREM ActionsReachNewStatements ==
  ASSUME NoTailRecursion
  PROVE  Spec => []ActionMeansNewStatement
  BY ActionLeavesStatement, StackInvariant, PTL

----------------------------------------------------------------------------
(* The frames. *)

LEMMA SubSeqOfConcat ==
  ASSUME NEW S, NEW p \in Seq(S), NEW q \in Seq(S)
  PROVE  /\ \A a, b \in Nat : a >= 1 /\ b <= Len(p) => SubSeq(p \o q, a, b) = SubSeq(p, a, b)
         /\ SubSeq(p \o q, Len(p) + 1, Len(p \o q)) = q
  OBVIOUS

LEMMA SubSeqOfPrefix ==
  ASSUME NEW S, NEW p \in Seq(S), NEW n \in Nat, n <= Len(p),
         NEW a \in Nat, NEW b \in Nat, a >= 1, b <= n
  PROVE  SubSeq(SubSeq(p, 1, n), a, b) = SubSeq(p, a, b)
  OBVIOUS

LEMMA InitFrames == Init => FramesMatch
  BY DEF Init, FramesMatch

(* Substacks that stay, of activations that stay suspended.                *)
LEMMA FramesKept ==
  ASSUME FramesMatch, UNCHANGED <<frames, contexts>>,
         \A i \in DOMAIN contexts : i \in DOMAIN rets' => i \in DOMAIN rets /\ rets'[i] = rets[i]
  PROVE  FramesMatch'
<1>1. SUFFICES ASSUME NEW i \in DOMAIN contexts, i \in DOMAIN rets'
               PROVE  SubSeq(frames, SubStackStart(i), SubStackEnd(i))' = Shown(i)'
  BY DEF FramesMatch
<1>2. i \in DOMAIN rets /\ rets'[i] = rets[i]
  BY <1>1
<1>3. SubStackStart(i)' = SubStackStart(i) /\ SubStackEnd(i)' = SubStackEnd(i)
  BY DEF SubStackStart, SubStackEnd
<1>4. Shown(i)' = Shown(i)
  BY <1>2 DEF Shown
<1>5. QED
  BY <1>1, <1>2, <1>3, <1>4 DEF FramesMatch

LEMMA SubStackRange ==
  ASSUME TypeInv, NEW i \in DOMAIN contexts
  PROVE  /\ SubStackStart(i) \in Nat /\ SubStackStart(i) >= 1
         /\ SubStackEnd(i) \in Nat /\ SubStackEnd(i) <= Len(frames)
<1>1. contexts \in Seq(ContextEntry) /\ frames \in Seq(FrameType)
  BY DEF TypeInv, TypeOK
<1>2. \A j \in DOMAIN contexts : contexts[j].base \in Nat
  <2>1. \A j \in DOMAIN contexts : contexts[j] \in ContextEntry
    BY <1>1
  <2>2. QED
    BY <2>1 DEF ContextEntry
<1>3. i # Len(contexts) => i + 1 \in DOMAIN contexts
  BY <1>1
<1>4. QED
  BY <1>1, <1>2, <1>3 DEF SubStackStart, SubStackEnd, TypeInv, BasesOrdered

LEMMA ApplyPushFrames ==
  ASSUME TypeInv, StackInv, FramesMatch, update_post_step, ApplyPush
  PROVE  FramesMatch'
<1>0. PICK n \in Nat : n = Len(contexts)
  BY DEF TypeInv, TypeOK
<1> DEFINE new == action_on_new_statement.substack
           pushed == [base |-> flat_length, context |-> current_context]
<1>1. PushPending /\ rets' = rets
  BY DEF StackInv, PhaseInv, update_post_step, ApplyPush, vmVars
<1>2. contexts \in Seq(ContextEntry) /\ frames \in Seq(FrameType) /\ new \in Seq(FrameType)
  BY DEF TypeInv, TypeOK
<1>3. /\ DOMAIN contexts' = DOMAIN contexts \union {n + 1}
      /\ DOMAIN contexts = 1..n
      /\ Len(contexts') = n + 1
      /\ \A i \in DOMAIN contexts : contexts'[i] = contexts[i]
      /\ contexts'[n + 1] = pushed
  <2>1. pushed \in ContextEntry
    BY DEF TypeInv, TypeOK, flat_length, ContextEntry
  <2>2. contexts' = Append(contexts, pushed)
    BY DEF ApplyPush
  <2> HIDE DEF pushed
  <2>3. QED
    BY <1>0, <1>2, <2>1, <2>2, Extension
<1>4. frames' = frames \o new
  BY DEF ApplyPush
<1>5. pushed.base = Len(frames) /\ Len(frames) \in Nat
  BY <1>2 DEF flat_length
<1> HIDE DEF pushed, new
<1>6. ASSUME NEW i \in DOMAIN contexts, i \in DOMAIN rets
      PROVE  SubSeq(frames, SubStackStart(i), SubStackEnd(i))' = Shown(i)'
  <2>1. SubStackStart(i)' = SubStackStart(i) /\ Shown(i)' = Shown(i)
    BY <1>1, <1>3 DEF SubStackStart, Shown
  <2>2. SubStackEnd(i)' = SubStackEnd(i)
    <3>1. CASE i = n
      BY <1>0, <1>3, <1>5, <3>1 DEF SubStackEnd
    <3>2. CASE i # n
      <4>1. i + 1 \in DOMAIN contexts
        BY <1>3, <3>2
      <4>2. QED
        BY <1>0, <1>3, <3>2, <4>1 DEF SubStackEnd
    <3>3. QED
      BY <3>1, <3>2
  <2>3. SubSeq(frames', SubStackStart(i), SubStackEnd(i))
          = SubSeq(frames, SubStackStart(i), SubStackEnd(i))
    <3>1. /\ SubStackStart(i) \in Nat /\ SubStackStart(i) >= 1
          /\ SubStackEnd(i) \in Nat /\ SubStackEnd(i) <= Len(frames)
      BY SubStackRange
    <3>2. \A a, b \in Nat : a >= 1 /\ b <= Len(frames) =>
            SubSeq(frames \o new, a, b) = SubSeq(frames, a, b)
      BY <1>2, SubSeqOfConcat
    <3>3. QED
      BY <1>4, <3>1, <3>2
  <2>4. QED
    BY <1>6, <2>1, <2>2, <2>3 DEF FramesMatch
<1>7. SubSeq(frames, SubStackStart(n + 1), SubStackEnd(n + 1))' = Shown(n + 1)'
  <2>1. SubStackStart(n + 1)' = Len(frames) + 1
    BY <1>3, <1>5 DEF SubStackStart
  <2>2. SubStackEnd(n + 1)' = Len(frames')
    BY <1>3 DEF SubStackEnd
  <2>3. SubSeq(frames', Len(frames) + 1, Len(frames')) = new
    BY <1>2, <1>4, SubSeqOfConcat
  <2>4. new = CallSubStack(rets[n + 1].arg) /\ rets[n + 1].call = current_statement_idx
    BY <1>0, <1>1 DEF PushPending, LastCall, new
  <2>5. Shown(n + 1)' = CallSubStack(rets[n + 1].arg)
    <3>1. contexts'[n + 1].context = current_context
      BY <1>3 DEF pushed
    <3>2. QED
      BY <1>1, <1>3, <1>5, <2>4, <3>1 DEF Shown, CallSubStack, next_frame_id, flat_length
  <2>6. QED
    BY <2>1, <2>2, <2>3, <2>4, <2>5
<1>8. QED
  BY <1>1, <1>3, <1>6, <1>7 DEF FramesMatch

LEMMA ApplyPopFrames ==
  ASSUME TypeInv, FramesMatch, update_post_step, ApplyPop
  PROVE  FramesMatch'
<1> DEFINE n == Len(contexts)
           top == contexts[n]
<1>1. contexts # << >> /\ contexts \in Seq(ContextEntry) /\ frames \in Seq(FrameType)
  BY DEF ApplyPop, TypeInv, TypeOK
<1>2. rets' = rets
  BY DEF update_post_step, vmVars
<1>3. n \in Nat /\ n - 1 \in Nat /\ n - 1 <= n /\ DOMAIN contexts = 1..n /\ n \in DOMAIN contexts
  BY <1>1
<1>4. contexts' \in Seq(ContextEntry) /\ Len(contexts') = n - 1
  BY <1>1, <1>3, Prefix DEF ApplyPop
<1>5. /\ \A i \in 1..(n - 1) : contexts'[i] = contexts[i]
      /\ DOMAIN contexts' = 1..(n - 1)
  BY <1>1, <1>3, <1>4, Prefix DEF ApplyPop
<1>6. top.base \in Nat /\ top.base <= Len(frames)
  <2>1. top \in ContextEntry
    BY <1>1, LastElement
  <2>2. QED
    BY <1>3, <2>1 DEF ContextEntry, TypeInv, BasesOrdered
<1>7. frames' = SubSeq(frames, 1, top.base) /\ Len(frames') = top.base
  BY <1>1, <1>6, Prefix DEF ApplyPop
<1> HIDE DEF top
<1>8. ASSUME NEW i \in DOMAIN contexts', i \in DOMAIN rets
      PROVE  SubSeq(frames, SubStackStart(i), SubStackEnd(i))' = Shown(i)'
  <2>1. i \in DOMAIN contexts /\ i + 1 \in 1..n /\ i # n /\ contexts'[i] = contexts[i]
    BY <1>3, <1>5
  <2>2. SubStackStart(i)' = SubStackStart(i) /\ Shown(i)' = Shown(i)
    BY <1>2, <2>1 DEF SubStackStart, Shown
  <2>3. SubStackEnd(i) = contexts[i + 1].base
    BY <2>1 DEF SubStackEnd
  <2>4. SubStackEnd(i)' = SubStackEnd(i)
    <3>1. CASE i = n - 1
      <4>1. contexts[i + 1] = top
        BY <1>3, <3>1 DEF top
      <4>2. QED
        BY <1>4, <1>7, <2>3, <3>1, <4>1 DEF SubStackEnd
    <3>2. CASE i # n - 1
      <4>1. i + 1 \in 1..(n - 1)
        BY <1>3, <2>1, <3>2
      <4>2. QED
        BY <1>4, <1>5, <2>3, <3>2, <4>1 DEF SubStackEnd
    <3>3. QED
      BY <3>1, <3>2
  <2>5. SubStackEnd(i) <= top.base
    BY <1>3, <2>1, <2>3 DEF TypeInv, BasesOrdered, top
  <2>6. SubSeq(frames', SubStackStart(i), SubStackEnd(i))
          = SubSeq(frames, SubStackStart(i), SubStackEnd(i))
    BY <1>1, <1>6, <1>7, <2>1, <2>5, SubStackRange, SubSeqOfPrefix
  <2>7. QED
    BY <1>8, <2>1, <2>2, <2>4, <2>6 DEF FramesMatch
<1>9. QED
  BY <1>2, <1>8 DEF FramesMatch

LEMMA FramesMatchInductive ==
  ASSUME TypeInv, StackInv, FramesMatch, [Next]_vars
  PROVE  FramesMatch'
<1>1. CASE ExecuteInstruction
  <2>1. UNCHANGED <<frames, contexts>> /\ SameDepth
    BY <1>1, DebuggerUnchanged DEF StackInv, PhaseInv, ExecuteInstruction
  <2>2. rets \in Seq(Activation) /\ contexts \in Seq(ContextEntry)
    BY DEF TypeInv, TypeOK, VmTypeOK
  <2>3. \A i \in DOMAIN contexts : i \in DOMAIN rets
    BY <2>1, <2>2 DEF SameDepth
  <2>4. CASE rets' = rets
    BY <2>1, <2>3, <2>4, FramesKept
  <2>5. CASE VmCall
    <3> DEFINE suspended == [call |-> pc, arg |-> arg, executed |-> executed]
    <3>1. suspended \in Activation
      BY StatementNumbers DEF TypeInv, TypeOK, VmTypeOK, Activation
    <3>2. rets' = Append(rets, suspended)
      BY <2>5 DEF VmCall
    <3> HIDE DEF suspended
    <3>3. \A i \in DOMAIN rets : rets'[i] = rets[i]
      BY <2>2, <3>1, <3>2, Extension
    <3>4. QED
      BY <2>1, <2>3, <3>3, FramesKept
  <2>6. CASE VmReturn
    <3>1. rets # << >> /\ Len(rets) - 1 \in Nat /\ Len(rets) - 1 <= Len(rets)
      BY <2>2, <2>6 DEF VmReturn
    <3>2. rets' \in Seq(Activation) /\ Len(rets') = Len(rets) - 1
      BY <2>2, <2>6, <3>1, Prefix DEF VmReturn
    <3>3. \A i \in 1..(Len(rets) - 1) : rets'[i] = rets[i]
      BY <2>2, <2>6, <3>1, Prefix DEF VmReturn
    <3>4. DOMAIN rets' = 1..(Len(rets) - 1)
      BY <3>2
    <3>5. \A i \in DOMAIN contexts : i \in DOMAIN rets' => i \in DOMAIN rets /\ rets'[i] = rets[i]
      BY <2>3, <3>3, <3>4
    <3>6. QED
      BY <2>1, <3>5, FramesKept
  <2>7. QED
    BY <1>1, <2>4, <2>5, <2>6
    DEF ExecuteInstruction, VmInstruction, VmStay, VmOutside, VmBranch, VmHalt
<1>2. CASE update_post_step
  <2>1. CASE NothingToApply \/ PopNothing
    <3>1. UNCHANGED <<frames, contexts, rets>>
      BY <1>2, <2>1 DEF update_post_step, NothingToApply, PopNothing, stackVars, vmVars
    <3>2. QED
      BY <3>1, FramesKept
  <2>2. QED
    BY <1>2, <2>1, ApplyPushFrames, ApplyPopFrames DEF update_post_step
<1>3. CASE EnterStatement
  <2>1. UNCHANGED <<frames, contexts, rets>>
    BY <1>3 DEF EnterStatement, update_pre_step, stackVars, vmVars
  <2>2. QED
    BY <2>1, FramesKept
<1>4. ASSUME \/ \E ref \in References : get_variables(ref)
             \/ SkipInstruction \/ FinishPreStep \/ VmError \/ VmEnd \/ HookError
             \/ UNCHANGED vars
      PROVE  FramesMatch'
  <2>1. UNCHANGED <<frames, contexts, rets>>
    BY <1>4 DEF get_variables, SkipInstruction, FinishPreStep, VmError, VmEnd, HookError, vars,
                debuggerVars, stackVars, vmVars
  <2>2. QED
    BY <2>1, FramesKept
<1>5. QED
  BY <1>1, <1>2, <1>3, <1>4 DEF Next

(* At each point of the VM loop the debugger's stack, statement and        *)
(* pending action are in step with the VM (IInv says how), in a program    *)
(* without tail recursion.                                                 *)
THEOREM DebuggerFollowsVm ==
  ASSUME NoTailRecursion
  PROVE  Spec => []IInv
<1>1. Init => IInv
  BY InitType, InitStack, InitFrames DEF IInv
<1>2. IInv /\ [Next]_vars => IInv'
  BY TypeInvInductive, StackInvInductive, FramesMatchInductive DEF IInv
<1>3. QED
  BY <1>1, <1>2, PTL DEF Spec

(* The shadow stack has the frames and the variables of exactly the        *)
(* activations the VM has suspended, in a program without tail recursion.  *)
THEOREM StackMirrors ==
  ASSUME NoTailRecursion
  PROVE  Spec => []StackMirrorsVm
<1>1. IInv => StackMirrorsVm
  <2>1. SUFFICES ASSUME IInv, phase \in {"pre", "handle", "exec"}
                 PROVE  /\ Len(contexts) = Len(rets)
                        /\ \A i \in 1..Len(contexts) :
                             /\ contexts[i].context.last_executed_statement = rets[i].call
                             /\ SubSeq(frames, SubStackStart(i), SubStackEnd(i)) = Shown(i)
    BY DEF StackMirrorsVm, CallerVariables, Shown
  <2>2. Len(contexts) = Len(rets)
    BY <2>1 DEF IInv, StackInv, PhaseInv, SameDepth
  <2>3. \A i \in 1..Len(contexts) : i \in DOMAIN contexts /\ i \in DOMAIN rets
    BY <2>1, <2>2 DEF IInv, TypeInv, TypeOK, VmTypeOK
  <2>4. QED
    BY <2>1, <2>2, <2>3 DEF IInv, StackInv, ContextsMatch, FramesMatch
<1>2. QED
  BY <1>1, DebuggerFollowsVm, PTL
=============================================================================
