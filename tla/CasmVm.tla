------------------------------- MODULE CasmVm -------------------------------
(***************************************************************************)
(* The Cairo VM the debugger is hooked into (external: cairo-vm), as the   *)
(* hooks of src/debugger/vm.rs see it.  The VM executes CASM; its state is *)
(* given by the Sierra statement the pc maps to.  A statement takes one or *)
(* more instructions, during which the pc may leave the program area (the  *)
(* header, constant segments, segments not relocated yet); calls and       *)
(* returns take exactly one.                                               *)
(*                                                                         *)
(* `executed' and the `executed' of `rets' are ghosts: what the program    *)
(* has really executed, one entry per Sierra statement and branch taken,   *)
(* the statements without CASM included.  The debugger never reads them.   *)
(***************************************************************************)
EXTENDS SierraProgram

CONSTANTS
  Args,     \* the values of the parameters of a function activation
  MaxDepth  \* bound: how many calls may be active at once

ASSUME ArgsAssumption == Args # {}

ASSUME MaxDepthAssumption == MaxDepth \in Nat

VARIABLES
  pc,        \* the statement being executed, or to be resumed
  mapped,    \* pc maps to that statement: it is in the program area
  halted,    \* the main function has returned
  arg,       \* the parameters of the current activation, found through fp
  rets,      \* the suspended activations, the oldest first
  executed   \* what the current activation has executed

vmVars == <<pc, mapped, halted, arg, rets, executed>>

Activation == [call : Statement, arg : Args,
               executed : SUBSET [stmt : Statement, target : Statement]]

VmTypeOK ==
  /\ pc \in Casm
  /\ mapped \in BOOLEAN
  /\ halted \in BOOLEAN
  /\ arg \in Args
  /\ rets \in Seq(Activation)
  /\ executed \in SUBSET [stmt : Statement, target : Statement]

(* The statement whose CASM comes first at or after b.                     *)
NextCasm(b) == CHOOSE t \in Casm : LeadsTo(b, t)

VmInit ==
  /\ pc = NextCasm(Main)
  /\ mapped \in BOOLEAN
  /\ halted = FALSE
  /\ arg \in Args
  /\ rets = << >>
  /\ executed = FallThrough(Main, pc)

(* An instruction that is not the last one of its statement: the pc stays  *)
(* in the statement or leaves the program area.                            *)
VmStay ==
  /\ mapped
  /\ ~ is_function_call_statement(pc) /\ ~ is_return_statement(pc)
  /\ mapped' \in BOOLEAN
  /\ UNCHANGED <<pc, halted, arg, rets, executed>>

(* An instruction outside of the program area: the next one is outside, or *)
(* control comes back to the statement that left it.                       *)
VmOutside ==
  /\ ~ mapped
  /\ mapped' \in BOOLEAN
  /\ halted => ~ mapped'
  /\ UNCHANGED <<pc, halted, arg, rets, executed>>

VmBranch ==
  /\ mapped
  /\ ~ is_function_call_statement(pc)
  /\ \E b \in BranchTargets(pc) :
       /\ pc' = NextCasm(b)
       /\ executed' = executed \union {[stmt |-> pc, target |-> b]}
                               \union FallThrough(b, pc')
  /\ UNCHANGED <<mapped, halted, arg, rets>>

VmCall ==
  /\ mapped
  /\ is_function_call_statement(pc)
  /\ Len(rets) < MaxDepth
  /\ rets' = Append(rets, [call |-> pc, arg |-> arg, executed |-> executed])
  /\ pc' = NextCasm(Callee[pc])
  /\ arg' \in Args
  /\ executed' = FallThrough(Callee[pc], pc')
  /\ UNCHANGED <<mapped, halted>>

VmReturn ==
  /\ mapped
  /\ is_return_statement(pc)
  /\ rets # << >>
  /\ LET caller == rets[Len(rets)]
     IN  /\ pc' = NextCasm(caller.call + 1)
         /\ arg' = caller.arg
         /\ executed' = caller.executed
                          \union {[stmt |-> caller.call, target |-> caller.call + 1]}
                          \union FallThrough(caller.call + 1, pc')
  /\ rets' = SubSeq(rets, 1, Len(rets) - 1)
  /\ UNCHANGED <<mapped, halted>>

(* The main function returns, into code that is not the program's.         *)
VmHalt ==
  /\ mapped
  /\ is_return_statement(pc)
  /\ rets = << >>
  /\ mapped' = FALSE
  /\ halted' = TRUE
  /\ UNCHANGED <<pc, arg, rets, executed>>

VmInstruction ==
  VmStay \/ VmOutside \/ VmBranch \/ VmCall \/ VmReturn \/ VmHalt
=============================================================================
