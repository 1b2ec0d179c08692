--------------------------- MODULE SierraProgram ---------------------------
(***************************************************************************)
(* The immutable data of a debugging session: a Sierra program, what it    *)
(* compiles to and the annotations found beside it, together with the      *)
(* look-ups of src/debugger/context.rs that the rest of the debugger asks  *)
(* of it.  Sierra statements are numbered from 0 as in the program.        *)
(***************************************************************************)
EXTENDS Integers, Sequences, FiniteSets

CONSTANTS
  NStatements,  \* how many statements the Sierra program has
  Kind,         \* of a statement: "invocation", "call" (of a user function) or "return"
  Branches,     \* of a statement: the sequence of its branch targets
  Casm,         \* the statements that compile to at least one CASM instruction
  EntryPoints,  \* the first statements of the Sierra functions
  Main,         \* the entry point the runner starts
  Callee,       \* of a "call": the entry point it calls
  Locations,    \* of a statement: its code locations, the most nested first;
                \* << >> when nothing is known of it
  FunctionNames,  \* of a statement: the names of its functions, the least nested first;
                  \* << >> when nothing is known of them
  Produces      \* the statements that produce a Cairo variable (cairo_var_map)

Statement == 0..(NStatements - 1)

(* StatementIdx(usize::MAX), or None where the code has an Option.         *)
NoStatement == -1

is_function_call_statement(s) == Kind[s] = "call"

is_return_statement(s) == Kind[s] = "return"

does_compile_to_casm(s) == s \in Casm

branches_for_statement(s) == Branches[s]

BranchTargets(s) == {branches_for_statement(s)[i] : i \in DOMAIN branches_for_statement(s)}

(* The function a statement belongs to: the last entry point not after it. *)
(* Functions are identified by their entry points.                         *)
sierra_function_for_statement(s) ==
  CHOOSE e \in EntryPoints : /\ e <= s
                             /\ \A f \in EntryPoints : f <= s => f <= e

code_locations_for_statement_idx(s) == Locations[s]

function_names_for_statement_idx(s) == FunctionNames[s]

HasCodeLocation(s) == s \in Statement /\ Locations[s] # << >>

code_location_for_statement_idx(s) == Locations[s][1]

(* A Line is the number of a line alone: it does not name the file.        *)
Line(s) == code_location_for_statement_idx(s).line

statement_idxs_for_breakpoint_without_filter(file, line) ==
  {s \in Statement : /\ HasCodeLocation(s)
                     /\ code_location_for_statement_idx(s).file = file
                     /\ code_location_for_statement_idx(s).line = line}

(* The statements a breakpoint on a line of a file stands for: those that  *)
(* compile to CASM and whose first location is there.                      *)
statement_idxs_for_breakpoint(file, line) ==
  {s \in Casm : /\ HasCodeLocation(s)
                /\ code_location_for_statement_idx(s).file = file
                /\ code_location_for_statement_idx(s).line = line}

(* t is reached from b by falling through statements that compile to no    *)
(* CASM: the loop of handle_branch_entrances that walks from a branch      *)
(* entrance.                                                               *)
LeadsTo(b, t) == b <= t /\ \A u \in b..(t - 1) : ~ does_compile_to_casm(u)

(* The statements fallen through from b up to, not including, t.           *)
FallThrough(b, t) == {[stmt |-> u, target |-> u + 1] : u \in b..(t - 1)}

(***************************************************************************)
(* What the Sierra compiler guarantees of its output and the code relies   *)
(* on.  A statement that compiles to no CASM only falls through            *)
(* (call_stack.rs:454, 478); calls and returns compile to one CASM         *)
(* instruction each (call_stack.rs:97); control only moves forward within  *)
(* a function, loops being recursive functions; a function ends with a     *)
(* return; functions are sorted by entry point (the partition_point of     *)
(* context.rs:293).                                                        *)
(*                                                                         *)
(* Two things are so by the way the constants are written down.  A         *)
(* statement that has locations, or names, has at least one: with an empty *)
(* list of them the code would build no frame at all and the subtraction   *)
(* of call_stack.rs:146 would fail.  And a branch to the next statement is *)
(* a fallthrough: call_stack.rs:487 takes it for one, and the unwrap of    *)
(* context.rs:223 would fail for one that names the next statement.        *)
(***************************************************************************)
ASSUME StatementAssumption ==
  /\ NStatements \in Nat \ {0}
  /\ Kind \in [Statement -> {"invocation", "call", "return"}]
  /\ Branches \in [Statement -> Seq(Statement)]
  /\ Casm \subseteq Statement
  /\ Produces \subseteq Statement
  /\ DOMAIN Locations = Statement
  /\ \A s \in Statement : Locations[s] \in Seq({Locations[s][i] : i \in DOMAIN Locations[s]})
  /\ \A s \in Statement : \A i \in DOMAIN Locations[s] : Locations[s][i].line \in Nat
  /\ DOMAIN FunctionNames = Statement
  /\ \A s \in Statement :
       FunctionNames[s] \in Seq({FunctionNames[s][i] : i \in DOMAIN FunctionNames[s]})

ASSUME FlowAssumption ==
  \A s \in Statement :
    /\ is_return_statement(s) <=> Branches[s] = << >>
    /\ \A t \in BranchTargets(s) : t > s
    /\ ~ does_compile_to_casm(s) => Kind[s] = "invocation" /\ Branches[s] = <<s + 1>>
    /\ is_function_call_statement(s) => Branches[s] = <<s + 1>>

ASSUME FunctionAssumption ==
  /\ EntryPoints \subseteq Statement
  /\ 0 \in EntryPoints
  /\ Main \in EntryPoints
  /\ is_return_statement(NStatements - 1)
  /\ \A e \in EntryPoints \ {0} : is_return_statement(e - 1)
  /\ \A s \in Statement : \A t \in BranchTargets(s) :
       ~ \E e \in EntryPoints : s < e /\ e <= t
  /\ \A s \in Statement : is_function_call_statement(s) => Callee[s] \in EntryPoints

(* Every cycle of calls checks gas (or the builtins do), so a function     *)
(* never starts, in CASM, with the very call that entered it.              *)
ASSUME RecursionAssumption ==
  \A s \in Statement :
    is_function_call_statement(s) => ~ LeadsTo(Callee[s], s)

(***************************************************************************)
(* Two conditions on programs that the debugger relies on and that the     *)
(* compiler does not promise; theorems that need one of them say so.       *)
(***************************************************************************)

(* After a recursive call returns, the caller does not return right away:  *)
(* some CASM lies between.  call_stack.rs:95-97 reasons as if this held.   *)
NoTailRecursion ==
  \A c, r \in Statement :
    /\ is_function_call_statement(c)
    /\ is_return_statement(r)
    /\ LeadsTo(c + 1, r)
    => Callee[c] # sierra_function_for_statement(r)

(* No two branches of a statement lead, through statements without CASM,   *)
(* to the same statement ("We never encountered a case where there is more *)
(* than one such path", call_stack.rs:472).                                *)
UnambiguousBranches ==
  \A s, t \in Statement : \A a, b \in BranchTargets(s) :
    LeadsTo(a, t) /\ LeadsTo(b, t) => a = b
=============================================================================
