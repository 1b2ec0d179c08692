--------------------------- MODULE CairoVariables ---------------------------
(***************************************************************************)
(* Which variables of a Cairo function are shown, and with which of the    *)
(* values they had.  The debugger knows the Sierra statements the function *)
(* has executed and the Sierra variables they produced; debug info maps a  *)
(* Sierra variable to the name of a Cairo variable and to the place where  *)
(* it is defined (src/debugger/context/variables.rs).  Out of all that     *)
(* bear a name, get_values_of_variables, in                                *)
(* src/debugger/state/call_stack/variables.rs, picks one.                  *)
(*                                                                         *)
(* The module follows one activation of a function that is stopped at any  *)
(* statement that compiles to CASM.  The variables produced by one statement are a HashMap: they *)
(* are considered in any order.  A value is given by where it was produced *)
(* (Values has how it is read); it may be unreadable for a while, and is   *)
(* never again once it was read: memory is written once.                   *)
(***************************************************************************)
EXTENDS Integers, Sequences

CONSTANTS
  Statement,     \* of a function
  Entry,         \* its first statement
  Casm,          \* the statements that compile to CASM
  Results,       \* what a branch may result in: a Sierra variable of a type
  Branches,      \* of a statement: the target and the results of each
  CairoVariable, \* sierra_to_cairo_variable: from ids to a name and its definition_span
  Params,        \* of the function, in order
  DebugInfo,     \* what debug info may say of parameters: nothing, before Scarb 2.20.0
  InScope        \* of a statement: from the names that can be used there to where they are defined

(* A definition span is given by its start: a name is defined once there.  *)
ASSUME ResultAssumption ==
  /\ Results \subseteq [id : Nat, cells : Nat, panic_result : BOOLEAN]
  /\ \A id \in DOMAIN CairoVariable : CairoVariable[id].start \in Nat

ASSUME BranchAssumption ==
  /\ Entry \in Statement
  /\ Casm \subseteq Statement
  /\ Branches \in [Statement -> Seq([target : Statement, results : Seq(Results)])]
  /\ Params \in Seq(Results)

(* No two branches of a statement have one target.  What a branch produces *)
(* is kept by target, the last one counting, while its types are those of  *)
(* the first branch to the target (context.rs:223): were there two, a      *)
(* value could be read as of the type of another, or the unwrap of         *)
(* context.rs:251 fail.                                                    *)
ASSUME TargetAssumption ==
  \A s \in Statement : \A a, b \in DOMAIN Branches[s] :
    Branches[s][a].target = Branches[s][b].target => a = b

VARIABLES
  at,           \* the statement the function is at
  entrance,     \* it is the entrance of a branch of a statement with CASM
  trace,        \* post_statements_registers: statements and the targets they branched to
  unreadable,   \* positions in the trace (0: parameters) and results produced there
  parameters,   \* debug info of the parameters
  phase,        \* "stopped", "reading" or "shown"
  position,     \* reading: the entry of the trace being read
  todo,         \* reading: what that entry produced and is not considered yet
  current,      \* current_var_values: from names to what they stand for
  shown         \* what the client was shown last

vars == <<at, entrance, trace, unreadable, parameters, phase, position, todo, current, shown>>

Nothing == [n \in {} |-> 0]

----------------------------------------------------------------------------
(* context/variables.rs *)

(* Two results are the same Cairo variable, a CairoVarId. *)
SameVariable(r, s) ==
  /\ CairoVariable[r.id].name = CairoVariable[s.id].name
  /\ CairoVariable[r.id].start = CairoVariable[s.id].start

IsCairo(r) == r.id \in DOMAIN CairoVariable

extract_cairo_var_map_keeping_all(results) ==
  {results[i] : i \in {k \in DOMAIN results : IsCairo(results[k])}}

(* extract_cairo_var_map: of two that are the same Cairo variable the last *)
(* one is kept; one that is no Cairo variable is left out.                 *)
extract_cairo_var_map(results) ==
  {results[i] : i \in {k \in DOMAIN results :
     /\ IsCairo(results[k])
     /\ \A j \in DOMAIN results :
          j > k /\ IsCairo(results[j]) => ~ SameVariable(results[k], results[j])}}

(* What is produced on the way to a target. *)
produced(s, target) ==
  UNION {extract_cairo_var_map(Branches[s][b].results) :
    b \in {k \in DOMAIN Branches[s] : Branches[s][k].target = target}}

(* A result under the name of a Cairo variable, at a position. *)
Shown(variable, r, i) ==
  [name |-> variable.name, start |-> variable.start, cells |-> r.cells, id |-> r.id, position |-> i]

(* build_function_to_param_vars_map.  Without debug info of the parameters *)
(* their names are those of the Sierra variables.                          *)
function_param_vars ==
  IF parameters.known
  THEN {Shown(parameters.definitions[Params[i].id], Params[i], 0) :
          i \in {k \in DOMAIN Params : Params[k].id \in DOMAIN parameters.definitions}}
  ELSE {Shown(CairoVariable[r.id], r, 0) : r \in extract_cairo_var_map(Params)}

ParamUnreadable == {<<0, Params[i].id>> : i \in DOMAIN Params}
ProducedAt(i) == produced(trace[i].stmt, trace[i].target)

----------------------------------------------------------------------------
(* get_values_of_variables *)

Candidate(r, i) == Shown(CairoVariable[r.id], r, i)

(* There is a value to show. *)
Eligible(r, i) ==
  /\ ~ r.panic_result
  /\ r.cells > 0
  /\ <<i, r.id>> \notin unreadable

Ignored_whatever_its_cells(c) ==
  c.name \in DOMAIN current /\ c.start < current[c.name].start

(* The candidate gives way to what its name stands for already: it is      *)
(* defined earlier in the code, or is the same variable in fewer cells.    *)
Ignored(c) ==
  /\ c.name \in DOMAIN current
  /\ \/ c.start < current[c.name].start
     \/ c.start = current[c.name].start /\ c.cells < current[c.name].cells

Insert(c) ==
  current' = [n \in DOMAIN current \union {c.name} |-> IF n = c.name THEN c ELSE current[n]]

(* handle_branch_entrances.  A statement without CASM that is the entrance *)
(* of a branch gets no entry: those that follow it do, and those the       *)
(* function starts with.                                                   *)
IsRecorded == at \in Casm \/ ~ entrance

(* A stopped function goes on to its next statement.  What could not be    *)
(* read may have become readable.  The debugger makes the entries of       *)
(* statements without CASM when it reaches the next one with CASM.         *)
Execute ==
  /\ phase \in {"stopped", "shown"}
  /\ \E b \in DOMAIN Branches[at] :
       LET target == Branches[at][b].target
       IN  /\ at' = target
           /\ IF IsRecorded
              THEN /\ trace' = Append(trace, [stmt |-> at, target |-> target])
                   /\ unreadable' \in SUBSET (unreadable \union
                        {<<Len(trace) + 1, r.id>> :
                           r \in {s \in produced(at, target) : s.cells > 0}})
              ELSE UNCHANGED trace /\ unreadable' \in SUBSET unreadable
  /\ entrance' = (at \in Casm)
  /\ phase' = "stopped"
  /\ UNCHANGED <<parameters, position, todo, current, shown>>

StartReading_without_reset ==
  /\ phase = "stopped"
  /\ at \in Casm
  /\ phase' = "reading"
  /\ position' = 0
  /\ todo' = {}
  /\ UNCHANGED <<at, entrance, trace, unreadable, parameters, current, shown>>

(* Variables are asked for: they are read again from the whole trace.      *)
StartReading ==
  /\ phase = "stopped"
  /\ at \in Casm
  /\ phase' = "reading"
  /\ position' = 0
  /\ todo' = {}
  /\ current' = Nothing
  /\ UNCHANGED <<at, entrance, trace, unreadable, parameters, shown>>

NextEntry ==
  /\ phase = "reading"
  /\ todo = {}
  /\ position < Len(trace)
  /\ position' = position + 1
  /\ todo' = ProducedAt(position + 1)
  /\ UNCHANGED <<at, entrance, trace, unreadable, parameters, phase, current, shown>>

Consider(r) ==
  /\ phase = "reading"
  /\ r \in todo
  /\ todo' = todo \ {r}
  /\ LET c == Candidate(r, position)
     IN  IF Eligible(r, position) /\ ~ Ignored(c) THEN Insert(c) ELSE UNCHANGED current
  /\ UNCHANGED <<at, entrance, trace, unreadable, parameters, phase, position, shown>>

(* get_values_of_function_params: of parameters with one name, in a        *)
(* HashMap too, any may be kept.                                           *)
ReadableParams == {p \in function_param_vars : <<0, p.id>> \notin unreadable}
ParamValues ==
  {values \in [{p.name : p \in ReadableParams} -> ReadableParams] :
     \A n \in DOMAIN values : values[n].name = n}

(* get_current_function_variables: local variables override parameters.    *)
Extend(params, locals) ==
  [n \in DOMAIN params \union DOMAIN locals |->
     IF n \in DOMAIN locals THEN locals[n] ELSE params[n]]

FinishReading ==
  /\ phase = "reading"
  /\ todo = {}
  /\ position = Len(trace)
  /\ phase' = "shown"
  /\ \E values \in ParamValues : shown' = Extend(values, current)
  /\ UNCHANGED <<at, entrance, trace, unreadable, parameters, position, todo, current>>

----------------------------------------------------------------------------
Init ==
  /\ at = Entry
  /\ entrance = FALSE
  /\ trace = << >>
  /\ unreadable \in SUBSET ParamUnreadable
  /\ parameters \in DebugInfo
  /\ phase = "stopped"
  /\ position = 0
  /\ todo = {}
  /\ current = Nothing
  /\ shown = Nothing

Next ==
  \/ Execute
  \/ StartReading
  \/ NextEntry
  \/ \E r \in todo : Consider(r)
  \/ FinishReading

Spec == Init /\ [][Next]_vars

----------------------------------------------------------------------------
(* Properties *)

(* The variables have their types; no entry is read that is not there. *)
TypeOK ==
  /\ at \in Statement
  /\ entrance \in BOOLEAN
  /\ trace \in Seq([stmt : Statement, target : Statement])
  /\ phase \in {"stopped", "reading", "shown"}
  /\ position \in 0..Len(trace)
  /\ todo \subseteq Results

(* All that the activation has produced and could be shown. *)
Candidates ==
  UNION {{Candidate(r, i) : r \in {s \in ProducedAt(i) : Eligible(s, i)}} : i \in 1..Len(trace)}

(* Of two candidates with one name: the one defined later in the code, the *)
(* more complete one, the newer one.                                       *)
Outranks(c, d) ==
  \/ c.start > d.start
  \/ c.start = d.start /\ c.cells > d.cells
  \/ c.start = d.start /\ c.cells = d.cells /\ c.position > d.position

(* Under every name in values is what outranks all others of that name. *)
Keeps(values, candidates) ==
  \A c \in candidates :
    /\ c.name \in DOMAIN values
    /\ c = values[c.name] \/ Outranks(values[c.name], c)

AreOf(values, candidates) ==
  \A n \in DOMAIN values : values[n].name = n /\ values[n] \in candidates

(* What is shown does not depend on the order in which the HashMaps are    *)
(* iterated: under the name of any local variable that can be read there   *)
(* is the one candidate that outranks all others of that name, a parameter *)
(* is shown where no local variable has its name, and nothing else is      *)
(* (variables.rs:56-112, call_stack.rs:207).                               *)
LastDefinedIsShown ==
  phase = "shown" =>
    /\ Keeps(shown, Candidates)
    /\ AreOf(shown, Candidates \union ReadableParams)
    /\ \A p \in ReadableParams : p.name \in DOMAIN shown

(* While the trace is read, current is right for the part of it that has   *)
(* been considered, nothing is left of an earlier reading, and what the    *)
(* client was shown can still be read.                                     *)
Considered ==
  UNION {{Candidate(r, i) : r \in {s \in ProducedAt(i) :
                                     Eligible(s, i) /\ (i = position => s \notin todo)}} :
           i \in 1..position}

VariablesInv ==
  /\ TypeOK
  /\ LastDefinedIsShown
  /\ AreOf(shown, Candidates \union ReadableParams)
  /\ phase = "reading" =>
       /\ Keeps(current, Considered)
       /\ AreOf(current, Considered)
       /\ todo \subseteq IF position = 0 THEN {} ELSE ProducedAt(position)

(* From one stop to the next, in one activation, no name disappears, and   *)
(* none falls back to an earlier definition, to a part of what it stood    *)
(* for, or to an older value, although everything is read again each time  *)
(* (variables.rs:93-109).                                                  *)
Forward(c, d) == d.position = 0 \/ c = d \/ Outranks(c, d)

NamesMoveForward ==
  [][\A n \in DOMAIN shown : n \in DOMAIN shown' /\ Forward(shown'[n], shown[n])]_vars

(* The guide (src/website/docs/guide.md:52) says that the panel "shows     *)
(* current values of local variables of the current function frame": what  *)
(* is shown under a name is the variable the name denotes at the           *)
(* statement.  Refuted: a variable of a block that is over, defined later  *)
(* in the code, hides the one that is in scope (variables.rs:96).          *)
CurrentVariableIsShown ==
  phase = "shown" =>
    \A n \in DOMAIN shown \intersect DOMAIN InScope[at] : shown[n].start = InScope[at][n]
=============================================================================
