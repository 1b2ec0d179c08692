------------------------------- MODULE Values -------------------------------
(***************************************************************************)
(* How the cells of a Sierra variable become the value of a Cairo variable *)
(* (src/debugger/state/call_stack/variables.rs and its vm_reader.rs).  A   *)
(* debugger stops anywhere, so that it may read a variable while parts of  *)
(* it are not written yet: here the memory of the VM, which is write-once, *)
(* is filled one cell after the other in any order.                        *)
(*                                                                         *)
(* The first part is external: what the Sierra compiler promises of the    *)
(* cells of a value, of the expressions for cells over registers and       *)
(* memory.  The second is the debugger's, which goes back from expressions *)
(* to a value.                                                             *)
(*                                                                         *)
(* A definition named X_with_... or X_without_... is X with a bug a change *)
(* of the code could bring in, to see that the properties notice.          *)
(***************************************************************************)
EXTENDS Integers, Sequences, FiniteSets

CONSTANTS
  TypeDef,    \* the concrete types of the program: their kind and what they are made of
  TypeSize,   \* how many cells each takes
  Samples,    \* a sequence of variables: see SampleAssumption
  Prime,      \* of the field the cells are in
  UsizeMax,   \* the largest number that an index of the debugger holds
  ap, fp,     \* the registers at the statement: offsets in the execution segment
  MaxNesting  \* how deep values lie in each other at most

VARIABLES
  sample,  \* which of them is read
  memory   \* of the VM: the cells written so far, by address

vars == <<sample, memory>>

----------------------------------------------------------------------------
(* Cells, values, types. *)

Int_(n) == [tag |-> "int", n |-> n % Prime]

Ptr(seg, off) == [tag |-> "ptr", seg |-> seg, off |-> off]

Felt == [tag : {"int"}, n : 0..(Prime - 1)]

Cell == Felt \union [tag : {"ptr"}, seg : Nat, off : Nat]

NoCell == [tag |-> "none"]

NoValue == [kind |-> "none"]

Panic == [kind |-> "panic"]

IsValue(v) == v.kind \notin {"none", "panic"}

Type == DOMAIN TypeDef

type_size(t) == TypeSize[t]

(***************************************************************************)
(* External: a field, in which a felt has one quotient by a felt.          *)
(***************************************************************************)
FieldAssumption ==
  /\ Prime \in Nat /\ Prime > 2
  /\ \A b \in 1..(Prime - 1) : \A x, y \in 0..(Prime - 1) :
       (x * b) % Prime = (y * b) % Prime => x = y

MaxDiscriminant == IF UsizeMax < Prime THEN UsizeMax ELSE Prime

(* Every type is of one of these kinds: "starknet" is one of the types of  *)
(* StarknetTypeConcrete, named when the debugger names it with its value;  *)
(* "other" any that it has no arm for, felts and pointers alike.  What is  *)
(* stored for a variant fits in a felt and an index.                       *)
TypeAssumption ==
  /\ TypeSize \in [Type -> Nat]
  /\ \A t \in Type :
       LET d == TypeDef[t]
       IN  \/ d.kind \in {"struct", "tuple"} /\ d.members \in Seq(Type)
           \/ d.kind = "enum" /\ d.variants \in Seq(Type) /\ 2 * Len(d.variants) <= MaxDiscriminant
           \/ d.kind \in {"snapshot", "nonzero"} /\ d.inner \in Type
           \/ d.kind = "array" /\ d.element \in Type
           \/ d.kind = "starknet" /\ d.named \in BOOLEAN
           \/ d.kind \in {"bool", "other"}

ASSUME ConstantsAssumption ==
  /\ FieldAssumption /\ TypeAssumption
  /\ UsizeMax \in Nat \ {0} /\ ap \in Nat /\ fp \in Nat /\ MaxNesting \in Nat

----------------------------------------------------------------------------
(* External: the layout of values.  A variable is a tree of parts: itself, *)
(* numbered 1, the members of a struct, the payload of an enum, what a     *)
(* snapshot is of, the elements of an array.  written is the memory once   *)
(* all of it is written.                                                   *)

(* A part: its type and cells, where they start among those of the part it *)
(* lies in, the numbers of the parts in it, the memory it points to and    *)
(* the value that it should be shown with.                                 *)
IsPart(s, k) ==
  LET p == s.parts[k]
  IN  /\ p.type \in Type /\ p.cells \in Seq(Cell) /\ Len(p.cells) = type_size(p.type)
      /\ p.at \in Nat
      /\ p.inner \in Seq((k + 1)..Len(s.parts))
      /\ p.heap \subseteq DOMAIN s.written

(* The cells of q lie in p where q says.                                   *)
LiesIn(q, p) ==
  /\ q.at + Len(q.cells) <= Len(p.cells)
  /\ \A j \in DOMAIN q.cells : p.cells[q.at + j] = q.cells[j]

(* What is stored for variant i, from 0, of n: the variant itself, or an   *)
(* offset into a jump table.                                               *)
Discriminant(i, n) == IF n <= 2 THEN i ELSE 2 * (n - i) - 1

(* The parts of part k of s, and their addresses when it is an array.      *)
Inner(s, k) == [i \in DOMAIN s.parts[k].inner |-> s.parts[s.parts[k].inner[i]]]

ElementCell(p, size, i, j) == <<p.cells[1].seg, p.cells[1].off + (i - 1) * size + j - 1>>

HeapOf(inner) == UNION {inner[i].heap : i \in DOMAIN inner}

(* Members one after the other.                                            *)
IsStruct(p, d, inner) ==
  /\ Len(inner) = Len(d.members)
  /\ \A i \in DOMAIN inner :
       /\ inner[i].type = d.members[i] /\ LiesIn(inner[i], p)
       /\ inner[i].at = IF i = 1 THEN 0 ELSE inner[i - 1].at + Len(inner[i - 1].cells)
  /\ p.value = [kind |-> d.kind, fields |-> [i \in DOMAIN inner |-> inner[i].value]]
  /\ p.heap = HeapOf(inner)

(* The discriminant, padding, and the payload at the end.                  *)
IsEnum(p, d, inner) ==
  \E v \in DOMAIN d.variants :
    /\ Len(inner) = 1
    /\ inner[1].type = d.variants[v] /\ LiesIn(inner[1], p)
    /\ inner[1].at > 0 /\ inner[1].at + Len(inner[1].cells) = Len(p.cells)
    /\ p.cells[1] = Int_(Discriminant(v - 1, Len(d.variants)))
    /\ p.value = [kind |-> "enum", variant |-> v - 1, value |-> inner[1].value]
    /\ p.heap = inner[1].heap

IsWrapper(p, d, inner) ==
  /\ Len(inner) = 1
  /\ inner[1].type = d.inner /\ inner[1].cells = p.cells
  /\ p.value = [kind |-> d.kind, value |-> inner[1].value]
  /\ p.heap = inner[1].heap

(* Two pointers, and the elements in between in memory.                    *)
IsArray(s, p, d, inner) ==
  LET size  == type_size(d.element)
      start == p.cells[1]
      own   == {ElementCell(p, size, i, j) : i \in DOMAIN inner, j \in 1..size}
  IN  /\ Len(p.cells) = 2 /\ start.tag = "ptr"
      /\ p.cells[2] = Ptr(start.seg, start.off + Len(inner) * size)
      /\ \A i \in DOMAIN inner :
           /\ inner[i].type = d.element
           /\ \A j \in 1..size : s.written[ElementCell(p, size, i, j)] = inner[i].cells[j]
      /\ p.value = [kind |-> "array", elements |-> [i \in DOMAIN inner |-> inner[i].value]]
      /\ p.heap = own \union HeapOf(inner)

(* A type without a form of its own is shown with its cells.               *)
Plain(cells) ==
  [kind |-> IF Len(cells) = 1 /\ cells[1].tag = "int" THEN "felt" ELSE "other", cells |-> cells]

(* A starknet type with a name is a felt, every other type may hold        *)
(* pointers: a box, a dictionary, a handle of a hash.                      *)
IsLeaf(p, d) ==
  /\ p.heap = {}
  /\ d.kind = "bool" =>
       \E b \in {0, 1} : /\ p.cells = <<Int_(b)>>
                         /\ p.value = [kind |-> "bool", value |-> b # 0]
  /\ d.kind = "starknet" => p.cells # << >>
  /\ d.kind = "starknet" /\ d.named =>
       /\ Len(p.cells) = 1 /\ p.cells[1] \in Felt
       /\ p.value = [kind |-> "starknet", cells |-> p.cells]
  /\ d.kind = "other" \/ (d.kind = "starknet" /\ ~ d.named) => p.value = Plain(p.cells)

IsLaidOut(s, k) ==
  LET p == s.parts[k]
      d == TypeDef[p.type]
  IN  /\ d.kind \in {"struct", "tuple"} => IsStruct(p, d, Inner(s, k))
      /\ d.kind = "enum" => IsEnum(p, d, Inner(s, k))
      /\ d.kind \in {"snapshot", "nonzero"} => IsWrapper(p, d, Inner(s, k))
      /\ d.kind = "array" => IsArray(s, p, d, Inner(s, k))
      /\ d.kind \in {"bool", "starknet", "other"} => IsLeaf(p, d)

(* All that the variable is made of can be told from felts: it holds no    *)
(* pointer but those of its arrays, whose elements take cells.             *)
Transparent(s) ==
  \A k \in DOMAIN s.parts :
    LET p == s.parts[k]
        d == TypeDef[p.type]
    IN  /\ d.kind \in {"starknet", "other"} => \A j \in DOMAIN p.cells : p.cells[j] \in Felt
        /\ d.kind = "array" /\ p.inner # << >> => type_size(d.element) # 0

----------------------------------------------------------------------------
(* External: the expressions for the cells of a variable. *)

Register == [register : {"ap", "fp"}, offset : Int]

relocatable_from_cell_ref(ref) ==
  <<1, (IF ref.register = "ap" THEN ap ELSE fp) + ref.offset>>

Operand == [kind : {"deref"}, ref : Register] \union [kind : {"immediate"}, value : Int]

Expression ==
  [kind : {"deref"}, ref : Register]
    \union [kind : {"double_deref"}, ref : Register, offset : Int]
    \union [kind : {"immediate"}, value : Int]
    \union [kind : {"bin_op"}, op : {"add", "sub", "mul", "div"}, a : Register, b : Operand]

(* Felt c is what the operation gives.                                     *)
IsResult(c, op, a, b) ==
  /\ c \in Felt
  /\ op = "add" => c.n = (a + b) % Prime
  /\ op = "sub" => (c.n + b) % Prime = a
  /\ op = "mul" => c.n = (a * b) % Prime
  /\ op = "div" => b # 0 /\ (c.n * b) % Prime = a

(* The cells that an expression reads.                                     *)
Reads(s, e) ==
  LET first == relocatable_from_cell_ref(e.ref)
  IN  CASE e.kind = "deref" -> {first}
        [] e.kind = "double_deref" ->
             {first, <<s.written[first].seg, s.written[first].off + e.offset>>}
        [] e.kind = "immediate" -> {}
        [] e.kind = "bin_op" ->
             {relocatable_from_cell_ref(e.a)}
               \union (IF e.b.kind = "deref" THEN {relocatable_from_cell_ref(e.b.ref)} ELSE {})

OperandCell(s, b) ==
  IF b.kind = "deref" THEN s.written[relocatable_from_cell_ref(b.ref)] ELSE Int_(b.value)

(* The end of an array after an append that is not stored yet: a pointer   *)
(* and a number, which the debugger does not add.                          *)
IsPointerSum(s, e) ==
  e.kind = "bin_op" /\ s.written[relocatable_from_cell_ref(e.a)].tag = "ptr"

(* Expression e stands for cell c.                                         *)
StandsFor(s, e, c) ==
  LET first == relocatable_from_cell_ref(e.ref)
      a     == s.written[relocatable_from_cell_ref(e.a)]
      b     == OperandCell(s, e.b)
  IN  /\ e \in Expression /\ Reads(s, e) \subseteq DOMAIN s.written
      /\ e.kind = "deref" => s.written[first] = c
      /\ e.kind = "double_deref" =>
           /\ s.written[first].tag = "ptr"
           /\ s.written[<<s.written[first].seg, s.written[first].off + e.offset>>] = c
      /\ e.kind = "immediate" => Int_(e.value) = c
      /\ e.kind = "bin_op" =>
           /\ b.tag = "int"
           /\ IF a.tag = "ptr" THEN e.op = "add" /\ c = Ptr(a.seg, a.off + b.n)
              ELSE IsResult(c, e.op, a.n, b.n)

(* A variable: its parts, an expression for each of its cells, memory.     *)
ASSUME SampleAssumption ==
  /\ Samples # << >>
  /\ \A v \in DOMAIN Samples :
       LET s == Samples[v]
       IN  /\ s.written \in [DOMAIN s.written -> Cell]
           /\ DOMAIN s.parts = 1..Len(s.parts) /\ Len(s.parts) \in 1..MaxNesting
           /\ \A k \in DOMAIN s.parts : IsPart(s, k) /\ IsLaidOut(s, k)
           /\ DOMAIN s.ref_expr = DOMAIN s.parts[1].cells
           /\ \A i \in DOMAIN s.ref_expr : StandsFor(s, s.ref_expr[i], s.parts[1].cells[i])

----------------------------------------------------------------------------
(* VmReader: reader is the memory that it reads. *)

read_relocatable_with_get_integer(reader, a) ==
  IF a \in DOMAIN reader /\ reader[a].tag = "int" THEN reader[a] ELSE NoCell

read_relocatable(reader, a) == IF a \in DOMAIN reader THEN reader[a] ELSE NoCell

extract_felt(reader, ref) ==
  LET c == read_relocatable(reader, relocatable_from_cell_ref(ref))
  IN  IF c.tag = "int" THEN c ELSE NoCell

FieldDiv(a, b) == CHOOSE x \in 0..(Prime - 1) : (x * b) % Prime = a

Apply(op, a, b) ==
  Int_(CASE op = "add" -> a + b
         [] op = "sub" -> a - b
         [] op = "mul" -> a * b
         [] op = "div" -> FieldDiv(a, b))

read_cell(reader, cell) ==
  CASE cell.kind = "deref" -> read_relocatable(reader, relocatable_from_cell_ref(cell.ref))
    [] cell.kind = "double_deref" ->
         LET inner == read_relocatable(reader, relocatable_from_cell_ref(cell.ref))
         IN  IF inner.tag = "ptr"
             THEN read_relocatable(reader, <<inner.seg, inner.off + cell.offset>>)
             ELSE NoCell
    [] cell.kind = "immediate" -> Int_(cell.value)
    [] cell.kind = "bin_op" ->
         LET a == extract_felt(reader, cell.a)
             b == IF cell.b.kind = "deref" THEN extract_felt(reader, cell.b.ref)
                  ELSE Int_(cell.b.value)
         IN  IF a.tag = "int" /\ b.tag = "int" THEN Apply(cell.op, a.n, b.n) ELSE NoCell

----------------------------------------------------------------------------
(* From cells to values.  The code calls itself for the values in a value; *)
(* here they are given by decode, a function of cells and their type.      *)

(* filter_map in the place of map and collect.                             *)
Collect_without_missing(parts, value) == value

(* collect::<Option<Vec<_>>>: the first one that is no value decides.      *)
Collect(parts, value) ==
  IF \A i \in DOMAIN parts : IsValue(parts[i]) THEN value
  ELSE parts[CHOOSE i \in DOMAIN parts :
               ~ IsValue(parts[i]) /\ \A j \in 1..(i - 1) : IsValue(parts[j])]

(* The felts among the cells, in their order.                              *)
Felts(cells) ==
  LET ints   == {i \in DOMAIN cells : cells[i].tag = "int"}
      nth(m) == CHOOSE i \in ints : Cardinality({j \in ints : j <= i}) = m
  IN  [m \in 1..Cardinality(ints) |-> cells[nth(m)]]

fallback_value(cells) ==
  IF Len(cells) = 1 /\ cells[1].tag = "int" THEN [kind |-> "felt", cells |-> cells]
  ELSE [kind |-> "other", cells |-> Felts(cells)]

(* The sizes of the first members together.                                *)
Offsets(members) ==
  LET offset[i \in Nat] == IF i = 0 THEN 0 ELSE offset[i - 1] + type_size(members[i])
  IN  offset

(* Members lie one after the other.                                        *)
member_slices(members, cells) ==
  [i \in DOMAIN members |->
     SubSeq(cells, Offsets(members)[i - 1] + 1, Offsets(members)[i - 1] + type_size(members[i]))]

(* The index, from 0, of the variant with a stored discriminant.  The      *)
(* subtraction saturates.                                                  *)
variant_index(stored, n) ==
  IF n <= 2 THEN stored
  ELSE IF (stored + 1) \div 2 <= n THEN n - (stored + 1) \div 2 ELSE 0

variant_values_with_padding_at_end(payload, size) == SubSeq(payload, 1, size)

variant_values(payload, size) == SubSeq(payload, Len(payload) - size + 1, Len(payload))

extract_array_from_pointers(reader, decode, start_ptr, end_ptr, element) ==
  LET size  == type_size(element)
      total == end_ptr.off - start_ptr.off
      Cells(i) == [j \in 1..size |->
                     read_relocatable(reader, <<start_ptr.seg,
                                                start_ptr.off + (i - 1) * size + j - 1>>)]
      elements == [i \in 1..(total \div size) |->
                     IF \E j \in 1..size : Cells(i)[j].tag = "none" THEN NoValue
                     ELSE decode[<<Cells(i), element>>]]
  IN  IF start_ptr.seg # end_ptr.seg THEN NoValue
      ELSE IF size = 0 THEN [kind |-> "array", elements |-> << >>]
      ELSE IF total < 0 \/ total % size # 0 THEN NoValue
      ELSE Collect(elements, [kind |-> "array", elements |-> elements])

extract_struct(decode, cells, t) ==
  LET members == TypeDef[t].members
      slices  == member_slices(members, cells)
      fields  == [i \in DOMAIN members |-> decode[<<slices[i], members[i]>>]]
  IN  IF \E i \in DOMAIN members : Offsets(members)[i] > Len(cells) THEN NoValue
      ELSE Collect(fields, [kind |-> TypeDef[t].kind, fields |-> fields])

extract_enum(decode, cells, t) ==
  LET variants == TypeDef[t].variants
      index    == variant_index(cells[1].n, Len(variants))
      variant  == variants[index + 1]
      value    == decode[<<variant_values(Tail(cells), type_size(variant)), variant>>]
  IN  IF cells = << >> \/ cells[1].tag # "int" THEN NoValue
      ELSE IF \/ cells[1].n > UsizeMax \/ index >= Len(variants)
              \/ type_size(variant) > Len(cells) - 1
      THEN Panic
      ELSE Collect(<<value>>, [kind |-> "enum", variant |-> index, value |-> value])

extract_bool(cells) ==
  IF cells = << >> \/ cells[1].tag # "int" THEN NoValue
  ELSE IF cells[1].n > UsizeMax THEN Panic
  ELSE [kind |-> "bool", value |-> cells[1].n # 0]

extract_starknet(cells, named) ==
  IF cells = << >> \/ cells[1].tag # "int" THEN Panic
  ELSE IF named THEN [kind |-> "starknet", cells |-> SubSeq(cells, 1, 1)]
  ELSE fallback_value(cells)

maybe_relocatables_to_cairo_value(reader, decode, cells, t) ==
  LET d == TypeDef[t]
  IN  CASE d.kind = "array" ->
             IF Len(cells) = 2 /\ cells[1].tag = "ptr" /\ cells[2].tag = "ptr"
             THEN extract_array_from_pointers(reader, decode, cells[1], cells[2], d.element)
             ELSE NoValue
        [] d.kind \in {"snapshot", "nonzero"} ->
             LET value == decode[<<cells, d.inner>>]
             IN  Collect(<<value>>, [kind |-> d.kind, value |-> value])
        [] d.kind \in {"struct", "tuple"} -> extract_struct(decode, cells, t)
        [] d.kind = "bool" -> extract_bool(cells)
        [] d.kind = "enum" -> extract_enum(decode, cells, t)
        [] d.kind = "starknet" -> extract_starknet(cells, d.named)
        [] d.kind = "other" -> fallback_value(cells)

(* All variables decoded at once, given those that lie one level less      *)
(* deep, and the recursion of the code, n calls deep.                      *)
Level(reader, decode) ==
  [x \in Seq(Cell) \X Type |-> maybe_relocatables_to_cairo_value(reader, decode, x[1], x[2])]

Decoded(reader) ==
  LET decoded[n \in Nat] ==
        IF n = 0 THEN [x \in Seq(Cell) \X Type |-> Panic] ELSE Level(reader, decoded[n - 1])
  IN  decoded

extract_var_value(reader, cells, t) ==
  LET values == [i \in DOMAIN cells |-> read_cell(reader, cells[i])]
  IN  IF \E i \in DOMAIN values : values[i].tag = "none" THEN NoValue
      ELSE Decoded(reader)[MaxNesting][<<values, t>>]

----------------------------------------------------------------------------
(* The program writes, the debugger may read at any time.                  *)

Variable == Samples[sample]

Init ==
  /\ sample \in DOMAIN Samples
  /\ memory = [a \in {} |-> NoCell]

Write ==
  \E a \in DOMAIN Variable.written \ DOMAIN memory :
    /\ memory' = [b \in DOMAIN memory \union {a} |-> Variable.written[b]]
    /\ UNCHANGED sample

Next == Write

Spec == Init /\ [][Next]_vars

----------------------------------------------------------------------------
(* Properties. *)

Value == extract_var_value(memory, Variable.ref_expr, Variable.parts[1].type)

(* The value of the program's variable as it should be shown.              *)
Shown == Variable.parts[1].value

(* Whatever part of it is written, a variable that can be told from felts  *)
(* is shown with its value or not at all: never with the cells of another  *)
(* member, another variant, a padding cell or part of an array, and never  *)
(* by a panic (variables.rs:216-243).  Others may be: a pointer is left    *)
(* out (variables.rs:287), so that a box is shown as [], and a handle of a *)
(* hash, a starknet type that is a pointer, reaches the unreachable! of    *)
(* variables.rs:269.                                                       *)
NeverWrong == Transparent(Variable) => Value \in {NoValue, Shown}

(* Nothing but a cell that is not written yet hides the value of such a    *)
(* variable, or a pointer that is still a sum: extract_felt does not       *)
(* compute with pointers.                                                  *)
ShownWhenWritten ==
  Transparent(Variable) /\ memory = Variable.written =>
    \/ Value = Shown
    \/ \E i \in DOMAIN Variable.ref_expr : IsPointerSum(Variable, Variable.ref_expr[i])

(* A value once read stays, whatever it is made of, as the cache of a      *)
(* caller's variables (call_stack.rs:147) and the comparison of two stops  *)
(* (state.rs:132) take for granted.                                        *)
ValueStays == [][IsValue(Value) => Value' = Value]_vars
=============================================================================
