------------------------------ MODULE MCValues ------------------------------
(***************************************************************************)
(* An instance of Values for TLC: the types a Cairo program has, with what *)
(* makes their layout hard: members and variants of different sizes,       *)
(* enums of two and of more variants, arrays in arrays and in structs, and *)
(* types whose cells are pointers: a box, a nullable value, a dictionary,  *)
(* a handle of a hash.                                                     *)
(* The samples are built from a value of each the way the Sierra compiler  *)
(* builds cells from it, every one with its cells expressed in every way.  *)
(***************************************************************************)
EXTENDS Values, SequencesExt, TLC

Other(size) == [kind |-> "other", size |-> size]

Starknet(named, size) == [kind |-> "starknet", named |-> named, size |-> size]

Types ==
  ("felt" :> Other(1)) @@ ("bool" :> [kind |-> "bool", size |-> 1]) @@
  ("address" :> Starknet(TRUE, 1)) @@ ("curve_point" :> Starknet(FALSE, 2)) @@
  ("handle" :> Starknet(FALSE, 1)) @@ ("point" :> Other(2)) @@ ("box" :> Other(1)) @@
  ("nothing" :> Other(0)) @@
  ("unit" :> [kind |-> "struct", members |-> << >>]) @@
  ("u256" :> [kind |-> "struct", members |-> <<"felt", "felt">>]) @@
  ("pair" :> [kind |-> "tuple", members |-> <<"u256", "bool">>]) @@
  ("option" :> [kind |-> "enum", variants |-> <<"felt", "unit">>]) @@
  ("shape" :> [kind |-> "enum", variants |-> <<"unit", "u256", "felt">>]) @@
  ("mixed" :> [kind |-> "struct", members |-> <<"shape", "address">>]) @@
  ("felts" :> [kind |-> "array", element |-> "felt"]) @@
  ("shapes" :> [kind |-> "array", element |-> "shape"]) @@
  ("units" :> [kind |-> "array", element |-> "unit"]) @@
  ("boxes" :> [kind |-> "tuple", members |-> <<"felt", "box", "handle">>]) @@
  ("handles" :> [kind |-> "array", element |-> "handle"]) @@
  ("matrix" :> [kind |-> "array", element |-> "felts"]) @@
  ("holder" :> [kind |-> "struct", members |-> <<"felts", "option">>]) @@
  ("view" :> [kind |-> "snapshot", inner |-> "holder"]) @@
  ("divisor" :> [kind |-> "nonzero", inner |-> "u256"])

RECURSIVE SizeOf(_)
SizeOf(t) ==
  LET d == Types[t]
  IN  CASE d.kind \in {"struct", "tuple"} ->
             FoldSeq(LAMBDA m, n : SizeOf(m) + n, 0, d.members)
        [] d.kind = "enum" -> 1 + Max({SizeOf(m) : m \in ToSet(d.variants)})
        [] d.kind \in {"snapshot", "nonzero"} -> SizeOf(d.inner)
        [] d.kind = "array" -> 2
        [] OTHER -> d.size

Sizes == [t \in DOMAIN Types |-> SizeOf(t)]

Variant(i, payload) == [variant |-> i, payload |-> payload]

Typed(t, v) == [type |-> t, value |-> v]

(* A value without parts is its cells.  The last seven variables cannot be *)
(* told from felts: elements without cells; a box, a nullable value or a   *)
(* dictionary; a dictionary that is squashed; handles of a hash.           *)
F(n) == <<Int_(n)>>

P(n) == <<Ptr(1, n)>>

Variables ==
  <<Typed("felt", F(3)), Typed("bool", F(0)), Typed("bool", F(1)), Typed("address", F(9)),
    Typed("curve_point", F(7) \o F(8)), Typed("point", F(4) \o F(5)), Typed("nothing", << >>),
    Typed("pair", <<<<F(1), F(2)>>, F(1)>>),
    Typed("option", Variant(0, F(7))), Typed("option", Variant(1, << >>)),
    Typed("shape", Variant(0, << >>)), Typed("shape", Variant(1, <<F(5), F(6)>>)),
    Typed("shape", Variant(2, F(8))), Typed("mixed", <<Variant(2, F(8)), F(9)>>),
    Typed("felts", << >>), Typed("felts", <<F(1), F(2), F(3)>>),
    Typed("shapes", <<Variant(1, <<F(5), F(6)>>), Variant(2, F(8))>>),
    Typed("matrix", <<<<F(1), F(2)>>, << >>>>),
    Typed("view", <<<<F(1), F(2)>>, Variant(0, F(7))>>), Typed("divisor", <<F(1), F(0)>>),
    Typed("units", << >>), Typed("units", <<<< >>, << >>>>),
    Typed("box", P(4)), Typed("point", P(4) \o P(8)), Typed("point", P(4) \o F(8)),
    Typed("handle", P(4)), Typed("boxes", <<F(3), P(4), P(5)>>),
    Typed("handles", <<P(4), F(5), P(6)>>)>>

----------------------------------------------------------------------------
(* The tree of the parts of value v of type t, in pre-order, the root at   *)
(* number k and offset at.  The heap of a part holds cells as well as      *)
(* addresses here, an array lies in a segment of its own.                  *)
RECURSIVE Tree(_, _, _, _), Forest(_, _, _, _)

Forest(types, values, k, at) ==
  IF types = << >> THEN << >>
  ELSE LET first == Tree(Head(types), Head(values), k, at)
       IN  <<first>> \o Forest(Tail(types), Tail(values), k + Len(first),
                               at + Len(first[1].cells))

Trees(t, d, v, k) ==
  CASE d.kind \in {"struct", "tuple"} -> Forest(d.members, v, k + 1, 0)
    [] d.kind = "enum" ->
         LET payload == d.variants[v.variant + 1]
         IN  Forest(<<payload>>, <<v.payload>>, k + 1, Sizes[t] - Sizes[payload])
    [] d.kind \in {"snapshot", "nonzero"} -> Forest(<<d.inner>>, <<v>>, k + 1, 0)
    [] d.kind = "array" -> Forest([i \in DOMAIN v |-> d.element], v, k + 1, 0)
    [] OTHER -> << >>

(* The cells of a part whose inner parts have the cells stored.            *)
CellsOf(t, d, v, seg, stored) ==
  CASE d.kind = "enum" ->
         LET padding == [i \in 1..(Sizes[t] - 1 - Len(stored)) |-> Int_(0)]
         IN  <<Int_(Discriminant(v.variant, Len(d.variants)))>> \o padding \o stored
    [] d.kind = "array" -> <<Ptr(seg, 0), Ptr(seg, Len(stored))>>
    [] d.kind \in {"bool", "starknet", "other"} -> v
    [] OTHER -> stored

ValueOf(d, v, cells, values) ==
  CASE d.kind \in {"struct", "tuple"} -> [kind |-> d.kind, fields |-> values]
    [] d.kind = "enum" -> [kind |-> "enum", variant |-> v.variant, value |-> values[1]]
    [] d.kind \in {"snapshot", "nonzero"} -> [kind |-> d.kind, value |-> values[1]]
    [] d.kind = "array" -> [kind |-> "array", elements |-> values]
    [] d.kind = "bool" -> [kind |-> "bool", value |-> cells = F(1)]
    [] d.kind = "starknet" /\ d.named -> [kind |-> "starknet", cells |-> cells]
    [] OTHER -> Plain(cells)

ElementsAt(seg, stored) == {<<<<seg, i - 1>>, stored[i]>> : i \in DOMAIN stored}

Root(t, d, v, k, at, inner, numbers, stored, cells) ==
  [type  |-> t,
   cells |-> cells,
   at    |-> at,
   inner |-> numbers,
   heap  |-> (IF d.kind = "array" THEN ElementsAt(k + 2, stored) ELSE {})
               \union UNION {inner[i].heap : i \in DOMAIN inner},
   value |-> ValueOf(d, v, cells, [i \in DOMAIN inner |-> inner[i].value])]

Stored(inner) == FlattenSeq([i \in DOMAIN inner |-> inner[i].cells])

Rooted(t, d, v, k, at, inner, numbers, stored) ==
  Root(t, d, v, k, at, inner, numbers, stored, CellsOf(t, d, v, k + 2, stored))

Over(t, d, v, k, at, inner, numbers) ==
  Rooted(t, d, v, k, at, inner, numbers, Stored(inner))

Numbers(trees, k) ==
  [i \in DOMAIN trees |-> k + 1 + Len(FlattenSeq(SubSeq(trees, 1, i - 1)))]

Planted(t, d, v, k, at, trees) ==
  <<Over(t, d, v, k, at, [i \in DOMAIN trees |-> trees[i][1]], Numbers(trees, k))>>
    \o FlattenSeq(trees)

Tree(t, v, k, at) == Planted(t, Types[t], v, k, at, Trees(t, Types[t], v, k))

----------------------------------------------------------------------------
(* The i-th cell of a variable, with content c: how it is expressed, and   *)
(* the memory that the expression reads.  An expression that is no plain   *)
(* read computes a felt, except "pointer_sum".                             *)
ExpressionKind ==
  <<"deref_ap", "deref_fp", "double_deref", "immediate", "add", "sub", "mul", "div",
    "add_cells", "pointer_sum">>

At(register, i) == [register |-> register, offset |-> i]

Immediate(n) == [kind |-> "immediate", value |-> n]

Deref(ref) == [kind |-> "deref", ref |-> ref]

BinOp(op, a, b) == [kind |-> "bin_op", op |-> op, a |-> a, b |-> b]

Binary(op, i, a, b) ==
  [expr |-> BinOp(op, At("ap", i), Immediate(b)), heap |-> {<<<<1, ap + i>>, Int_(a)>>}]

Express(kind, i, c) ==
  CASE kind = "double_deref" ->
         [expr |-> [kind |-> kind, ref |-> At("fp", - 3), offset |-> i],
          heap |-> {<<<<1, fp - 3>>, Ptr(2, 7)>>, <<<<2, 7 + i>>, c>>}]
    [] kind = "pointer_sum" /\ c.tag = "ptr" /\ c.off > 0 ->
         [expr |-> BinOp("add", At("ap", i), Immediate(1)),
          heap |-> {<<<<1, ap + i>>, Ptr(c.seg, c.off - 1)>>}]
    [] kind = "immediate" /\ c.tag = "int" -> [expr |-> Immediate(c.n), heap |-> {}]
    [] kind = "add" /\ c.tag = "int" -> Binary("add", i, c.n - 1, 1)
    [] kind = "sub" /\ c.tag = "int" -> Binary("sub", i, c.n + 2, 2)
    [] kind = "mul" /\ c.tag = "int" -> Binary("mul", i, c.n, 1)
    [] kind = "div" /\ c.tag = "int" -> Binary("div", i, 2 * c.n, 2)
    [] kind = "add_cells" /\ c.tag = "int" ->
         [expr |-> BinOp("add", At("ap", i), Deref(At("fp", - i))),
          heap |-> {<<<<1, ap + i>>, Int_(c.n - 1)>>, <<<<1, fp - i>>, Int_(1)>>}]
    [] kind = "deref_fp" ->
         [expr |-> Deref(At("fp", - i)), heap |-> {<<<<1, fp - i>>, c>>}]
    [] OTHER -> [expr |-> Deref(At("ap", i)), heap |-> {<<<<1, ap + i>>, c>>}]

Sample(value, kind) ==
  LET parts == Tree(value.type, value.value, 1, 0)
      cells == parts[1].cells
      exprs == [i \in DOMAIN cells |-> Express(kind, i, cells[i])]
      pairs == parts[1].heap \union UNION {exprs[i].heap : i \in DOMAIN exprs}
      Addresses(heap) == {pair[1] : pair \in heap}
  IN  [parts    |-> [k \in DOMAIN parts |->
                       [parts[k] EXCEPT !.heap = Addresses(parts[k].heap)]],
       ref_expr |-> [i \in DOMAIN exprs |-> exprs[i].expr],
       written  |-> [a \in Addresses(pairs) |-> (CHOOSE pair \in pairs : pair[1] = a)[2]]]

SamplesOf(values) ==
  LET n == Len(ExpressionKind)
  IN  [i \in 1..(n * Len(values)) |->
         Sample(values[(i - 1) \div n + 1], ExpressionKind[((i - 1) % n) + 1])]

AllSamples == SamplesOf(Variables)
=============================================================================
