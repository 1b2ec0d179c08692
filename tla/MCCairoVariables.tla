-------------------------- MODULE MCCairoVariables --------------------------
(***************************************************************************)
(* An instance of CairoVariables for TLC: the Sierra of a function like    *)
(*                                                                         *)
(*   fn foo(x: felt252, b: bool) {   definitions 1 and 2                   *)
(*     let mut y = (x, x);           definition 3                          *)
(*     if b { let y = y.a; ... }     definition 4                          *)
(*     y = (x, y.a);                                                       *)
(*     let x = bar();                definition 5                          *)
(*     let (b, _) = baz();           definition 6                          *)
(*   }                                                                     *)
(*                                                                         *)
(* with what makes the choice hard: y takes the Sierra variable of the     *)
(* parameter x, the fields of y are mapped back to y, statements produce   *)
(* several variables, some of a PanicResult or of no cells, and some       *)
(* compile to no CASM: the tuple of y, the entrance of the block (3), the  *)
(* parts of y (4) and, right after the call, those of what baz returns (9).*)
(***************************************************************************)
EXTENDS CairoVariables, TLC

Definition(name, start) == [name |-> name, start |-> start]

MCCairoVariable ==
  (0 :> Definition("y", 3)) @@ (1 :> Definition("b", 2)) @@
  (2 :> Definition("y", 3)) @@ (3 :> Definition("y", 3)) @@
  (4 :> Definition("y", 4)) @@ (5 :> Definition("x", 5)) @@ (6 :> Definition("b", 2)) @@
  (8 :> Definition("b", 6))

Result(id, cells) == [id |-> id, cells |-> cells, panic_result |-> FALSE]

MCResults ==
  {Result(id, cells) : id \in 0..8, cells \in 0..2} \union
  {[Result(5, 2) EXCEPT !.panic_result = TRUE]}

Branch(target, results) == [target |-> target, results |-> results]

MCBranches == <<
  <<Branch(2, <<Result(7, 1), Result(0, 2)>>)>>,
  <<Branch(3, <<Result(6, 0)>>), Branch(5, << >>)>>,
  <<Branch(4, << >>)>>,
  <<Branch(5, <<Result(2, 1), Result(3, 1), Result(4, 1)>>)>>,
  <<Branch(6, <<Result(0, 2)>>)>>,
  <<Branch(7, <<[Result(5, 2) EXCEPT !.panic_result = TRUE]>>)>>,
  <<Branch(8, <<Result(5, 1)>>)>>,
  <<Branch(9, <<Result(7, 2)>>)>>,
  <<Branch(10, <<Result(8, 1)>>)>>,
  << >> >>

MCParams == <<Result(0, 1), Result(1, 1)>>

MCDebugInfo ==
  {[known |-> FALSE],
   [known |-> TRUE, definitions |-> (0 :> Definition("x", 1)) @@ (1 :> Definition("b", 2))]}

MCInScope ==
  LET Params2 == ("x" :> 1) @@ ("b" :> 2)
      WithY == Params2 @@ ("y" :> 3)
      WithX == ("x" :> 5) @@ WithY
  IN  <<Params2, WithY, WithY, WithY, WithY, WithY, WithY, WithX, WithX,
        ("b" :> 6) @@ WithX>>
=============================================================================
