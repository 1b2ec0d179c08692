---------------------------- MODULE MCCallStack ----------------------------
(***************************************************************************)
(* Instances of CallStack for TLC: small Sierra programs with what makes   *)
(* the inference of the call stack hard.                                   *)
(***************************************************************************)
EXTENDS CallStackInvariant, TLC

Loc(file, line) == <<[file |-> file, line |-> line, col |-> 0]>>

(* main calls f, f calls itself.  Statements without CASM at the start of  *)
(* f (7), at branch entrances (9, 13), after an invocation (1, 2) and      *)
(* after a call (4); a statement without a location (11).                  *)
ProgramSize == 15
ProgramCasm == {0, 3, 5, 6, 8, 10, 11, 12, 14}
ProgramEntryPoints == {0, 7}
ProgramCalls == {3, 10}
ProgramReturns == {6, 12, 14}

ProgramKind ==
  [s \in 0..14 |-> IF s \in ProgramCalls THEN "call"
                   ELSE IF s \in ProgramReturns THEN "return" ELSE "invocation"]

ProgramBranches ==
  [s \in 0..14 |-> IF s \in ProgramReturns THEN << >>
                   ELSE IF s = 8 THEN <<9, 13>> ELSE <<s + 1>>]

ProgramCallee == [s \in ProgramCalls |-> 7]

ProgramLocations ==
  (0 :> Loc("main", 1)) @@ (1 :> Loc("main", 2)) @@ (2 :> Loc("main", 2)) @@
  (3 :> Loc("main", 3)) @@ (4 :> Loc("main", 3)) @@ (5 :> Loc("main", 4)) @@
  (6 :> Loc("main", 5)) @@ (7 :> Loc("f", 1)) @@ (8 :> Loc("f", 1)) @@
  (9 :> Loc("f", 2)) @@ (10 :> Loc("f", 2)) @@ (11 :> << >>) @@
  (12 :> Loc("f", 3)) @@ (13 :> Loc("f", 4)) @@ (14 :> Loc("f", 4))

ProgramNames == [s \in 0..14 |-> IF s < 7 THEN <<"main">> ELSE <<"f">>]

(* The call in main comes from a function inlined into main, and so does   *)
(* the one in f, of which the names of the functions are not known.        *)
InlinedLocations ==
  [ProgramLocations EXCEPT ![3] = Loc("inlined", 7) \o Loc("main", 3),
                           ![10] = Loc("inlined", 8) \o Loc("f", 2)]

InlinedNames == [ProgramNames EXCEPT ![3] = <<"main", "inlined">>, ![10] = << >>]

(* The same program with nothing but a statement without CASM between the  *)
(* recursive call and the return: f is tail recursive.                     *)
TailCasm == ProgramCasm \ {11}

ProgramProduces == {0, 1, 5, 8, 9}

(* Frame ids, scopes of frames and of none, nested references.             *)
AnyReference == 0..19
=============================================================================
