----------------------------- MODULE MCSession -----------------------------
(***************************************************************************)
(* Instances of Session for TLC: one small program, and clients that use   *)
(* different parts of the protocol.                                        *)
(***************************************************************************)
EXTENDS SessionInvariant, TLC

Loc(file, line) == <<[file |-> file, line |-> line, col |-> 0]>>

(* main (0 to 4) calls f (5 to 9) twice, f may call itself once.           *)
ProgramSize == 10
ProgramCasm == {0, 1, 3, 4, 5, 6, 7, 8, 9}
ProgramEntryPoints == {0, 5}
ProgramCalls == {1, 3, 6}
ProgramReturns == {4, 8, 9}

ProgramKind ==
  [s \in 0..9 |-> IF s \in ProgramCalls THEN "call"
                  ELSE IF s \in ProgramReturns THEN "return" ELSE "invocation"]

ProgramBranches ==
  [s \in 0..9 |-> IF s \in ProgramReturns THEN << >>
                  ELSE IF s = 5 THEN <<6, 9>> ELSE <<s + 1>>]

ProgramCallee == [s \in ProgramCalls |-> 5]

(* Two statements of main on one line (0, 1) and two of f (6, 7).          *)
ProgramLocations ==
  (0 :> Loc("main", 1)) @@ (1 :> Loc("main", 1)) @@ (2 :> Loc("main", 2)) @@
  (3 :> Loc("main", 2)) @@ (4 :> Loc("main", 3)) @@ (5 :> Loc("f", 6)) @@
  (6 :> Loc("f", 7)) @@ (7 :> Loc("f", 7)) @@ (8 :> Loc("f", 8)) @@ (9 :> Loc("f", 9))

ProgramNames == [s \in 0..9 |-> IF s < 5 THEN <<"main">> ELSE <<"f">>]

(* The call in f comes from a function inlined into f.                     *)
InlinedLocations ==
  [ProgramLocations EXCEPT ![6] = Loc("inlined", 12) \o Loc("f", 7)]

InlinedNames == [ProgramNames EXCEPT ![6] = <<"f", "inlined">>]

(* Statements of f that come from no line.                                 *)
HiddenLocations == [ProgramLocations EXCEPT ![5] = << >>, ![7] = << >>]

(* f starts on the line with the number of the line that calls it.         *)
SameNumberLocations == [ProgramLocations EXCEPT ![5] = Loc("f", 1)]

ProgramProduces == {0, 5}

----------------------------------------------------------------------------
Cmd(c) == [cmd |-> c]

(* The client counts lines from 1.                                         *)
SetBreakpoints(file, lines) ==
  [cmd |-> "SetBreakpoints", source |-> file, lines |-> {l + 1 : l \in lines}]

Variables(ref) == [cmd |-> "Variables", ref |-> ref]

TwoFiles == {"main", "f"}

StepCommands == {Cmd("Pause"), Cmd("Continue"), Cmd("Next"), Cmd("StepIn"), Cmd("StepOut")}

(* A client that breaks in f and in main, and then steps.                  *)
SteppingHandshakes ==
  {<<Cmd("Initialize"), SetBreakpoints("f", {7}), Cmd("ConfigurationDone")>>,
   <<Cmd("Initialize"), SetBreakpoints("main", {1, 2}), Cmd("ConfigurationDone")>>}

(* One that also replaces its breakpoints, before and as the program runs. *)
SessionHandshakes ==
  SteppingHandshakes \union
  {<<Cmd("Initialize"), Cmd("Launch"), SetBreakpoints("f", {6, 8}), Cmd("ConfigurationDone")>>,
   <<SetBreakpoints("main", {2}), SetBreakpoints("main", {1}), Cmd("ConfigurationDone")>>}

SessionCommands ==
  StepCommands \union
  {SetBreakpoints("f", {7}), SetBreakpoints("main", {2})}

(* Every kind of request a client can send.                                *)
AnyCommands ==
  {Cmd(c) : c \in CommandNames \ {"Variables", "SetBreakpoints"}}
    \union {Variables(2), SetBreakpoints("main", {2})}

AnyHandshakes ==
  {<<Cmd("Initialize"), SetBreakpoints("f", {7}), Cmd("ConfigurationDone")>>, <<Cmd("Query")>>}
=============================================================================
