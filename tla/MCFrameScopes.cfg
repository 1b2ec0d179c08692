\* The scopes of the frames of a call in an inlined function.
SPECIFICATION Spec
CONSTANTS
  NStatements <- ProgramSize
  Kind <- ProgramKind
  Branches <- ProgramBranches
  Casm <- ProgramCasm
  EntryPoints <- ProgramEntryPoints
  Main = 0
  Callee <- ProgramCallee
  Locations <- InlinedLocations
  FunctionNames <- InlinedNames
  Produces <- ProgramProduces
  Args = {a1, a2}
  MaxDepth = 3
  NESTED_VAR_REF_START = 17
  Nesting = 0
  References = {}
  MaxRefs = 0
\* The program ends, by itself or by an error of the VM.
CHECK_DEADLOCK FALSE
INVARIANT
  FrameHasItsScope
