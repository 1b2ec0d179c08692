\* A recursive program with an inlined function, two activations of it deep.
SPECIFICATION Spec
CONSTANTS
  NStatements <- ProgramSize
  Kind <- ProgramKind
  Branches <- ProgramBranches
  Casm <- ProgramCasm
  EntryPoints <- ProgramEntryPoints
  Main = 0
  Callee <- ProgramCallee
  Locations <- InlinedLocations
  FunctionNames <- InlinedNames
  Produces <- ProgramProduces
  Args = {a1, a2}
  MaxDepth = 3
  NESTED_VAR_REF_START = 17
  Nesting = 2
  References <- AnyReference
  MaxRefs = 3
\* The program ends, by itself or by an error of the VM.
CHECK_DEADLOCK FALSE
INVARIANTS
  TypeOK
  StackMirrorsVm
  TraceIsSound
  NoPanic
  ReferencesUnique
  NoStaleReference
  ScopeStaysInSubStack
  ActionMeansNewStatement
  IInv
  ReadInv
