\* The recursive function of the program returns right after it calls itself.
SPECIFICATION Spec
CONSTANTS
  NStatements <- ProgramSize
  Kind <- ProgramKind
  Branches <- ProgramBranches
  Casm <- TailCasm
  EntryPoints <- ProgramEntryPoints
  Main = 0
  Callee <- ProgramCallee
  Locations <- ProgramLocations
  FunctionNames <- ProgramNames
  Produces <- ProgramProduces
  Args = {a1, a2}
  MaxDepth = 3
  NESTED_VAR_REF_START = 14
  Nesting = 0
  References = {}
  MaxRefs = 0
\* The program ends, by itself or by an error of the VM.
CHECK_DEADLOCK FALSE
INVARIANT
  NoPanic
