\* Statements that come from no line.
SPECIFICATION SessionSpec
CONSTANTS
  NStatements <- ProgramSize
  Kind <- ProgramKind
  Branches <- ProgramBranches
  Casm <- ProgramCasm
  EntryPoints <- ProgramEntryPoints
  Main = 0
  Callee <- ProgramCallee
  Locations <- HiddenLocations
  FunctionNames <- ProgramNames
  Produces <- ProgramProduces
  Args = {a1}
  MaxDepth = 2
  NESTED_VAR_REF_START = 20
  Nesting = 1
  References = {2}
  MaxRefs = 4
  Requests <- StepCommands
  Files <- TwoFiles
  Handshakes <- SteppingHandshakes
  Polite = TRUE
  MaxRequests = 3
\* The session ends.
CHECK_DEADLOCK FALSE
INVARIANT
  SessionNoPanic
