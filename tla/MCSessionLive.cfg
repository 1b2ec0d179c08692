\* Every kind of request, under fairness.
SPECIFICATION FairSpec
CONSTANTS
  NStatements <- ProgramSize
  Kind <- ProgramKind
  Branches <- ProgramBranches
  Casm <- ProgramCasm
  EntryPoints <- ProgramEntryPoints
  Main = 0
  Callee <- ProgramCallee
  Locations <- HiddenLocations
  FunctionNames <- ProgramNames
  Produces <- ProgramProduces
  Args = {a1}
  MaxDepth = 1
  NESTED_VAR_REF_START = 20
  Nesting = 1
  References = {2}
  MaxRefs = 4
  Requests <- AnyCommands
  Files <- TwoFiles
  Handshakes <- AnyHandshakes
  Polite = FALSE
  MaxRequests = 2
\* The session ends.
CHECK_DEADLOCK FALSE
PROPERTIES
  ImplementsFairDapSession
  SessionEnds
