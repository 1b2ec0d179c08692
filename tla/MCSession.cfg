\* Stepping, pausing and continuing over a recursive program, and breakpoints
\* set, moved and hit in several activations of a function.
SPECIFICATION SessionSpec
CONSTANTS
  NStatements <- ProgramSize
  Kind <- ProgramKind
  Branches <- ProgramBranches
  Casm <- ProgramCasm
  EntryPoints <- ProgramEntryPoints
  Main = 0
  Callee <- ProgramCallee
  Locations <- InlinedLocations
  FunctionNames <- InlinedNames
  Produces <- ProgramProduces
  Args = {a1}
  MaxDepth = 2
  NESTED_VAR_REF_START = 20
  Nesting = 1
  References = {2}
  MaxRefs = 4
  Requests <- SessionCommands
  Files <- TwoFiles
  Handshakes <- SessionHandshakes
  Polite = FALSE
  MaxRequests = 3
\* The session ends.
CHECK_DEADLOCK FALSE
INVARIANTS
  SessionTypeOK
  AnnouncedState
  SessionNoPanic
  StepStopsAtItsDepth
  NoStepIsMissed
  StepInStopsAtNextLine
  SessionInv
PROPERTIES
  ImplementsDapSession
  BreakpointsAreHonoured
