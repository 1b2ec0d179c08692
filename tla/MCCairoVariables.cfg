\* Every path through a function, asked for its variables at any statement.
SPECIFICATION Spec
CONSTANTS
  Statement = {1, 2, 3, 4, 5, 6, 7, 8, 9, 10}
  Entry = 1
  Casm = {2, 5, 6, 7, 8, 10}
  Results <- MCResults
  Branches <- MCBranches
  CairoVariable <- MCCairoVariable
  Params <- MCParams
  DebugInfo <- MCDebugInfo
  InScope <- MCInScope
\* The function returns.
CHECK_DEADLOCK FALSE
INVARIANTS
  LastDefinedIsShown
  VariablesInv
PROPERTIES
  NamesMoveForward
