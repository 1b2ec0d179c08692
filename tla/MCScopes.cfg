\* A variable of a block, asked for after the block.
SPECIFICATION Spec
CONSTANTS
  Statement = {1, 2, 3, 4, 5, 6, 7, 8, 9, 10}
  Entry = 1
  Casm = {2, 5, 6, 7, 8, 10}
  Results <- MCResults
  Branches <- MCBranches
  CairoVariable <- MCCairoVariable
  Params <- MCParams
  DebugInfo <- MCDebugInfo
  InScope <- MCInScope
\* The function returns.
CHECK_DEADLOCK FALSE
INVARIANTS
  CurrentVariableIsShown
