\* Variables of every kind, with cells expressed in every way, written in every order.
SPECIFICATION Spec
CONSTANTS
  TypeDef <- Types
  TypeSize <- Sizes
  Samples <- AllSamples
  Prime = 31
  UsizeMax = 20
  ap = 10
  fp = 5
  MaxNesting = 7
\* The variable is written.
CHECK_DEADLOCK FALSE
INVARIANTS
  NeverWrong
  ShownWhenWritten
PROPERTIES
  ValueStays
