\* A client that writes three messages, and closes the stream at any time.
SPECIFICATION FairSpec
CONSTANTS
  MaxWrites = 3
  MaxEvents = 1
\* The connection ends.
CHECK_DEADLOCK FALSE
INVARIANTS
  ConnectionTypeOK
  EverythingIsDelivered
  AnswersInOrder
  ConnectionInv
  AnswersInv
PROPERTIES
  DropEnds
  ClosedClientEndsSession
