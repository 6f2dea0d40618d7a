SPECIFICATION Spec
CONSTANTS
  Numbers = {1, 3}
  Fills = {0, 1, 2}
  Sizes = {1, 4, 6, 8}
  MaxRequests = 3
INVARIANTS
  TypeOK
  ReplyEchoesRequest
\* After MaxRequests requests the model stops.
CHECK_DEADLOCK FALSE
