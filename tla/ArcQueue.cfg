SPECIFICATION MCSpec
CONSTANTS
  Caller = {c1, c2}
  Size = 2
  MaxCalls = 3
  Faults = {"timeout", "crash"}
INVARIANTS
  AnswersMatchCalls
PROPERTIES
  RequestsFifo
  ResponsesFifo
  CallsEnd
