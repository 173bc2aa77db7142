CONSTANTS
  c1 = c1
  Callers = {c1, c2}
  Tokens = {t1, t2, t3}
  RingSize = 2
  MaxCalls <- CallsOfEach
  None = None
SPECIFICATION Spec
\* Every caller may have made its calls.
CHECK_DEADLOCK FALSE
INVARIANTS
  TypeOK
  OneOwner
PROPERTIES
  AnsweredReachesCaller
  RequestsAreTaken
  CallsReturn
  ImplementsRpc
