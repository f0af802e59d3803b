CONSTANTS
  Codes <- MCCodes
  Errors <- MCErrors
  StatusCodes = {200, 401, 403, 404, 413, 419, 422, 500}
SPECIFICATION Spec
INVARIANTS
  TypeOK
  FailureReported
  DeclaredArrives
  InternalsHidden
CHECK_DEADLOCK FALSE
