CONSTANTS
  Codes <- MCCodes
  Errors <- MCErrors
  StatusCodes = {200, 401, 403, 404, 413, 419, 422, 500}
SPECIFICATION Spec
INVARIANT RefusalReported
CHECK_DEADLOCK FALSE
