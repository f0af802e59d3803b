CONSTANTS
  Requests = {r1}
  Connections = {c1, c2}
  Programs <- Handlers
SPECIFICATION Spec
INVARIANT RolledBackOnFailure
