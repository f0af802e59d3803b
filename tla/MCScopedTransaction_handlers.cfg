CONSTANTS
  Requests = {r1, r2}
  Connections = {c1, c2, c3}
  Programs <- Handlers
SPECIFICATION Spec
INVARIANTS
  TypeOK
  ConnectionsAccountedFor
  RequiredTransactionIsClosed
  FailureDiscardsWrites
  AcknowledgedWritesLand
  EffectAfterLaterRequire
PROPERTY ImplementsUnitOfWork
SYMMETRY Symmetric
