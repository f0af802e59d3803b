CONSTANTS
  Requests = {r1, r2}
  Connections = {c1, c2}
  Programs <- HoldAndWait
SPECIFICATION FairSpec
PROPERTIES
  RequestsFinish
  RequiredTransactionCloses
