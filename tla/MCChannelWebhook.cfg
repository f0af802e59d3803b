CONSTANTS
  MaxJobs = 2
  Payloads = {"m1", "m2", "m3"}
  Workers = {w1, w2}
  Attempts = 2
  MaxStalls = 1
  Notifications = {n1}
  Changes <- MCChanges
  MaxSends = 2
SPECIFICATION Spec
INVARIANTS
  TypeOK
  ConfirmedIsQueued
  QueuedOncePerDelivery
PROPERTIES
  ImplementsDelivery
  JobsSettle
CHECK_DEADLOCK FALSE
