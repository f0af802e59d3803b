CONSTANTS
  Registers = {g1}
  Logins = {l1}
  Accepts = {a1}
  Verifies = {v1, v2}
  Processes = {p1, p2}
  Tokens = {t1, t2}
  Lifetime = 1
  MaxTime = 1
  CacheFaults = TRUE
SPECIFICATION Spec
INVARIANTS
  TypeOK
  OneAccountPerAddress
  UnverifiedOnlyInvited
  LateLinkRefused
  NewestLinkKept
SYMMETRY Symmetric
CHECK_DEADLOCK FALSE
