CONSTANTS
  Forgots = {f1, f2}
  Resets = {r1, r2}
  Processes = {p1, p2}
  Tokens = {t1, t2}
  Passwords = {a, b}
  Lifetime = 1
  MaxTime = 1
  CacheFaults = FALSE
SPECIFICATION Spec
INVARIANTS
  TypeOK
  ExpiredLinkRefused
  ConsumedLinkRefused
  UnusedLinkKept
SYMMETRY Symmetric
CHECK_DEADLOCK FALSE
