CONSTANTS
  Users = {u1, u2}
  Workspaces = {w1, w2}
  Slugs = {a, b}
  Spaces = {s1}
  Tags = {x, y}
  Slots = {r1, r2}
  Modes = {"accept", "login", "register"}
  MaxRequests = 4
  MaxTokens = 2
SPECIFICATION Spec
INVARIANTS
  TypeOK
  DefaultIsOwn
  DeletedWorkspaceRefused
PROPERTIES
  ImplementsDirectory
  DeletedStaysDeleted
SYMMETRY Symmetric
CHECK_DEADLOCK FALSE
