CONSTANTS
  Users = {u1, u2}
  Workspaces = {w1}
  Slugs = {a}
  Spaces = {s1}
  Tags = {x}
  Slots = {r1}
  Modes = {"accept"}
  MaxRequests = 4
  MaxTokens = 1
SPECIFICATION Spec
INVARIANT AcceptedInviteeJoins
CHECK_DEADLOCK FALSE
