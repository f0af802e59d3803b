CONSTANTS
  MaxContact = 3
  Existing <- MCExisting
  Values = {1, 2}
  Updates <- MCUpdates
  Writers = {w1, w2}
  Mapped = {"first_name"}
  Own = {"lead"}
  Options = {"x", "y"}
  Edits <- MCEdits
  Editors = {e1, e2}
  Walkers = {v1}
  Limits = {1, 2}
  Sorts <- MCSorts
  Filters <- MCFilters
  Leading = {1}
  Includes <- MCIncludes
  MaxRequests = 2
SPECIFICATION Spec
INVARIANTS
  TypeOK
  BasicWalkComplete
  NumberWalkComplete
PROPERTIES
  ChangesAsSent
  DeletedStaysDeleted
SYMMETRY Symmetric
CHECK_DEADLOCK FALSE
