SPECIFICATION Spec
CONSTANTS
  p1 = p1  p2 = p2  p3 = p3  NONE = NONE
  Service = {p1, p2}
  Console = {p3}
  MaxStarts = 2
  UnlinksOpen = FALSE
  Raises = TRUE
CHECK_DEADLOCK FALSE
PROPERTIES
  ImplementsMutex
