SPECIFICATION Spec
CONSTANTS
  m1 = m1  m2 = m2  l1 = l1  l2 = l2  NONE = NONE
  Msg = {m1, m2}
  Lane = {l1, l2}
  Expirable = {m1}
  Denied = {m2}
  Pausable = {m1}
  Handled = {m1, m2}
  MaxMessages = 2
  MaxStarts = 2
INVARIANTS
  TypeOK
  WorkWasAllowed
  RoutedHasTask
  DeliveredForCause
