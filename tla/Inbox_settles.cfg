SPECIFICATION FairSpec
CONSTANTS
  m1 = m1  m2 = m2  l1 = l1  l2 = l2  NONE = NONE
  Msg = {m1, m2}
  Lane = {l1}
  Expirable = {}
  Denied = {}
  Pausable = {}
  Handled = {m1, m2}
  MaxMessages = 2
  MaxStarts = 1
PROPERTIES
  RoutedSettles
  ExecutableRoutes
