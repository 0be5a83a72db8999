SPECIFICATION Spec
CONSTANTS
  Ids = {t1}
  Limit = 1
  MaxCrashes = 0
  t1 = t1
  None = None
PROPERTIES
  OnlyGoneRemoved
