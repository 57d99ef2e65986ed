SPECIFICATION Spec
CONSTANTS
  Key = {1, 2, 3}
  Value = {1}
  NULL = NULL
  Hash <- HashOfKeys
  Shifts = 2
  InitSize = 4
  MaxUse = 5
PROPERTIES GrowsWhenLoaded
