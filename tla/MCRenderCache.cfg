CONSTANTS
  Keys = {k1, k2, k3}
  Values = {"small", "medium", "large"}
  Bytes <- MCBytes
  Limits = {0, 3, 5}
  NoValue = NoValue
  DefaultLimit = 5
SPECIFICATION Spec
INVARIANTS Consistent
PROPERTIES EvictionIsLRU IsForgetfulMap
