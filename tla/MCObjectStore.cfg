CONSTANTS
  MaxObject = 9
  DataSize = 9
  Objects = {1, 2, 3, 4}
  Offsets = {1, 2, 3}
  None = None
  Files <- AllFiles
  Threads = {t1, t2}
  StreamOf <- MCStreamOf
  Undecodable = {3}
  Large = {4}
  Capacities = {0, 2}
  DefaultCapacity = 2
  Early = {2}
SPECIFICATION Spec
INVARIANTS StoreSound AsAlone
PROPERTIES BuiltOnce CallsReturn
