CONSTANTS
  Threads = {t1, t2}
  Streams = {1, 2, 3, 4, 5, 6, 7, 8}
  Bare = {4}
  Malformed = {6}
  Broken = {5}
  Fax = {1, 7}
  Dictionary <- MCDictionary
  Globals <- MCGlobals
  Requests <- MCRequests
  Capacities = {0, 2}
  DefaultCapacity = 2
  Absent = Absent
  None = None
  Pending = Pending
SPECIFICATION Spec
INVARIANTS CacheSound
PROPERTIES EvictsOldest IsAFunction
