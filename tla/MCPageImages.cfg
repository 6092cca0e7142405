CONSTANTS
  Docs = {"a", "b"}
  Objects = {1, 2, 3, 4, 5}
  Contents <- MCContents
  Pages <- MCPages
  Tiles = {"whole", "torn"}
  Masked = {4}
  Direct = {3}
  Short = {5}
  Threads = {u, v}
  u = u
  v = v
  MaxPages = 3
  None = None
SPECIFICATION Spec
CHECK_DEADLOCK FALSE
INVARIANTS ShowsWhatWasAsked NothingLeaks
PROPERTIES PagesEnd
