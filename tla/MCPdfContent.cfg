CONSTANTS
  Colours = {red}
  Black = black
  Patterns = {p}
  PageFonts = {F1}
  OtherFonts = {F3}
  Type3 = {F3}
  m1 = m1
  m2 = m2
  Groups = {m1, m2}
  Forms <- SomeForms
  Looks <- LooksOwn
  Repertoires <- Repertoire
  MaxPages = 2
  MaxOps = 5
  None = None
SPECIFICATION Spec
INVARIANT DrawnAsInForce
INVARIANT ScopesClose
CHECK_DEADLOCK FALSE
