CONSTANTS
  Docs <- MadeDocs
  Addresses = {low, high}
  Backends = {"light", "thor"}
  LightVG = {"light"}
  Blend2D = {}
  Reads <- MadeReads
  Embedded <- MadeEmbedded
  OnDisk <- MadeOnDisk
  Blobs <- MadeBlobs
  MaxOpens = 2
  MaxBlobs = 2
SYMMETRY Symmetry
SPECIFICATION Spec
CHECK_DEADLOCK FALSE
INVARIANTS OwnFaces SubstitutesSound SubstitutesAgree
