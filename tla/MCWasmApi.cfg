CONSTANTS
  Viewed = {"a", "b"}
  PageCount <- Pages12
  Places = {1, 2}
  Kinds = {"light", "thor"}
  PageAsked = {1, 2, 3}
  Sizes = {0, 1, 2}
  Dpis = {0, 72, 144}
  Large = {144}
  Sources = {"a", "b"}
  SourcePages <- Pages12
  Images = {"seal"}
  Notes = {"note"}
  Fields = {"f1", "f2"}
  Values = {"x", "y"}
  MaxDocs = 2
  MaxAdded = 3
  MaxAnnots = 2
  MaxExports = 2
  MaxStamps = 1
  MaxSets = 2
  Opened = {"a", "b"}
  Flows = {1, 2}
SPECIFICATION MCSpec
CHECK_DEADLOCK FALSE
INVARIANTS ApiSound ShownIsAsked AnnotationsFollowPages ExportShowsMeant FormSavesAccepted FilesAreTheFlows NoSignatureTwice
