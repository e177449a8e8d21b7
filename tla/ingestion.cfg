CONSTANTS
  MaxItems = 4
  MaxTokens = 6
  OverlapTokens = 2
  NoName = NoName
  Names <- MCNames
  Ids <- MCIds
  KeyOf <- MCKeyOf
  Appendix <- MCAppendix
  ExhibitB <- MCExhibitB
  Operators = {o1, o2}
  o1 = o1
  o2 = o2
  Manifest <- MCManifest
  Editions <- MCEditions
  Shelves <- MCShelves
  Content <- MCContent
  Images = {"flow", "graph"}
  GroupBudget = 5
  NoCollection = NoCollection
  NoBuild = NoBuild
  MaxJobs = 3
  MaxEdits = 1
  MaxFaults = 1
SPECIFICATION Spec
SYMMETRY Symmetry
CHECK_DEADLOCK FALSE
INVARIANTS TypeOK ReadingPreserved FiledUnderItsHeading PiecesFit RevisionNamesText VectorsInContext 
