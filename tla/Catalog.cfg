SPECIFICATION Spec
CONSTANTS
  Tags = {1, 2, 3}
  Unnamed <- MCUnnamed
  BaseName <- MCBaseName
  Lower <- MCLower
  Share <- MCShare
  TagFolders = TRUE
  UnsortedName <- MCUnsorted
  Added <- MCAdded
  PageSize = 1
  Docs = {1, 2, 3}
  InitialDocs <- MCInitial
  InitialNames <- MCNames
  NewTags <- MCNewTags
  Renames <- MCRenames
  MaxEdits = 2
INVARIANTS TypeOK HiddenOnlyByName NamesOpenTheirOwn GrowingWalkMissesNothing FacetTellsTheCount ServesWhatItShowed
