SPECIFICATION Spec
CONSTANTS
  Tags = {1, 2, 3}
  Unnamed <- MCUnnamed
  BaseName <- MCBaseName
  Lower <- MCLower
  Share <- MCShare
  TagFolders = FALSE
  UnsortedName <- MCUnsorted
  Added <- MCAdded
  PageSize = 1
  Docs = {1, 2}
  InitialDocs <- MCStray
  InitialNames <- MCNames
  NewTags <- MCNewTags
  Renames <- MCRenames
  MaxEdits = 1
PROPERTY FetchesOnlySelected
