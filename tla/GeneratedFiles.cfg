SPECIFICATION Spec
CONSTANTS
  Dir <- MCDir
  Name <- MCName
  NoExtension <- MCNoExtension
  SourceLists <- MCSourceLists
  InitialFiles <- MCInitialFiles
  MaxRuns = 2
INVARIANTS
  TypeOK
  NameTellsProvenance
  SavedIsWhole
  Reproducible
