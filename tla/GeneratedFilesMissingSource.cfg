SPECIFICATION Spec
CONSTANTS
  Dir <- MCDir
  Name <- MCName
  NoExtension <- MCNoExtension
  SourceLists <- MCSourceLists
  InitialFiles <- MCInitialFiles
  MaxRuns = 1
INVARIANT SourcesFound
