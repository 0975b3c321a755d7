SPECIFICATION Spec
CONSTANTS
  Char <- MCChar
  CommandLines <- MCCommandLines
  PathSets <- MCPathSets
  MaxOptions = 1
INVARIANT SomeExtraArg
