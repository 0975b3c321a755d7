SPECIFICATION Spec
CONSTANTS
  Name <- MCName
  MinInt <- MCMinInt
  MaxInt <- MCMaxInt
  CommandLines <- MCCommandLines
INVARIANTS
  TypeOK
  RefusesExactly
  NearestThreads
  TwoBases
  OneOutDir
  ClangOptionsPassThrough
