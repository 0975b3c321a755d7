SPECIFICATION Spec
CONSTANTS
  Name <- MCName
  MinInt <- MCMinInt
  MaxInt <- MCMaxInt
  CommandLines <- MCCommandLines
INVARIANT TracingStarts
