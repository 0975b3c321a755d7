SPECIFICATION Spec
CONSTANTS
  Char <- MCChar
  CommandLines <- MCCommandLines
  PathSets <- MCPathSets
  MaxOptions = 2
INVARIANTS
  TypeOK
  ClangArgsComplete
  ClingMirrorsClang
  InterpreterArgsDashed
  FlagsReachInterpreter
  AbortsExactlyOnFatal
PROPERTY Terminates
