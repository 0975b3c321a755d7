SPECIFICATION Spec
CONSTANTS
  Plugins = {reflect}
  Char <- MCChar
  CommandLines <- MCCommandLines
  PathSets <- MCPathSets
  FolderOf <- MCFolderOf
  NameOf <- MCNameOf
  NoExtension <- MCNoExtension
  MaxOptions = 2
INVARIANTS
  EndToEnd
  NoFileWithoutPlugins
  
  OnlyOptionNamesMissing
  HandedOverWhole
PROPERTIES
  LifecycleKept
  ContractKept
