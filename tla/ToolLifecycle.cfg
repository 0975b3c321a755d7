SPECIFICATION Spec
CONSTANTS
  Plugins = {reflect, squarets}
INVARIANTS
  TypeOK
  TornDownInsideOut
  CallbacksReachLiveObjects
  UnloadFindsNothing
  DanglingOnlyWhereKnown
  PluginsUnloadedIffMainReturns
  FailsBeforeAnyEvent
  GeneratedIntoCwd
PROPERTIES
  FollowsProtocol
