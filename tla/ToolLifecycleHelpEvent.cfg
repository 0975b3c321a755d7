SPECIFICATION Spec
CONSTANTS
  Plugins = {reflect, squarets}
SYMMETRY PluginSymmetry
INVARIANT VersionMeansVersion
