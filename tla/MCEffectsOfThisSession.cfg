CONSTANTS
  Modules <- MCModules
  Packages <- MCPackages
  Core = "core"
  Entry = "core:main"
  NamespaceOf <- MCNamespaceOf
  Sessions = {"A"}
  Graphs <- OneGraph
  Sections = {}
  Registries = 1
  MaxStarts = 2
  MaxEffects = 2
  NoModule = NoModule
SPECIFICATION Spec
INVARIANT EffectsOfThisSession
CHECK_DEADLOCK FALSE
