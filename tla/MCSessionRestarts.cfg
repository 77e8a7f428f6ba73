CONSTANTS
  Modules <- MCModules
  Packages <- MCPackages
  Core = "core"
  Entry = "core:main"
  NamespaceOf <- MCNamespaceOf
  Sessions = {"A", "B"}
  Graphs <- OneGraph
  Sections = {}
  Registries = 1
  MaxStarts = 2
  MaxEffects = 2
  NoModule = NoModule
SPECIFICATION Spec
INVARIANTS CountIsExact EffectsInOrder
PROPERTIES ImplementsSingleVm StartReturns
CHECK_DEADLOCK FALSE
