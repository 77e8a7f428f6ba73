CONSTANTS
  Modules <- MCModules
  Packages <- MCPackages
  Core = "core"
  Entry = "core:main"
  NamespaceOf <- MCNamespaceOf
  Sessions = {"A"}
  Graphs <- MCGraphs
  Sections = {"player"}
  Registries = 2
  MaxStarts = 1
  MaxEffects = 0
  NoModule = NoModule
SPECIFICATION Spec
INVARIANTS GraphLoadsWhenSound DependencyOrder RunningIsWhole PhasesAreBarriers
CHECK_DEADLOCK FALSE
