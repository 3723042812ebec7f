\* A filter that returns normally keeps the dependency closure of the
\* selected importers.
CONSTANTS
  Absent = Absent
  Importers <- MCImporters
  LinkTargets <- MCLinkTargets
  PkgPaths <- MCPkgPaths
  LinkDepPaths = {}
  Lockfiles <- MCLockfiles
  Selections <- MCSelections
  Include <- AllIncluded
  FailOnMissing = FALSE
  IncludeIncompatible = FALSE
SPECIFICATION Spec
INVARIANT PackagesAreClosure
