\* Every array of up to three monitors; sensors without one of their keys.
CONSTANTS
  NULL = NULL
  Configs <- PlainConfigs
SPECIFICATION MCSpec
INVARIANTS
  TypeOK
  DependenciesInGroup
  DefinedOperationsResolve
  OwnEnrichmentFreed
