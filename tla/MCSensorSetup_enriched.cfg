\* Sensors that have an enrichment object.
CONSTANTS
  NULL = NULL
  Configs <- EnrichedConfigs
SPECIFICATION MCSpec
INVARIANTS
  SensorOutlivesConfig
