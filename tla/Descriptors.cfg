SPECIFICATION DescriptorsSpec
CONSTANTS
  Channel = {0, 1}
  Env <- Systems
  RetrainAttempts = 2
  MaxHarvested = 2
  Chips <- MCChips
INVARIANTS
  DiscoveryFindsChips
  DescriptorConsistent
  CoordinatesConsistent
PROPERTIES
  DescriptorSurvives
CHECK_DEADLOCK FALSE
