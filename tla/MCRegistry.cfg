SPECIFICATION Spec
CONSTANTS
  Names <- AgentNames
  Specs <- AgentSpecs
  Missing = Missing
  Broken = Broken
  Garbled = Garbled
  NoSpec = NoSpec
  Files = {1, 2}
  MaxEdits = 3
  MaxStarts = 1
  MaxChains = 1
INVARIANTS TypeOK RegistryAgrees RefusedOnlyIfMoved
PROPERTY RegistrySettles
CHECK_DEADLOCK FALSE
