SPECIFICATION Spec
CONSTANTS
  qa = qa
  dev = dev
  Hops <- MCHops
  BedrockHops <- MCBedrockHops
  Discovering <- MCDiscovering
  Sla <- MCSla
  Slots = 1
  MaxAttempts = 2
  DiscoveryTicks = 1
  MaxChunks = 2
INVARIANTS
  TypeOK
  SlotsConserved
  OnlyCheckedOutputsLeave
  WaitBounded
PROPERTY
  HopsEnd
CHECK_DEADLOCK FALSE
