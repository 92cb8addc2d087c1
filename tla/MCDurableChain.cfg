SPECIFICATION Spec
CONSTANTS
  c1 = c1
  c2 = c2
  w1 = w1
  w2 = w2
  w3 = w3
  NoWorker = NoWorker
  NoKey = NoKey
  NoChain = NoChain
  Chains <- MCChains
  Workers <- MCWorkers
  HopKinds <- MCHopKinds
  MaxHops = 3
  MaxCrashes = 1
INVARIANTS
  TypeOK
  OneHopAtATime
  OneOutputPerHopWithoutCrash
  NoRefreshAfterFailure
PROPERTIES
  KeepsPromise
  ChainSettles
CHECK_DEADLOCK FALSE
