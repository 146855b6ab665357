SPECIFICATION Spec
CONSTANTS
  d1 = d1
  g1 = g1
  h1 = h1
  h2 = h2
  p1 = p1
  Device = {d1}
  Proc = {p1}
  DeviceOf <- MCDeviceOf
  Replica = {g1}
  Handler = {h1, h2}
  ReplicaOf <- MCReplicaOf
  DefaultInterval = 1
  HintConst = 1
  StaleMultiplier = 1
  Sent = {"running", "stopped", "error"}
  Takes <- MCTakes
  Flaky = {}
  MaxRestarts = 1
  MaxErrors = 1
  MaxChurn = 0
  MaxFaults = 1
INVARIANTS
  TypeOK
  PhaseAgrees
  SeenIsBacked
PROPERTIES
  DisconnectKeepsObservation
