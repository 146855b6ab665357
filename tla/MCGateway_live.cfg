SPECIFICATION ReportingSpec
CONSTANTS
  d1 = d1
  g1 = g1
  h1 = h1
  h2 = h2
  p1 = p1
  Device = {d1}
  Proc = {p1}
  DeviceOf <- MCDeviceOf
  Replica = {g1}
  Handler = {h1}
  ReplicaOf <- MCReplicaOf
  DefaultInterval = 1
  HintConst = 1
  StaleMultiplier = 1
  Sent = {"stopped"}
  Takes <- MCTakes
  Flaky = {d1}
  MaxRestarts = 0
  MaxErrors = 1
  MaxChurn = 1
  MaxFaults = 1
PROPERTIES
  ReportingReconnects
  StaysConnected
  SilentDisconnected
