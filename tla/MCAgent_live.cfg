SPECIFICATION FairSpec
CONSTANTS
  Key = {"k1"}
  UnitText = {"unit a", "unit b"}
  EnvText = {"env a", "env c"}
  ProcessSpec = {"a", "b", "c", "bad"}
  UnitOf <- MCUnitOf
  EnvOf <- MCEnvOf
  Class <- MCClass
  FaultKinds = {"write", "start", "show", "report", "exit", "crash", "reboot", "load", "death"}
  MaxFaults = 2
  MaxChanges = 2
PROPERTIES
  Converges
  DeletedGone
  KeepsRunning
  SavedDeletedGone
