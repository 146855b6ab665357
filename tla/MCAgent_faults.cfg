SPECIFICATION Spec
CONSTANTS
  Key = {"k1"}
  UnitText = {"unit a", "unit b"}
  EnvText = {"env a", "env c"}
  ProcessSpec = {"a", "b", "c", "bad", "foreign"}
  UnitOf <- MCUnitOf
  EnvOf <- MCEnvOf
  Class <- MCClass
  FaultKinds = {"artifact", "write", "reload", "start", "show", "stop", "remove", "persist", "report", "exit", "crash", "reboot", "load", "death"}
  MaxFaults = 2
  MaxChanges = 2
INVARIANTS
  TypeOK
  RunsWhatItReports
  UnitsTracked
