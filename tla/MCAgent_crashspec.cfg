SPECIFICATION FairSpec
CONSTANTS
  Key = {"k1"}
  UnitText = {"unit a", "unit b"}
  EnvText = {"env a", "env c"}
  ProcessSpec = {"a", "b"}
  UnitOf <- MCUnitOf
  EnvOf <- MCEnvOf
  Class <- MCClass
  FaultKinds = {"crash"}
  MaxFaults = 1
  MaxChanges = 1
PROPERTIES
  ConvergesAfterCrash
