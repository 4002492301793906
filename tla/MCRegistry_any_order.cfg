SPECIFICATION RegistrySpec
SYMMETRY MCSymmetry
CONSTANTS
  d1 = d1
  d2 = d2
  d3 = d3
  d4 = d4
  timer = timer
  NULL = NULL
  Devs <- MCDevs
  Drivers <- MCDevs
  DriverOf <- MCDriverOf
  Group <- MCGroup
  Name <- MCName
  ConfiguredInstance <- MCConfiguredInstance
  ResName <- MCResName
  Populated <- MCPopulated
  Numeral <- MCNumeral
  CUDDLK_MAX_MANAGED_DEVICES = 3
  CUDDLK_MAX_DEV_MEM_REGIONS = 2
  CUDDLK_MAX_DEV_EVENTS = 1
  Allowed = {"any_order"}
INVARIANT InstancesUnique
