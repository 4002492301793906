SPECIFICATION ManagerSpec
SYMMETRY MCSymmetry
CONSTANTS
  adc = adc
  dac = dac
  p1 = p1
  p2 = p2
  a1 = a1
  a2 = a2
  a3 = a3
  NULL = NULL
  Cuddl = cuddl
  DriverOf <- MCDriverOf
  Drivers = {adc, dac}
  Group <- MCGroup
  Name <- MCName
  ConfiguredInstance <- MCConfiguredInstance
  ResName <- MCResName
  Shared <- MCShared
  Ids <- MCIds
  CUDDLK_MAX_DEV_MEM_REGIONS = 1
  CUDDLK_MAX_DEV_EVENTS = 0
  Devs = {adc, dac}
  Procs = {p1, p2}
  Addrs = {a1, a2}
  OwnerOf <- MCOwnerSet
  CUDDLK_MAX_MANAGED_DEVICES = 1
  MaxClaims = 1
  Allowed = {"any_order", "stale_struct", "stray_release", "decrement_by_id", "info_fault", "late_calls", "claim_going", "fork", "no_janitor"}
CHECK_DEADLOCK FALSE
INVARIANTS
  NoPhantomClaims
  ManagerTypeOK
PROPERTY ClaimsLeaveByOwnerOnly
