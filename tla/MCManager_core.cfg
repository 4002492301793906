SPECIFICATION ManagerSpec
SYMMETRY MCSymmetry
CONSTANTS
  adc = adc
  dac = dac
  p1 = p1
  p2 = p2
  a1 = a1
  a2 = a2
  a3 = a3
  NULL = NULL
  Cuddl = cuddl
  DriverOf <- MCDriverOf
  Drivers = {adc, dac}
  Group <- MCGroup
  Name <- MCName
  ConfiguredInstance <- MCConfiguredInstance
  ResName <- MCResName
  Shared <- MCShared
  Ids <- MCIds
  CUDDLK_MAX_DEV_MEM_REGIONS = 1
  CUDDLK_MAX_DEV_EVENTS = 1
  Devs = {adc, dac}
  Procs = {p1, p2}
  Addrs = {a1, a2, a3}
  OwnerOf <- MCOwnerSet
  CUDDLK_MAX_MANAGED_DEVICES = 2
  MaxClaims = 2
  Allowed = {"any_order"}
INVARIANTS
  RefCountExact
  PinsExact
  TokensNameTheirDevice
  Exclusive
  HeldIsClaimed
  CleanUpFindsDevices
  ClaimsAccountedFor
  NoClaimOutlivesItsProcess
PROPERTY ImplementsClaims
