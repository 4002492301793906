SPECIFICATION ClientsSpec
SYMMETRY MCSymmetry
CONSTANTS
  adc = adc
  dac = dac
  p1 = p1
  p2 = p2
  mem1 = mem1
  event1 = event1
  mem2 = mem2
  n0 = n0
  n1 = n1
  NULL = NULL
  Devs = {adc, dac}
  Drivers = {adc, dac}
  DriverOf <- MCDriverOf
  Group <- MCGroup
  Name <- MCName
  ConfiguredInstance <- MCConfiguredInstance
  ResName <- MCResName
  Populated <- MCPopulated
  Numeral <- MCNumeral
  Shared <- MCShared
  Procs = {p1, p2}
  Objects <- MCObjects
  ProcOf <- MCProcOf
  KindOf <- MCKindOf
  Ids <- MCIds
  Options <- MCOptions
  Questions <- MCQuestions
  Minors = {n0, n1}
  MaxClaims = 1
  MaxLost = 1
  CUDDLK_MAX_MANAGED_DEVICES = 2
  CUDDLK_MAX_DEV_MEM_REGIONS = 1
  CUDDLK_MAX_DEV_EVENTS = 1
  Allowed = {"any_order"}
INVARIANTS
  ClientsTypeOK
  ClaimsHaveOwners
  ExclusiveUse
  MapsWhatItClaimed
  OpenFilesKeepTheirDevice
  TokensStayGood
  MatchIsAnswered
  FailureUndoesWhatWasDone
