SPECIFICATION EventsSpec
CONSTANTS
  adc = adc
  t1 = t1
  t2 = t2
  NULL = NULL
  Devs = {adc}
  Fds = {3, 4}
  Threads = {t1, t2}
  UsersOf <- MCUsersOf
  CountMod = 2
  MaxStale = 0
  Maskable = {adc}
  Custom = {}
INVARIANTS
  EventsTypeOK
  NoEventLost
  NoPhantomEvent
  QuietUntilEnabled
  TimedCallNeverBlocks
  OpenCountCoversFiles
  RelayHasItsDevice
PROPERTY ImplementsNotices
CHECK_DEADLOCK FALSE
