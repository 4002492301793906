SPECIFICATION EventsFairSpec
CONSTANTS
  adc = adc
  t1 = t1
  t2 = t2
  NULL = NULL
  Devs = {adc}
  Fds = {3, 5}
  Threads = {t1, t2}
  UsersOf <- MCUsersOf
  CountMod = 2
  MaxStale = 1
  Maskable = {}
  Custom = {adc}
INVARIANT NoEventLost
PROPERTY EventReachesWaiter
CHECK_DEADLOCK FALSE
