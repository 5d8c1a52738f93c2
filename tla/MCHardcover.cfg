SPECIFICATION FairSpec
CONSTANTS
  Callers = {queue, page}
  Tokens = {t1, t2}
  NoToken = NoToken
  NoSave = NoSave
  Free = Free
  Interval = 2
INVARIANTS NewTokenIsUsed RateIsKept
PROPERTY EveryoneIsServed
