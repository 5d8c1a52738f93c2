SPECIFICATION ISpec
CONSTANTS
  e1 = e1
  e2 = e2
  Books = {b1}
  Endpoints = {e1}
  NoEndpoint = none
  Task = task
  Pages = {page}
  Savers = {s1}
  AtFirst <- First
  Forms <- Cleared
  MaxSaves = 2
  MaxBoots = 2
  MaxFails = 1
INVARIANTS
  MemoryIsBacked
CHECK_DEADLOCK FALSE
