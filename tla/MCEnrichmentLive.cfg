SPECIFICATION FairSpec
CONSTANTS
  e1 = e1
  Books <- OneBook
  Dated <- None
  Endpoints = {e1}
  NoEndpoint = none
  Task = task
  Pages = {}
  Savers = {}
  AtFirst <- Both
  Forms <- StaysOn
  MaxSaves = 0
  MaxBoots = 2
  MaxFails = 1
  Editors = {}
  BatchSize = 2
  MaxEdits = 0
  MaxResets = 1
PROPERTIES
  EveryBookIsDecided
  StaleIsRefreshed
CHECK_DEADLOCK FALSE
