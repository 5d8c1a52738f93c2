SPECIFICATION Spec
CONSTANTS
  e1 = e1
  Books <- OneBook
  Dated <- None
  Endpoints = {e1}
  NoEndpoint = none
  Task = task
  Pages = {}
  Savers = {s1}
  AtFirst <- Both
  Forms <- StaysOn
  MaxSaves = 1
  MaxBoots = 1
  MaxFails = 0
  Editors = {ed}
  BatchSize = 2
  MaxEdits = 1
  MaxResets = 1
INVARIANTS
  TypeOK
PROPERTIES
  ClaimIsFinal
  TypedDateStays
CHECK_DEADLOCK FALSE
