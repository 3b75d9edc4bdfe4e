SPECIFICATION Spec
CONSTANTS
  MaxPid = 4
  MaxExceptions = 11
INVARIANTS
  TypeOK
  EachProcessOnce
  SwitchIsBetweenOwners
  ResumesWhereItLeft
PROPERTIES
  NoOvertaking
  RefinesRoundRobin
