SPECIFICATION Spec
CONSTANTS
  Rules = {1}
  Events = {e1, e2}
  Cooldowns = {0, 1}
  Workers = {w1, w2}
  NoEvent = NoEvent
  MaxRetries = 1
  MaxTime = 2
  MaxFaults = 2
INVARIANTS
  TypeOK
  OneTriggerPerEvent
  LockProtectsChecks
  HooksRunOnceInOrder
PROPERTIES
  CooldownHonoured
  ImplementsLedger
SYMMETRY Symmetry
CHECK_DEADLOCK FALSE
