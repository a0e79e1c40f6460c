SPECIFICATION FairSpec
CONSTANTS
  Rules = {1, 2}
  Events = {e1}
  Cooldowns = {0}
  Workers = {w1, w2}
  NoEvent = NoEvent
  MaxRetries = 1
  MaxTime = 0
  MaxFaults = 2
PROPERTIES
  PipelineDrains
  TriggersAreMailed
CHECK_DEADLOCK FALSE
