SPECIFICATION FairSpec
CONSTANTS
  Projects = {"p", "q"}
  Posted <- MCPosted
  Emailed = {"q"}
  Bucket = 2
  Day = 4
  Retention = 10
  Longest = 2
  Threshold = 1
  Multiplier = 2
  Cooldowns = {0, 1}
  BatchSize = 1
  MaxRetries = 1
  Start = 11
  MaxTime = 12
  MaxBeats = 2
  MaxTasks = 6
  MaxFaults = 1
  NoProject = NoProject
INVARIANTS
  SpikesAreSpaced
  CleanupExact
  SummariesMatchTheirDay
  MailRepeatsOnlyWhenLost
PROPERTIES
  JobsEnd
  SpikesAreReported
CHECK_DEADLOCK FALSE
