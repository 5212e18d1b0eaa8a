SPECIFICATION FairSpec
CONSTANTS
  v1 = v1  v2 = v2
  Instances = {v1, v2}
  MAXINFOS = 2
CHECK_DEADLOCK FALSE
INVARIANTS TypeOK CrashOnlyUnready PlaysOnce EndIsQueued
PROPERTIES ViewSpec EndsWithPlayer
