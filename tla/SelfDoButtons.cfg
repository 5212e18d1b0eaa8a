SPECIFICATION FairSpec
CONSTANTS
  j1 = j1  m1 = m1  m2 = m2
  Jobs = {j1}
  Callers = {"main", j1}
  MacJobs = {m1, m2}
  Habits = {{"start", "chmod"}, {"adb", "mac"}, {"routemac", "adb"}, {"start", "ill", "aw_led_standby"}}
  PIPE = 1
  Loads <- MCLoads
  MAXQUEUE = 1
CHECK_DEADLOCK FALSE
INVARIANTS TypeOK WholeResult DownOnlyIfCut
PROPERTIES RunnerSpec CallsEnd JobsAreShown
