\* Two processes and an installed adapter, whose runs include those of the
\* InnovateMR path; the interval is below the lease floor.
SPECIFICATION FairSpec
CONSTANTS
  Tasks = {t1, t2}
  Interval = 2
  Floor = 3
  TimeLimit = 3
  Installed = TRUE
  MaxQueue = 2
  MaxRetries = 1
  MaxFaults = 2
INVARIANT ScheduleInv
PROPERTIES NotDueWhileFetching SyncResumes
