\* 2 workers are enough for a sleeper, a thief and a join order; 3 jobs so
\* that the list holds more than the workers can take.
CONSTANTS
  Jobs = {j1, j2, j3}
  NoJob = NoJob
  Cpus = 2
  MinSize = 2
  MaxSize = 4
SPECIFICATION FairSpec
INVARIANT FreedMeansDrained
PROPERTIES KeepsPromise AcceptedJobsRun DestroyReturns
\* An unloaded module does nothing more.
CHECK_DEADLOCK FALSE
