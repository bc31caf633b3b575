\* Two workers, two jobs, fair threads; no waiting-list item fails.
SPECIFICATION FairSpec
CONSTANTS
  MaxThreads = 2
  j1 = j1
  j2 = j2
  j3 = j3
  NoJob = NoJob
  Jobs <- MCJobs2
  MaxRemaining = {0, 1}
  QueueFactor = 0
  Faults = {"thread", "job"}
  MaxSpurious = 1
PROPERTIES
  CallsReturn
  ImplementsFairJobPool
