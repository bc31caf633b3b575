\* Three workers, three jobs, one spurious wake-up, failing thread and job allocations.
\* The throttle of submit_job is one job per thread instead of a hundred.
SPECIFICATION Spec
CONSTANTS
  MaxThreads = 3
  j1 = j1
  j2 = j2
  j3 = j3
  NoJob = NoJob
  Jobs <- MCJobs
  MaxRemaining <- MCMaxRemaining
  QueueFactor = 1
  Faults = {"thread", "item", "job"}
  MaxSpurious = 1
SYMMETRY JobSymmetry
CHECK_DEADLOCK FALSE
INVARIANTS
  TypeOK
  PendingExact
  WaitListExact
  NoLostWakeup
  WorkConserving
  JobPlacedOnce
  NoUseAfterFree
  QueueBounded
PROPERTIES
  ImplementsJobPool
