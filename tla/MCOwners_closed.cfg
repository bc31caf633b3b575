\* A request that closes the channel it names, or all of its session.
CONSTANTS
  Kinds = {"server"}
  Comps = {0, 1}
  Images <- MCImages
  MaxCalls = 3
  Files <- MCFiles
  Names = {"a", "b", "gone"}
  Views <- MCViews
  MaxChannels = 3
  MaxSessions = 2
  Nil = Nil
  None = None
  Threads = {"t1", "t2", "t3"}
  Conds = {"c1", "c2"}
  Mutexes = {"m1", "m2"}
  MutexOf <- MCMutexOf
SPECIFICATION MCSpec
CHECK_DEADLOCK FALSE
INVARIANT AnswerHasChannel
