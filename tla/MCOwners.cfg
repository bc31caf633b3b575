\* Three calls on a codec; two sessions with two channels, or three; three threads
\* on two conditions.
CONSTANTS
  Kinds = {"buffers", "server", "channels", "conditions"}
  Comps = {0, 1}
  Images <- MCImages
  MaxCalls = 3
  Files <- MCFiles
  Names = {"a", "b", "gone"}
  Views <- MCViews
  MaxChannels = 3
  MaxSessions = 2
  Nil = Nil
  None = None
  Threads = {"t1", "t2", "t3"}
  Conds = {"c1", "c2"}
  Mutexes = {"m1", "m2"}
  MutexOf <- MCMutexOf
SPECIFICATION MCSpec
CHECK_DEADLOCK FALSE
INVARIANT BuffersSound
INVARIANT ServerSound
INVARIANT AnswersSound
INVARIANT WaitersWoken
PROPERTY ImplementsCondVar
