SPECIFICATION MCFairSpec
CONSTANTS
  u1 = u1
  u2 = u2
  t1 = t1
  t2 = t2
  Hello = Hello
  Users = {u1, u2}
  Targets = {t1, t2}
  MaxPending = 2
  MaxWrites = 3
  MaxReads = 2
  Faults = {"token", "break", "finish", "refuse", "restart", "switch", "kill"}
INVARIANTS WriteTypes WatchTypes WritesSound WatchSound PipelineIsFull AnswersFit NoneLost
PROPERTIES ImplementsQueue AnswerIsOwn ReadsAnswered
CHECK_DEADLOCK FALSE
