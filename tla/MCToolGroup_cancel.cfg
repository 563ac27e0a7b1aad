CONSTANTS
  c1 = c1
  c2 = c2
  Calls = {c1, c2}
  Answers = {"yes"}
  Writers = {"workflow", "client"}
  AtomicAppend = TRUE
  RetrySafe = {}
  Verdicts <- OneExecuteOneAsk
  MaxAttempts = 1
  MaxFaults = 1
  StoreFails = {}
  Cancels = {"client"}
SPECIFICATION FairSpec
INVARIANTS TranscriptAgrees OneMessageEach
PROPERTIES KeepsPromise GroupEnds
CHECK_DEADLOCK FALSE
