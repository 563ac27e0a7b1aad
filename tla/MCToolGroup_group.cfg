CONSTANTS
  c1 = c1
  c2 = c2
  Calls = {c1, c2}
  Answers = {"yes", "no"}
  Writers = {"workflow", "client"}
  AtomicAppend = FALSE
  RetrySafe = {c2}
  Verdicts <- Either
  MaxAttempts = 2
  MaxFaults = 2
  StoreFails = {c1}
  Cancels = {"signal"}
SPECIFICATION Spec
INVARIANTS GroupInv BodyEnteredOnce FirstAnswerWins StopIsStored
PROPERTIES SettledForever
CHECK_DEADLOCK FALSE
