\* A client cancels the thread once, at any point.
CONSTANTS
  m1 = m1
  m2 = m2
  Msgs = {m1, m2}
  MaxTurns = 1
  MaxAttempts = 2
  Survivors = FALSE
  Interleaves = TRUE
  Cancels = {"client"}
SPECIFICATION Spec
INVARIANTS ThreadInv RowsShow
CHECK_DEADLOCK FALSE
