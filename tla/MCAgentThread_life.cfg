\* Two runs of up to two turns, each tried twice; the cancel signal may come.
CONSTANTS
  m1 = m1
  m2 = m2
  Msgs = {m1, m2}
  MaxTurns = 2
  MaxAttempts = 2
  Survivors = FALSE
  Interleaves = TRUE
  Cancels = {"signal"}
SPECIFICATION FairSpec
INVARIANTS ThreadInv StoredInOrder OneAnswerPerTurn
PROPERTIES ThreadRests
CHECK_DEADLOCK FALSE
