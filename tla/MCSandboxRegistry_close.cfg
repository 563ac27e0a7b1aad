\* The owner opens and closes on w1; w2 attaches; an earlier process may have recorded another spec.
CONSTANTS
  w1 = w1  w2 = w2  s1 = s1  s2 = s2
  Workers = {w1, w2}
  Specs = {s1, s2}
  Opens <- OneSpec
  Attachers = {w2}
  Closers = {w1}
  MaxOpened = 2
  MaxFails = 1
SPECIFICATION FairSpec
INVARIANTS RegistryInv
PROPERTIES RecordKept CloseEnds
