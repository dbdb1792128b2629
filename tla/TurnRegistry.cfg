SPECIFICATION FairSpec
CONSTANTS
  t1 = t1  t2 = t2  o1 = o1  th = th
  Turn = {t1, t2}
  Op = {o1}
  Thread = {th}
  Stopper = {s1}
  NoTurn = NoTurn
  Owner <- MCOwner
  ThreadOf <- MCThreadOf
INVARIANT OneLiveTurn
PROPERTY EntryOutlivesOlderTurns
PROPERTY StoppedBlockEnds
CHECK_DEADLOCK FALSE
