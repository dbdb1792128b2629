SPECIFICATION FairSpec
CONSTANTS
  t1 = t1  t2 = t2
  Turn = {t1, t2}
  Tab = {tab}
  NoTurn = NoTurn
  MaxCancels = 1
  MaxFaults = 1
INVARIANT NoStuckLoading
PROPERTY StoppedTurnEnds
CHECK_DEADLOCK FALSE
