SPECIFICATION FairSpec
CONSTANTS
  b1 = b1
  b2 = b2
  b3 = b3
  None = None
  Worker = {w1, w2}
  Block = {b1, b2, b3}
  deps <- MCdeps
  Worthy = {b1, b2, b3}
  Valid = {b1, b2}
  MaxAnnounce = 2
  MaxLost = 1
INVARIANTS NoDuplicate ChainClosed BufferAgrees NoLostWakeup
PROPERTY AnnouncedIsProcessed
CHECK_DEADLOCK FALSE
