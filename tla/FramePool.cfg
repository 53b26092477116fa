CONSTANTS
  Threads = {t1, t2}
  Blocks = {b1, b2, b3}
  NoBlock = NoBlock
SPECIFICATION PoolSpec
INVARIANT OneFramePerBlock
CHECK_DEADLOCK FALSE
