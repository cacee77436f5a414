SPECIFICATION FairSpec
CONSTANTS
  Threads = {main, other}
  Main = main
  MaxPosted = 2
INVARIANTS FIFO NoLostWakeup FinalOnce
PROPERTIES CloseCompletes WaitersReturn Destroyed
CHECK_DEADLOCK FALSE
