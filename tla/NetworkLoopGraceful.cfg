SPECIFICATION Spec
CONSTANTS
  Threads = {main, other}
  Main = main
  MaxPosted = 2
INVARIANTS GracefulHonoured
CHECK_DEADLOCK FALSE
