SPECIFICATION FairSpec
CONSTANTS
  Signatures = {a, b}
  Windows = {0, 1, 2, 3}
  MaxIterations = 6
  MaxCost = 1
  Dearest = 1
  Deadline = 1
INVARIANTS OvershootsOneReply NoThirdInWindow GivesUpWhenStuck
PROPERTY Terminates
CHECK_DEADLOCK FALSE
