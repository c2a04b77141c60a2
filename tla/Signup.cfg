SPECIFICATION FairSpec
CONSTANTS
  c1 = c1
  c2 = c2
  Calls = {c1, c2}
  Wants <- Rivals
  Uses = 1
  Orders <- Batches
  INVITES = 4
  Leavers = {c1}
  Late = {c1}
  MaxFaults = 1
  MaxCrashes = 1
INVARIANTS SpentOnce DirectoryAgrees RefusedLeavesNothing
PROPERTY EverySignupEnds
CHECK_DEADLOCK FALSE
