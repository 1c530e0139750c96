\* Three instances that may have different sizes, over every database they may find.  The system
\* may stop: when all of them serve and there is no fault left.
SPECIFICATION FairSpec
CONSTANTS
  Instances = {i1, i2, i3}
  Sizes = {0, 1, 2}
  Old = Old
  MaxOld = 2
  MaxFaults = 1
INVARIANTS StartupInv HallIsWhole ServesReady
PROPERTIES HallSettles SomebodyServes ImplementsHall
CHECK_DEADLOCK FALSE
