SPECIFICATION FairSpec
CONSTANTS
  f = f
  g = g
  Instances = {i1, i2}
  Last = 2
  Files = {f, g}
  NoFile = NoFile
  Images <- MCImages
  Pools = {1, 2}
  NoInstance = NoInstance
INVARIANT TypeOK RunOnce SerialisedByLock ReadyIsMigrated
PROPERTY StartReturns SignalStops
CHECK_DEADLOCK FALSE
