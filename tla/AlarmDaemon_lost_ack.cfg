SPECIFICATION FairSpec
CONSTANTS
  NearHold = 1
  NobodyHold = 1
  Stale = 1
  Commands = {"rear status"}
  MaxFrames = 1
  MaxFaults = 0
  MaxCrashes = 0
  MaxLosses = 1
PROPERTIES LoopKeepsTurning
