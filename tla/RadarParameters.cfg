SPECIFICATION ParametersFairSpec
CONSTANTS
  Settings = {1, 2}
  NearHold = 2
  NobodyHold = 1
  Stale = 1
  Commands = {"rear enable"}
  MaxFrames = 1
  MaxFaults = 0
  MaxCrashes = 1
  MaxLosses = 1
INVARIANTS ParametersTypeOK
PROPERTIES ParametersAsAsked RequestFollowsTarget
