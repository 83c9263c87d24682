SPECIFICATION Spec
CONSTANTS
  Size <- MCSize
  Checked <- MCChecked
  Lines <- MCLines
  MaxFaults = 3
  Hz = 100
  Longest <- MCLongest
  MaxReadings = 3
INVARIANTS TypeOK TypedIsStored RunsAsStored NearlyFresh
PROPERTY BootsUnattended
CHECK_DEADLOCK FALSE
