CONSTANTS
  Devices = {5}
  Items = {"PHYSICAL_ADDRESS"}
  Reported = {}
  MaxRetry = 0
  CountBound = 2
  Stimuli = {"appear", "plug"}
SPECIFICATION Spec
INVARIANTS CountIsRight
