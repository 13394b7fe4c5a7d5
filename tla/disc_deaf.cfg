CONSTANTS
  Devices = {5}
  Items = {"PHYSICAL_ADDRESS"}
  Reported = {}
  MaxRetry = 0
  CountBound = 0
  Stimuli = {"power"}
SPECIFICATION FairSpec
PROPERTIES ListensOnceAwake
