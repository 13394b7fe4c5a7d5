CONSTANTS
  Devices = {5}
  Items = {"PHYSICAL_ADDRESS", "POWER_STATUS"}
  Reported = {"PHYSICAL_ADDRESS"}
  MaxRetry = 1
  CountBound = 0
  Stimuli = {"abort", "plug", "power", "disable", "throw", "ping_error"}
SPECIFICATION FairSpec
PROPERTIES Discovery StaleIsRemoved JoinCompletes
