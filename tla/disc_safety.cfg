CONSTANTS
  Devices = {5}
  Items = {"PHYSICAL_ADDRESS", "OSD_NAME"}
  Reported = {"PHYSICAL_ADDRESS", "OSD_NAME"}
  MaxRetry = 1
  CountBound = 0
  Stimuli = {"appear", "abort", "plug", "hotplug", "disable", "no_address", "throw"}
SPECIFICATION Spec
INVARIANTS TypeOK 
PROPERTIES OnlyLateStepsFillAbsent
