\* After the destructor nothing runs.
CONSTANTS
  a1 = a1
  a2 = a2
  Power = power_thread
  Cec = cec_thread
  Dtor = dtor_thread
  NoThread = none
  Api = {a1, a2}
  PowerModes = {"ON", "DEEP_SLEEP"}
  Stimuli = {"start", "disable", "unplug", "destroy", "enable", "throw"}
SPECIFICATION FairSpec
INVARIANTS StatusMeansConnection
PROPERTIES SignalledStateIsRead ExitIsServed DisableCompletes
CHECK_DEADLOCK FALSE
