CONSTANTS
  a1 = a1
  a2 = a2
  Api = {a1}
  Power = power_thread
  Cec = cec_thread
  Dtor = dtor_thread
  NoThread = none
  PowerModes = {"ON", "DEEP_SLEEP"}
  Stimuli = {"start", "stop", "enable", "disable", "power", "unplug", "InitiateArc", "TerminateArc", "SystemAudioOff", "throw"}
SPECIFICATION Spec
INVARIANTS TypeOK NoLostSignal
PROPERTIES OnlyStandbyAnswerUnguards OnlyLateAnswerSurvives ImplementsMailbox
