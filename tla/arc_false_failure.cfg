CONSTANTS
  a1 = a1
  a2 = a2
  Api = {a1}
  Power = power_thread
  Cec = cec_thread
  Dtor = dtor_thread
  NoThread = none
  PowerModes = {"ON"}
  Stimuli = {"start", "InitiateArc"}
SPECIFICATION Spec
PROPERTIES FailureIsTrue
