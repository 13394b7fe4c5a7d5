CONSTANTS
  Keys = {"OTHER"}
  QueueBound = 1
  Resetters = {disabler}
  Stimuli = {}
SPECIFICATION Spec
INVARIANTS NoKeyLeft
