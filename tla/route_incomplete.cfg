CONSTANTS
  Devices = {4, 5}
  Ports = {0, 1}
  Addr <- Bus
  Sources = {}
  Removers = {remover}
  Stimuli = {"report"}
SPECIFICATION Spec
INVARIANTS RouteIsComplete
