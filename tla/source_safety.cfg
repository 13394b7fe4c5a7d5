CONSTANTS
  Devices = {4, 5}
  Ports = {0}
  Addr <- Bus
  Sources = {4}
  Removers = {remover}
  Stimuli = {"announce", "withdraw", "request", "report", "remove", "unplug", "claim", "route", "power", "disable"}
SPECIFICATION Spec
INVARIANTS TypeOK OnlyAnnouncedSources StandbySourceWakes RouteLeadsThroughParents
PROPERTIES ImplementsTopology
