CONSTANTS
  Keys = {"VOLUME"}
  QueueBound = 3
  Resetters = {remover}
  Stimuli = {"report", "toggle", "sleep", "destroy", "reset"}
SPECIFICATION FairSpec
INVARIANTS TypeOK ReceivedIsUpdated OnlyClearStrands
PROPERTIES QueueIsServed VolumeIsFollowed KeyThreadEnds
CHECK_DEADLOCK FALSE
