SPECIFICATION LiveSpec
PROPERTIES
  NoGivingAfterDeletion
  EveryRequestEnds
  EveryMailSettles
  EveryEventSettles
  WorkerComesRound
CHECK_DEADLOCK FALSE
