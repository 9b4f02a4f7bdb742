CONSTANTS
  None = None
  Absent = Absent
SPECIFICATION Spec
PROPERTIES
  RolloutEnds RoomIsTaken EnvironmentsFollowRefs EntryIsStudied EveryReplicaTrusted
  EventuallyServed ReadyExpires DeletionCompletes
CHECK_DEADLOCK FALSE
