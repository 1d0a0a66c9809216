SPECIFICATION Spec
CONSTANTS
  Profiles <- TwoProfiles
  DefaultProfile <- OwnProfile
  DeepInterval = 2
  Configs <- FiveConfigs
  AssignedIds = {2}
  DerivedId = 7
  Steps = {1, 3}
  MaxClock = 4
  MaxTime = 2
  MaxCalls = 4
INVARIANTS TypeOK OneIdentity JoiningCanFinish StoppedStaysOut SleepIsReal PhaseTold
PROPERTIES EachJoinAnnounced
CHECK_DEADLOCK FALSE
