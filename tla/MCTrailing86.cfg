SPECIFICATION Spec
CONSTANTS
  Families <- MCFamilies
INVARIANTS JoinedToFollowing86
CHECK_DEADLOCK FALSE
