SPECIFICATION FairSpec
CONSTANTS
  Capacity = 2
  Leads = FALSE
  MaxChanges = 4
PROPERTIES RoutesFollow
CHECK_DEADLOCK FALSE
