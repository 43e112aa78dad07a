SPECIFICATION FairSpec
CONSTANTS
  Capacity = 1
  Leads = TRUE
  MaxChanges = 4
INVARIANTS TypeOK StaleIsAnnounced
PROPERTIES RoutesFollow FiltersFollow
CHECK_DEADLOCK FALSE
