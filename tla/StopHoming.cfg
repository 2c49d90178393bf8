SPECIFICATION FairSpec
PROPERTIES EstopStopsHoming
CHECK_DEADLOCK FALSE
