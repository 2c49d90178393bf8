SPECIFICATION FairSpec
INVARIANTS TypeOK StoppedArmIsLimp GainsAreKnown HomesOnlyOnce
PROPERTIES EstopEndsLimp HomeIsServed
CHECK_DEADLOCK FALSE
