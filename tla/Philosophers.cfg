CONSTANT N = 4
SPECIFICATION FairSpec
INVARIANTS TypeOK NeighboursExclude NoMissedGrant NoLostWakeup
PROPERTIES MealsGoOn ShutdownCompletes ImplementsForks
