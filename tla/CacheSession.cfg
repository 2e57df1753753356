SPECIFICATION FairSpec
CONSTANTS
    Sessions = {"s1", "s2"}
    Procs = {"p1", "p2"}
    Recipes = {"r1", "r2", "r3"}
    Adopters = {"r1"}
    HomeOf <- MCHomeOf
    MarkerOf <- MCMarkerOf
    ArtifactOf <- MCArtifactOf
    StepsOf <- MCStepsOf
    Requiring = {"r1"}
    MaxCrashes = 2
    None = None
INVARIANT TypeOK HitsAreWhole NeverAdoptsFailed LockCoversOwned
PROPERTY PrepareEnds
