SPECIFICATION FairSpec
CONSTANT Families = {f1, f2}
INVARIANT MutexIsExact
INVARIANT FamilyBoardsTogether
PROPERTY JoinAfterBoarding
CHECK_DEADLOCK FALSE
