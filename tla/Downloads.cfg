SPECIFICATION FairSpec
CONSTANTS
    Jobs = {j1, j2}
    Requests = {r1}
    Losses = 1
INVARIANTS
    TypeOK
    SuccessIsCached
    PathHasFile
PROPERTIES
    TestAudioArrives
