SPECIFICATION FairSpec
CONSTANTS
    a = a
    b = b
    Ends <- MCEnds
    Questions <- MCQuestions
    PktUnits = 2
    DATA_MAX = 2
    Chunks = {0, 3}
    MaxRequests = 1
    MaxFaults = 1
INVARIANTS TypeOK HeardIsSaid OnlyGreetingDropped ResponsesTile
PROPERTIES QuestionsAnswered FarewellFollowed
