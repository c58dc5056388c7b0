SPECIFICATION Spec
CONSTANTS
    Rows = {1, 2, 3}
    Feeds <- MCFeeds
    Kinds <- MCKinds
    Answers <- MCAnswers
    Keys = {1, 2}
    KeyOf <- MCKeyOf
    Executions = {1, 2}
    MaxFaults = 2
INVARIANTS
    RecordedMeansPublished
    UpsertConverges

    
