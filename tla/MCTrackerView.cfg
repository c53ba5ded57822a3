SPECIFICATION FairSpec
CONSTANTS
    MaxCats = 2
    PageLimit = 2
    FieldsAgree = TRUE
    MaxPolls = 2
    MaxRows = 3
    MaxVisits = 2
    MaxFailures = 1
INVARIANTS
    OwnPollsOnly
PROPERTIES
    AnswersAreLatest
    Converges
