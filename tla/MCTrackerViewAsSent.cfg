SPECIFICATION FairSpec
CONSTANTS
    MaxCats = 2
    PageLimit = 2
    FieldsAgree = FALSE
    MaxPolls = 2
    MaxRows = 3
    MaxVisits = 1
    MaxFailures = 0
PROPERTY
    Converges
