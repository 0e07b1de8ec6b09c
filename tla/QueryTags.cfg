SPECIFICATION Spec
CONSTANTS
    IdBase = 10
    Buffer = 40
    Escaped <- MCEscaped
    Spells <- MCSpells
    Longer = {4, 5}
    UintRange = 20
    Databases <- MCDatabases
    Values <- MCValues
    TagLetters = {1, 2}
    MaxFields = 3
    MaxElems = 2
    Others <- MCOthers
    Capacities = {2, 8}
    MaxScanners = 3
    TextHits <- MCTextHits
    ProfileHits <- MCProfileHits
    Careful = TRUE
INVARIANT
    ResultsMatchAllTags
