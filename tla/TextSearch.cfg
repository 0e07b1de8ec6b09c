SPECIFICATION Spec
CONSTANTS
    Contents <- MCContents
    Times = {1, 6, 17}
    MaxNotes = 3
    Queries <- MCQueries
    Filters <- MCFilters
    Limits = {1, 3}
    MaxWords = 3
    MaxResults = 2
    Longest = 5
    SearchRoom = 8
    IntRange = 8
    LongRange = 32
    Int32Max = 1000
    Names <- MCNames
    MaxProfiles = 2
    NameRoom = 3
    Pubkeys = {1, 2}
INVARIANTS ResultsSound NewestFound PeopleFound
