SPECIFICATION Spec
CONSTANTS
    Contents <- SomeTexts
    TagTexts <- SomeTagTexts
    Ids = {"h1"}
    Lower <- OneUpper
    Orders <- SomeOrders
    Times = {3, 12}
    IntRange = 16
    MaxTags = 2
    MaxItems = 2
    Strings = 6
    JsonStrings = 20
    Indices = 2
    Items = 4
INVARIANTS StringsIntact ReadAsSent KnownIsStored
