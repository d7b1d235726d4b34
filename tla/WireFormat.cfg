CONSTANTS
    Base = 2
    Symbols = {0, 1}
    Blank = 0
    Values <- MCValues
    CharSize = 2
    MaxElements = 2
SPECIFICATION Spec
PROPERTIES
    ParseRestores
    MergeAgreesWithParse
    AcceptedIffComplete
    PayloadIntact
