SPECIFICATION FairSpec
CONSTANTS
    MaxCalls = 2
    Licences = {}
    Now = 1
PROPERTIES
    Reconnects
    Exits
