SPECIFICATION Spec
CONSTANTS
    MaxCalls = 1
    Licences <- ValidAndNot
    Now = 1
INVARIANTS
    OnlineRestoresFeatures
