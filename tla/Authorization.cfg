SPECIFICATION Spec
CONSTANTS
    MaxCalls = 2
    Licences <- ValidAndNot
    Now = 1
INVARIANTS
    TypeOK
    FeaturesFollowState
    ReactorOutlivesCall
    ActiveReactorLives
PROPERTIES
    StopSilences
