CONSTANTS
    MaxKex = 8
    Conditions <- Mixed
SPECIFICATION Spec
INVARIANTS
    SessionsSound
PROPERTIES
    NoStorm
    KeyAlwaysReturns
CHECK_DEADLOCK FALSE
