CONSTANTS
    MaxKex = 8
    Conditions <- Renegotiation
SPECIFICATION Spec
PROPERTIES
    RenegotiationProceeds
CHECK_DEADLOCK FALSE
