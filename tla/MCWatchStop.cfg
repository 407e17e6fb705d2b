SPECIFICATION Spec
CONSTANTS
    Writes = {"valid"}
    MaxEvents = 2
    MaxErrors = 0
    MaxClears = 0
PROPERTIES
    StopClosesChannels
CHECK_DEADLOCK FALSE
