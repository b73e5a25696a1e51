SPECIFICATION AuthzSpec
CONSTANTS
    Snapshots = {"wide", "narrow", "bad", "garbled"}
    Garbled = "garbled"
    RolesOf <- MCRolesOf
    BindingsOf <- MCBindingsOf
    ServiceTypes = {"game", "gate"}
    Targets <- MCTargets
    FailOpen = FALSE
    LoadTimeout = TRUE
    MaxEdits = 3
    MaxLocal = 1
    MaxBreaks = 1
CONSTRAINT
    PolicyExplore
PROPERTY
    PolicyConverges
CHECK_DEADLOCK FALSE
