SPECIFICATION ModSpec
CONSTANTS
    Mods = {"a", "b", "d"}
    MethodsOf <- MCMethodsOf
    Declared <- MCDeclared
    ManualIds = {2}
    MaxAdds = 3
CONSTRAINT
    ModuleExplore
INVARIANT
    ServiceApiKept
CHECK_DEADLOCK FALSE
