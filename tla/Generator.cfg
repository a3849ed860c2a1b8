SPECIFICATION Spec
CONSTANTS
    Catalogues <- MCCatalogues
    Calls <- MCCalls
    Spelled <- MCSpelled
    Handlers = {TRUE, FALSE}
    MaxCalls = 6
CHECK_DEADLOCK FALSE
INVARIANTS
    
    HelperCompiles
    OverloadsReachable
    SecondBaseRewrapped
    
    FitsItsBases
    NamesResolve
    TypesUnderstood
