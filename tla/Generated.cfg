CONSTANTS
    CharBits = 2
    ShortBits = 3
    IntBits = 4
    LongBits = 5
    NW = 2
    NC = 2
    MaxCalls = 3
    Classes <- MCClasses
    Methods <- MCMethods
SPECIFICATION Spec
INVARIANTS RefsBalanced NoFault  OwnedOnce RegistryLive CalledOnce NothingLeaks IntegersExact
CHECK_DEADLOCK FALSE
