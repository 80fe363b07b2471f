\* the builder API, a relay module and a proxy; a Stop of the API may fail
CONSTANTS
    Modules = {"builderApi", "relay", "externalValidatorProxy"}
    Faulty = {"builderApi", "relay", "externalValidatorProxy"}
    Slow = {"relay"}
    Stubborn = {"builderApi"}
    Interrupts = 1
    Networks <- MCNetworks
    Plain <- MCPlain
    Sources = {"relay", "externalValidatorProxy"}
    Connects = {"relay", "externalValidatorProxy"}
    Name <- MCName
    KnownModules = {"builderApi", "relay", "externalValidatorProxy"}
    Leaving = {}
    Excludable = {"relay", "externalValidatorProxy"}
    Configurations <- MCConfigurations
    Within <- MCWithin
SPECIFICATION FairStartupSpec
INVARIANTS
    StateOfModules
    StartedAreStopped
    NoPanic
    FlagsDecide
    ServerStopped
PROPERTIES
    ShutdownCompletes
    ConfiguredAreConnected
CHECK_DEADLOCK FALSE
