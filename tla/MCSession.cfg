SPECIFICATION FairSpec
CONSTANTS
    Modules <- MCModules
    Vehicles <- MCVehicles
    BusModules <- MCBusModules
    FaultModels <- MCFaults
INVARIANTS
    TypeOK
    ActuateUnlocked
    OkMeansConnected
    RoutedByProfile
    NoSpuriousBusy
PROPERTY CallCompletes
