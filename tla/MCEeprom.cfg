SPECIFICATION Spec
CONSTANTS
    LogicalSize = 8
    BackingSize = 32
    Writes <- SomeWrites
    OutsideByte = 0
    Instances <- AllStores
    MaxCalls = 4
INVARIANTS TypeOK LockDiscipline LossIsReported
PROPERTIES IsEeprom
