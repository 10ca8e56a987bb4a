SPECIFICATION Spec
CONSTANTS
    Resolution = 4
    Uses <- SomeUses
    MaxPulses = 12
INVARIANTS NoExtraEvents 
PROPERTIES TurnIsSeen
