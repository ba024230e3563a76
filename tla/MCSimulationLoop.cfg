CONSTANTS
    Channels = {1, 2, 3}
    NPhysical = 2
    InvalidLimit = 2
    Outputs = {o1, o2}
    Steps = 3
    MaxFrames = 3
    MaxVirtual = 1
    StepNs = 2
    U64Max = 6
SPECIFICATION Spec
INVARIANTS GridAccounting NoBurst LatenessAccounting StepUsesLastValid
           ProtectionExact
 
