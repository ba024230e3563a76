CONSTANTS
    Descriptors <- MCDescriptors
    Int32Max = 0
    BitsPerByte = 2
    MaxSamples = 2
SPECIFICATION Spec
INVARIANTS OfferedIsWhole CsvIsFaithful ContentNeverRefused
