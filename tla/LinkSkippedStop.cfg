CONSTANT MaxWire = 2
SPECIFICATION Spec
INVARIANT SkippedStopIsDisabled
