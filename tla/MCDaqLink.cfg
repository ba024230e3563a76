CONSTANT MaxWire = 2
SPECIFICATION Spec
INVARIANTS BaselineFirst StopConfirmedHolds NothingLeftToSend
