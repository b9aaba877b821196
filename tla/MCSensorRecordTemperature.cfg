SPECIFICATION Spec
CONSTANT MaxFaults = 0
INVARIANT TemperatureCurrent
