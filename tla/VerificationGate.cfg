SPECIFICATION GateSpec
CONSTANT MaxFound = 5
INVARIANT GateConsistent
