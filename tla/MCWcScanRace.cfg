SPECIFICATION Spec

CONSTANT Capacity = 4

INVARIANT ReadsFilled
