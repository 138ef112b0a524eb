\* Every hexadecimal float of two digits, whatever its scale.
SPECIFICATION Spec
CONSTANTS
    LimbBits = 4
    Precision = 3
    MaxExponent = 4
    ChunkDigits = 2
    Cap = 14
    Literals <- HexFloats
INVARIANTS Scaled
CHECK_DEADLOCK FALSE
