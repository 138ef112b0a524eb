\* Sources of up to ten characters; short strings, numbers and characters; limbs of four bits, doubles of
\* three, code points to 5 and machine integers to 7.
SPECIFICATION Spec
CONSTANTS
    Texts = {"t"}
    Contents = {"t"}
    Sources <- AllSources
    Bodies <- AllBodies
    Numerals <- AllNumbers
    Literals <- AllLiterals
    Characters <- AllCharacters
    LimbBits = 4
    Precision = 3
    MaxExponent = 5
    ChunkDigits = 2
    Cap = 14
    Surrogates = {3}
    MaxPoint = 5
    IntMax = 7
    Points = {0, 1, 2, 3, 4, 5, 6, 7, 8}
    SpeltBits = 4
    MinExp <- SmallestExp
    MaxExp = 6
    PlainDigits = 2
    PlainZeros = 1
    Places = 3
INVARIANTS LexerKeepsPromise NothingSwallowed DocCommentsRefusedBetweenTokens
    DecodesRuns ScansLiterals KeepsTheNumber ExactOrSpelt
    ScaledWhereAPowerHolds PortsAgreeIn32Bits SpeltButPowersOfTwo
CHECK_DEADLOCK FALSE
