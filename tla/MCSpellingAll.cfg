\* Doubles of four bits between 1/128 and 960, plain between 0.1 and 100.
SPECIFICATION Spec
CONSTANTS
    Precision = 4
    MinExp <- SmallestExp
    MaxExp = 6
    PlainDigits = 2
    PlainZeros = 1
    Places = 3
INVARIANT SpeltAsJavaScript
CHECK_DEADLOCK FALSE
