\* The two Rust ports of Poseidon on pairs of words of two hexadecimal
\* digits, round by round.  A hash that is complete takes no further step.
SPECIFICATION Spec
CONSTANTS
    Words <- words
    Scalar <- scalar
    PalletDigits <- palletDigits
INVARIANT PortsAgree
CHECK_DEADLOCK FALSE
