CONSTANTS
    Bits = 4
    Word = 16
SPECIFICATION CurrencySpec
INVARIANTS
    MulExact
