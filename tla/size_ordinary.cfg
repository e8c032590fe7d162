SPECIFICATION Spec
CONSTANTS
    SizeBits = 10
    UnsignedBits = 8
    HeaderBytes = 16
    AlignTo = 16
    MaxBytes = 64
    Nums <- MCNums
    LargestSize = 224
INVARIANTS LeastBlock BinsAgree CallocExact
