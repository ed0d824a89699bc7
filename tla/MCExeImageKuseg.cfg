SPECIFICATION Spec
CONSTANTS
    Word = 128
    Window = 16
    Kseg0 = 64
    Kseg1 = 80
    RoStart = 74
    HeaderSize = 3
    Addresses <- MCAddresses
    Sizes <- MCSizes
    FileSizes <- MCFileSizes
INVARIANT
    OverlapIsLeftToBios
CHECK_DEADLOCK FALSE
