SPECIFICATION Spec
CONSTANTS
    Values <- MCValues
    First <- MCFirst
    Kind <- MCKind
    Size <- MCSize
    DeltaSize <- MCDeltaSize
    Percent = 90
    MaxVersion = 6
INVARIANTS UpdatesSinceGap ClientRebuilds SizesExact
