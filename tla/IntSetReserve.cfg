CONSTANTS
    Regs = {a, b}
    Width = 12
    Values = {0, 10}
    MaxList = 3
    Inputs <- Lists
    Commas <- SpacedCommas
    Probes = {0}
    Chars = {}
    MaxText = 0
SPECIFICATION Spec
INVARIANTS BufferHolds
