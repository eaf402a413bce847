CONSTANTS
    Regs = {a, b}
    Width = 12
    Values = {0, 9, 10, 2047}
    MaxList = 3
    Inputs <- Lists
    Commas <- PlainCommas
    Probes = {0, 10, 11, 2047}
    Chars = {"{", "}", ",", "ws", "1", "9", "x"}
    MaxText = 6
SPECIFICATION Spec
INVARIANTS Canonical RoundTrip ScansGrammar
PROPERTIES ImplementsSets
