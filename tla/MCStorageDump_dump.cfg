SPECIFICATION Spec
CONSTANTS
    Keys <- SmallKeys
    Values <- SmallValues
    Cells <- SomeCells
    Widths <- NarrowAndWide
INVARIANTS RoundTrip TornRefused FormatExact
