\* Four lines of four kinds through a buffer of three, two words to search.
CONSTANTS
    MaxLines = 3
    Words = {"a", "b"}
    Kinds <- MCKinds
    MaxArrivals = 4
SPECIFICATION Spec
INVARIANTS TypeOK LinesAreKept CounterIsTheMark
PROPERTIES CursorStays
