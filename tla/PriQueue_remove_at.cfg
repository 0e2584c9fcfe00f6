CONSTANTS
    a = a  b = b  c = c
    Elements <- ThreeElements
    Priority <- TwoLevels
    FirstInt <- DifferentInts
    MaxNodes = 4
    RemovesLast = TRUE
SPECIFICATION Spec
INVARIANT SizeExact
