\* A queue of three elements, two of them of the same priority, offered four times in
\* all; a deque whose capacities 0 to 3 grow to 2, 4 and 6 while three elements come and
\* go at both ends.
CONSTANTS
    a = a  b = b  c = c
    Elements <- ThreeElements
    Priority <- TwoLevels
    FirstInt <- DifferentInts
    MaxNodes = 4
    RemovesLast = FALSE
    DequeElements = {1, 2}
    InitCaps = {0, 1, 2, 3}
    MaxLength = 3
SPECIFICATION ContainersSpec
INVARIANTS
    TypeOK
    WellLinked
    DequeTypeOK
PROPERTIES
    ImplementsPriorityList
    ImplementsDeque
