SPECIFICATION LibrarySpec
CONSTANTS
    Clause = {n1, n2, s1}
    NDA = {n1, n2}
    Position = {1, 2}
    MaxVersion = 2
INVARIANT LibraryReadable
