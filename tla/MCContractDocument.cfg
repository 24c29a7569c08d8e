SPECIFICATION DocumentSpec
CONSTANTS
    Name = {"definitions", "liability", "fees", "scope"}
    LibraryOrder <- TitleOrders
    MaxSections = 3
CHECK_DEADLOCK FALSE
INVARIANT BespokeStaysPut
