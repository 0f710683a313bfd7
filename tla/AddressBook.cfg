CONSTANTS
    Adders = {"a", "b", "c"}
    Old = "old"
    Nobody = "nobody"
    Size <- Sizes
SPECIFICATION Spec
PROPERTIES
    ApartNothingTwice
    KeepsEveryone
CHECK_DEADLOCK FALSE
