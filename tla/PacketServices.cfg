SPECIFICATION ServicesSpec
CONSTANTS
    First <- AllMessages
    Later <- SomeMessages
    MaxMessages = 2
    Size = 50
    HashCount = 3
    SignBit = 128
    Training <- RegularRows
    K = 3
    Scale = 100
INVARIANTS AddressesStayApart NoFalseNegative NearestRowsDecide
CHECK_DEADLOCK FALSE
