SPECIFICATION Spec
CONSTANTS
    m1 = m1
    m2 = m2
    Messages <- MCMessages
    Size <- MCSize
    HeaderSize = 2
    BufferSize = 2
CHECK_DEADLOCK FALSE
INVARIANTS DeliveredIntact
PROPERTY WrittenIsDelivered
