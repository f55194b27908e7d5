SPECIFICATION FairSpec
CONSTANTS
    a1 = a1  a2 = a2  b1 = b1  c1 = c1
    alice = alice  bob = bob  carol = carol
    room = room  hall = hall
    Conn <- OneEach
    User <- People
    Conv = {room, hall}
    UserOf <- OneEachUser
    ConvOf <- OneEachConv
    Member <- Members
    Frames = {"typing"}
    Garbling = {}
    Ways = {"reset"}
    Slow = {}
    MaxMsgs = 0
    MaxEvents = 1
PROPERTIES FailedWriterRemoved
CHECK_DEADLOCK FALSE
