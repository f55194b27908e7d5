SPECIFICATION Spec
CONSTANTS
    a1 = a1  a2 = a2  b1 = b1  c1 = c1
    alice = alice  bob = bob  carol = carol
    room = room  hall = hall
    Conn <- TwoTabs
    User <- People
    Conv = {room, hall}
    UserOf <- TwoTabsUser
    ConvOf <- TwoTabsConv
    Member <- Members
    Frames = {}
    Garbling = {}
    Ways = {"listed"}
    Slow = {}
    MaxMsgs = 0
    MaxEvents = 0
PROPERTIES OnlyDisconnectedRemoved
CHECK_DEADLOCK FALSE
