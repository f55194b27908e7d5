SPECIFICATION Spec
CONSTANTS
    a1 = a1  a2 = a2  b1 = b1  c1 = c1
    alice = alice  bob = bob  carol = carol
    room = room  hall = hall
    Conn <- TwoTabs
    User <- People
    Conv = {room, hall}
    UserOf <- TwoTabsUser
    ConvOf <- TwoTabsConv
    Member <- Members
    Frames = {"send"}
    Garbling = {b1}
    Ways = {"listed"}
    Slow = {}
    MaxMsgs = 1
    MaxEvents = 1
SYMMETRY Tabs
INVARIANTS TypeOK HubSound LoneStaysRegistered
PROPERTIES OnlyOwnUserUnregisters HeldHubStandsStill ImplementsFanout
CHECK_DEADLOCK FALSE
