SPECIFICATION Spec
CONSTANTS
    a1 = a1  a2 = a2  b1 = b1  c1 = c1
    alice = alice  bob = bob  carol = carol
    room = room  hall = hall
    Conn <- OfFriends
    User <- Friends
    Conv = {room, hall}
    UserOf <- FriendsUser
    ConvOf <- FriendsConv
    Member <- FriendsMembers
    Frames = {"send", "seen", "post"}
    Garbling = {}
    Ways = {}
    Slow = {}
    MaxMsgs = 2
    MaxEvents = 2
INVARIANTS DeliveredInOrder BroadcastBacked LoneSenderOrder
CHECK_DEADLOCK FALSE
