SPECIFICATION FairSpec
CONSTANTS
    a1 = a1  a2 = a2  b1 = b1
    alice = alice  bob = bob  nobody = nobody
    Consumer = Consumer
    Conn <- OneEach
    User <- People
    UserOf <- OneEachUser
    Notifiers <- OneWayNotifiers
    Wide = {}
    Ways = {"listed", "unlisted", "eof", "reset"}
    Slow = {a1}
    Failing = {}
    Expiring = {alice, bob}
    MaxCrashes = 0
INVARIANTS StatusesAgree
PROPERTIES DepartureEndsOffline ConsumerCatchesUp
CHECK_DEADLOCK FALSE
