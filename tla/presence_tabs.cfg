SPECIFICATION Spec
CONSTANTS
    a1 = a1  a2 = a2  b1 = b1
    alice = alice  bob = bob  nobody = nobody
    Consumer = Consumer
    Conn <- TwoTabs
    User <- People
    UserOf <- TwoTabsUser
    Notifiers <- TwoTabsNotifiers
    Wide = {}
    Ways = {"listed"}
    Slow = {}
    Failing = {}
    Expiring = {}
    MaxCrashes = 0
INVARIANTS TypeOK ConnectedIsOnline NotifiedInOrder
CHECK_DEADLOCK FALSE
