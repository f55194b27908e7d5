SPECIFICATION Spec
CONSTANTS
    a1 = a1  a2 = a2  b1 = b1
    alice = alice  bob = bob  nobody = nobody
    Consumer = Consumer
    Conn <- OneEach
    User <- Named
    UserOf <- OneEachUser
    Notifiers <- TwiceNotifiers
    Wide = {nobody}
    Ways = {"eof"}
    Slow = {}
    Failing = {"db", "cache", "publish", "list"}
    Expiring = {}
    MaxCrashes = 1
INVARIANTS EntriesListed
CHECK_DEADLOCK FALSE
