SPECIFICATION FairSpec
CONSTANTS
    a1 = a1  a2 = a2  b1 = b1
    alice = alice  bob = bob
    plan = plan  sketch = sketch
    Conn = {a1, a2, b1}
    User = {alice, bob}
    Conv = {plan, sketch}
    UserOf <- BoardUser
    ConvOf <- Board
    Ways = {"listed"}
    Slow = {a1}
    MaxEvents = 1
INVARIANTS TypeOK
PROPERTIES ImplementsFanout CompletedShutdownClosed SecondSignalExits
CHECK_DEADLOCK FALSE
