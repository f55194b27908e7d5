SPECIFICATION Spec
CONSTANTS
    alice = alice  bob = bob  c1 = c1  w1 = w1  w2 = w2
    User = {alice, bob}
    Email = {}
    Password = {}
    Name = {}
    Ext = {}
    Nil = Nil
    Req = {c1, w1, w2}
    Asked <- RaceAsked
    Faulty = {}
    Repeatable = {}
    Loads <- Race
INVARIANTS OneWhiteboardPerConversation
