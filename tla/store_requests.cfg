SPECIFICATION RestSpec
CONSTANTS
    alice = alice  bob = bob  carol = carol  mail = mail  post = post
    pw1 = pw1  pw2 = pw2  ann = ann  lee = lee  kim = kim  png = png
    c1 = c1  c2 = c2  c3 = c3  w1 = w1  w2 = w2  g1 = g1  g2 = g2  g3 = g3  g4 = g4  g5 = g5  g6 = g6
    l1 = l1  l2 = l2  p1 = p1  p2 = p2  n1 = n1  n2 = n2
    s1 = s1  s2 = s2  s3 = s3  h1 = h1  h2 = h2  h3 = h3  h4 = h4  h5 = h5
    User = {alice, bob, carol}
    Email = {mail, post}
    Password = {pw1, pw2}
    Name = {ann, lee, kim}
    Ext = {png}
    Nil = Nil
    Req = {c1, c2, c3, w1, w2, g1, g2, g3, g4, g5, g6, l1, l2, p1, p2, n1, n2, s1, s2, s3, h1, h2, h3, h4, h5}
    Asked <- MCAsked
    Faulty = {c2, w2, g2, p2, n2, s2, l2}
    Repeatable = {2}
    Loads <- MCLoads
    Lifetime = 2
    MaxSecond = 2
    MaxSize = 2
INVARIANTS RestTypeOK
    SecondRequestCreatesNothing EveryMemberHasADrawn OneAccountPerEmail AnswerHasTheTwo
    PhotoIsStored NothingLost AnswerIsNotOlder WhoRegisteredLogsIn
    PagesMissNothing ConversationAfterItsMessages
PROPERTIES PhotoChangesWithRow
