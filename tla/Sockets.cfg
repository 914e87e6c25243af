CONSTANTS
  p1 = p1
  p2 = p2
  s1 = s1
  s2 = s2
  s3 = s3
  s4 = s4
  k1 = k1
  ann = ann
  acme = acme
  Nobody = Nobody
  NoScope = NoScope
  Addr = Addr
  Proc = {p1, p2}
  Sock = {s1, s2, s3, s4}
  Cred = {k1}
  Channels <- MCChannels
  Deployments <- MCDeployments
  Leaving = {p2}
  CredOf <- MCCredOf
  Start <- MCStart
  Identity <- MCIdentity
  Pushed <- MCPushed
  Frames <- MCFrames
  Most = 1
  Silent = 1
  MaxAsks <- MCMaxAsks
SPECIFICATION FairSpec
INVARIANTS
  SocketsCounted
  HeardOnceAsMeant
PROPERTIES
  OnlyRightfulStay
  PresenceComesRight
CHECK_DEADLOCK FALSE
