SPECIFICATION FairSpec
CONSTANTS
  TcpClient = {t1}
  UdpClient = {u1, u2, u3}
  NoClient = NoClient
  InboxSize = 2
PROPERTIES
  Answered
