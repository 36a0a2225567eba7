CONSTANTS
  Conns = {c1, c2}
  NoConn = NoConn
  QueueCap = 2
  MaxCommands = 2
  MaxAbandoned = 2
  MaxRestarts = 1
  Unmarshalable = {}
  Oversized = {1}
SPECIFICATION FairSpec
INVARIANT AckSound
PROPERTIES RefinesChannel DeliveredWhileLinkGood HandlersEnd
