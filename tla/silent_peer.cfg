SPECIFICATION LoopSpec
CONSTANTS
  c1 = c1
  c2 = c2
  Conn <- MCConn
  None = None
  BufLen <- MCBufLen
  MapRoom <- MCMapRoom
  PoolRoom <- MCPoolRoom
  KeyCost <- MCKeyCost
  Fields <- MCFields
  Loads <- MCGets
PROPERTY SentIsAnswered
CHECK_DEADLOCK FALSE
