SPECIFICATION FairSpec
CONSTANTS
  c1 = c1
  c2 = c2
  Conn <- MCConn
  None = None
  BufLen <- MCBufLen
  MapRoom <- MCMapRoom
  PoolRoom <- MCPoolRoom
  KeyCost <- MCKeyCost
  Fields <- MCFields
  Loads <- MCLoads
INVARIANTS
  TypeOK
  StreamIntact
  PromptUnderstood
PROPERTIES
  DeathCauses
  SentIsAnswered
\* Peers stop when they have been answered, and the server may have ended.
CHECK_DEADLOCK FALSE
