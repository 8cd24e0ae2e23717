CONSTANTS
  position = position
  velocity = velocity
  Fields = {position, velocity}
  MaxPush = 3
SPECIFICATION FairSpec
INVARIANTS NoDataRace NewestWholeFrame PushIsWaitFree NewDataIsKept PeekReturnsUnread
PROPERTIES ImplementsLatestValue LastFrameArrives
