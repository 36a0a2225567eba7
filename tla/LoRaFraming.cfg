CONSTANTS
  Base = 2
  Text = 1
  MaxPayloadSize = 3
  MaxFramePayloadSize = 3
  MaxFrames = 3
  MaxLost = 2
SPECIFICATION Spec
INVARIANTS IInv InOrder IntactFound RoomToRead NothingStuck
CHECK_DEADLOCK FALSE
