CONSTANTS
    WordBits = 1
    NumDistillers = 1
    Distillers <- MCDistillers
    Packets <- MCPackets
    MaxSize = 4
    Sizes = {2, 4}
    Ticks = {0, 2}
    US_CLK_CNT = 1
SPECIFICATION FairSpec
INVARIANTS
    FrameHasEvent
    FrameLengthBounded
PROPERTIES
    LossesCountedExceptByTick
    ImplementsLossyFifo
    Drains
