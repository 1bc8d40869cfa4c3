CONSTANTS
    RxSlots = 3
    MaxFrames = 5
    FrameBufferMax = 4
    FrameKinds <- MC_GoodOnly

SPECIFICATION Spec

INVARIANTS
    RxBufferInBounds
