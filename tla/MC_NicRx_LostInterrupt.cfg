CONSTANTS
    RxSlots = 3
    MaxFrames = 3
    FrameBufferMax = 8
    FrameKinds <- MC_GoodOnly

SPECIFICATION Spec

PROPERTIES
    RxEventuallyDelivered
