CONSTANTS
    RxSlots = 3
    MaxFrames = 5
    FrameBufferMax = 2
    FrameKinds <- MC_AnyKind

SPECIFICATION Spec

INVARIANTS
    TypeOK
    RxRingOwnership
    RxDeliveredInOrder
    RxNoFrameLost

PROPERTY
    RxImplementsChannel
