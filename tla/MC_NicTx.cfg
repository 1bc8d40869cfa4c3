CONSTANTS
    cpu = cpu
    isr = isr
    NoFrame = NoFrame
    TxSlots = 16
    MaxSends = 34
    Callers <- MC_OneCaller

SPECIFICATION Spec

INVARIANTS
    TypeOK
    TxWireSound
