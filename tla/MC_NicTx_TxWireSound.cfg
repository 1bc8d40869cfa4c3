CONSTANTS
    cpu = cpu
    isr = isr
    NoFrame = NoFrame
    TxSlots = 3
    MaxSends = 2
    Callers <- MC_TwoCallers

SPECIFICATION Spec

INVARIANTS
    TxWireSound
