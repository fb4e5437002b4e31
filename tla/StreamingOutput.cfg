\* A Secret of two runes, a window of three, deltas of at most two and one of four.
CONSTANTS
    Rune <- Runes
    Deltas <- SomeDeltas
    Secret <- TwoS
    Noted <- OneN
    SecretAction = "block"
    WindowLimit = 3
    CollectLimit = 5
    MaxFrames = 5
SPECIFICATION Spec
INVARIANTS
    TypeOK
    SecretNotDelivered
    DeliveredIsCollected
    PartialIsTold
    EventReflectsText
CHECK_DEADLOCK FALSE
