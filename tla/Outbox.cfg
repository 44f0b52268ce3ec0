\* Two channels, two replies, a crash and one fault more: an operator's retry, a
\* forgotten nonce or an abandoned sender.
SPECIFICATION Spec
CONSTANTS
    Streams = {s1, s2}
    MaxRows = 2
    MaxChunks = 2
    MaxAttempts = 2
    ClaimLimit = 2
    MaxCrashes = 1
    MaxRetries = 1
    MaxForgets = 1
    MaxAbandons = 1
    MaxFaults = 1
CONSTRAINT FewFaults
SYMMETRY StreamSymmetry
INVARIANTS InOrder TypeOK SenderOwnsRow DeliveredWhole NoDuplicate
PROPERTIES ImplementsReplies
CHECK_DEADLOCK FALSE
