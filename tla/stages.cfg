SPECIFICATION Spec
INVARIANTS
    TypeOK
    NoTripleFault
    NoNesting
    TicksOnlyAwaited
    InServiceOnlyUntilEoi
PROPERTIES
    PrintsTranscript
    Finishes
