\* Two invocations, interrupts allowed, saving may fail.
CONSTANTS
    MaxRuns = 2
    AllowException = TRUE
    AllowInterrupt = TRUE
    NoFile = NoFile
    Torn = Torn
SPECIFICATION Spec
INVARIANT TypeOK VerdictTrustworthy
PROPERTY ImplementsVerdict
