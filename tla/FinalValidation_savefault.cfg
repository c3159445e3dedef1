\* Two invocations; any step that can raise may raise.
CONSTANTS
    MaxRuns = 2
    AllowException = TRUE
    AllowInterrupt = FALSE
    NoFile = NoFile
    Torn = Torn
SPECIFICATION Spec
INVARIANT VerdictAgreesWithExit
