\* One invocation at a time, no crash, distinct titles: the use the
\* script is written for.
CONSTANTS
    t1 = t1
    t2 = t2
    b1 = b1
    b2 = b2
    p1 = p1
    Title <- MCTitle
    Body <- MCBody
    Proc <- MCProcSerial
    MaxSections = 2
    AllowDupTitles = FALSE
    AllowCrash = FALSE
    NoFile = NoFile
    Corrupt = Corrupt
SPECIFICATION Spec
INVARIANT TypeOK
INVARIANT SnapshotDrift
INVARIANT ReportsAgree
PROPERTY DriftReported
