\* Three entries of one line, the two best kept: ties, truncation and skips.
CONSTANTS
    CwdDepth = 1
    FileLines <- MCFileLines
    MaxEntries = 3
    MaxLines = 1
    Limit = 2
SPECIFICATION Spec
INVARIANT TypeOK TopTargets
