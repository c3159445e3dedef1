\* Two invocations on a file of up to two multi-line functions.
CONSTANTS
    FnName = {"stop", "cleanup_sessions", "other"}
    Styles = {"multi"}
    MaxFns = 2
    MaxRuns = 2
SPECIFICATION Spec
INVARIANT TypeOK
INVARIANT OkInsertedWhereNeeded
