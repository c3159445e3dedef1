\* Functions whose body sits on the signature line.
CONSTANTS
    FnName = {"stop", "other"}
    Styles = {"multi", "oneline"}
    MaxFns = 2
    MaxRuns = 2
SPECIFICATION Spec
INVARIANT OkInsertedWhereNeeded
