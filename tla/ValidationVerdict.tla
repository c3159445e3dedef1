-------------------------- MODULE ValidationVerdict --------------------------
(***************************************************************************)
(* What an invocation of scripts/final_validation.py promises its caller, *)
(* with the tests hidden: once started it settles on a set of passed      *)
(* tests that holds every test whose result is a constant, prints YES     *)
(* exactly when that set is every test, saves a report of that set and   *)
(* exits 0 when it is ready, 1 when not.  An exception may end it before  *)
(* the verdict, or after it and before the report is complete (leaving   *)
(* the old file or a torn one), with status 1, and the exit message may   *)
(* fail with status 1; Ctrl-C ends it at any point with status 130.       *)
(* Module FinalValidation implements it.                                   *)
(***************************************************************************)
EXTENDS Naturals

CONSTANTS
    Test,            \* every test of the four phases
    Unconditional,   \* the tests whose 'passed' is the constant True
    File,            \* the workspace artifacts other processes may change
    MaxRuns,         \* bound on the number of invocations
    AllowException,  \* whether an exception may end an invocation
    AllowInterrupt,  \* whether the user may press Ctrl-C during a run
    NoFile,          \* the report file does not exist
    Torn             \* the report file holds a prefix of a JSON document

VARIABLES
    fs,        \* the artifacts that exist
    stage,     \* "idle", "testing", "printed" or "returned"
    verdict,   \* the set of passed tests the running invocation settled on
    ok,        \* what run_validation returned
    stdout,    \* the PRODUCTION READY line printed: "none", "YES" or "NO"
    report,    \* FINAL_VALIDATION_REPORT.json
    exitCode,  \* the exit status of the last invocation, "none" while running
    runs       \* invocations started so far

avars == <<fs, stage, verdict, ok, stdout, report, exitCode, runs>>

\* The report of a verdict: ready exactly when every test passed.
ReportOf(P) == [ready |-> P = Test, passed |-> P]

Init ==
    /\ fs \in SUBSET File
    /\ stage = "idle"
    /\ verdict = {}
    /\ ok = FALSE
    /\ stdout = "none"
    /\ report = NoFile
    /\ exitCode = "none"
    /\ runs = 0

\* main() starts a validation.
Start ==
    /\ stage = "idle"
    /\ runs < MaxRuns
    /\ stage' = "testing"
    /\ stdout' = "none"
    /\ exitCode' = "none"
    /\ runs' = runs + 1
    /\ UNCHANGED <<fs, verdict, ok, report>>

\* The tests are done and scored: the verdict is printed.
ShowVerdict ==
    /\ stage = "testing"
    /\ \E P \in SUBSET (Test \ Unconditional) : verdict' = Unconditional \cup P
    /\ stdout' = IF verdict' = Test THEN "YES" ELSE "NO"
    /\ stage' = "printed"
    /\ UNCHANGED <<fs, ok, report, exitCode, runs>>

\* The report of the verdict is saved.
Save ==
    /\ stage = "printed"
    /\ report' = ReportOf(verdict)
    /\ ok' = (verdict = Test)
    /\ stage' = "returned"
    /\ UNCHANGED <<fs, verdict, stdout, exitCode, runs>>

\* An exception ends the validation, before the verdict (nothing printed,
\* nothing saved) or after it (a save in progress may leave a torn file).
Fail ==
    /\ AllowException
    /\ stage \in {"testing", "printed"}
    /\ report' \in IF stage = "printed" THEN {report, Torn} ELSE {report}
    /\ ok' = FALSE
    /\ stage' = "returned"
    /\ UNCHANGED <<fs, verdict, stdout, exitCode, runs>>

\* sys.exit with what run_validation returned, or 1 when the message
\* before it raises.
Exit ==
    /\ stage = "returned"
    /\ \/ exitCode' = IF ok THEN "0" ELSE "1"
       \/ AllowException /\ exitCode' = "1"
    /\ stage' = "idle"
    /\ verdict' = {}
    /\ ok' = FALSE
    /\ UNCHANGED <<fs, stdout, report, runs>>

\* Ctrl-C: exit 130; a save in progress may leave a torn file.
Interrupt ==
    /\ AllowInterrupt
    /\ stage # "idle"
    /\ report' \in IF stage = "printed" THEN {report, Torn} ELSE {report}
    /\ exitCode' = "130"
    /\ stage' = "idle"
    /\ verdict' = {}
    /\ ok' = FALSE
    /\ UNCHANGED <<fs, stdout, runs>>

\* Another process creates or deletes an artifact.
ChangeFiles ==
    /\ \E a \in File : fs' = IF a \in fs THEN fs \ {a} ELSE fs \cup {a}
    /\ UNCHANGED <<stage, verdict, ok, stdout, report, exitCode, runs>>

\* The steps the validator takes by itself.
Promise == ShowVerdict \/ Save \/ Fail \/ Exit

Next == Start \/ Promise \/ Interrupt \/ ChangeFiles

\* The safety part: every behaviour is made of these steps.
Safety == Init /\ [][Next]_avars

Spec == Safety /\ WF_avars(Promise)
=============================================================================
