--------------------------- MODULE FinalValidation ---------------------------
(***************************************************************************)
(* scripts/final_validation.py: NyxNetFinalValidator runs four phases of  *)
(* four tests each, one awaited test at a time, scores them, prints the   *)
(* verdict, saves FINAL_VALIDATION_REPORT.json and exits 0 when the       *)
(* workspace is "production ready", 1 when it is not or when an exception *)
(* reached run_validation or main, and 130 on a keyboard interrupt.  The  *)
(* exceptions are those of the code that can raise: the prints (the       *)
(* emoji of the banner and the results on a terminal that cannot encode   *)
(* them), Path.exists in the phase 4 tests, open and json.dump.  Twelve   *)
(* tests return a constant result; four look at files of the workspace,   *)
(* which other processes may create or delete at any time.  The report    *)
(* file outlives a run: the next invocation overwrites it.                 *)
(***************************************************************************)
EXTENDS Naturals, Sequences, FiniteSets

CONSTANTS
    MaxRuns,         \* bound on the number of invocations
    AllowException,  \* whether the code may raise an Exception
    AllowInterrupt,  \* whether the user may press Ctrl-C during a run
    NoFile,          \* the report file does not exist
    Torn             \* the report file holds a prefix of a JSON document

ASSUME FinalValidationAssumption ==
    /\ MaxRuns \in Nat
    /\ AllowException \in BOOLEAN
    /\ AllowInterrupt \in BOOLEAN
    /\ NoFile # Torn

\* The workspace files the phase 4 tests look at.
CodeQualityDoc == "docs/CODE_QUALITY.md"
SuiteTest      == "tests/integration/comprehensive_test_suite.rs"
ProdTest       == "tests/integration/production_integration_tests.rs"
ApiDoc         == "docs/API_DOCUMENTATION.md"
TlaModel       == "formal/nyx_advanced_features.tla"
Artifact == {CodeQualityDoc, SuiteTest, ProdTest, ApiDoc, TlaModel}

\* generate_report awaits the phases in this order; each phase awaits its
\* tests in this order and is critical.
PhaseOrder == <<"phase_1", "phase_2", "phase_3", "phase_4">>
PhaseTests ==
    [phase_1 |-> <<"multipath", "crypto", "communication", "streams">>,
     phase_2 |-> <<"quantum", "zero_trust", "pfs", "byzantine">>,
     phase_3 |-> <<"low_power", "tcp_fallback", "routing", "performance">>,
     phase_4 |-> <<"code_quality", "testing", "documentation", "formal_verification">>]
Critical == [ph \in DOMAIN PhaseTests |-> TRUE]

TestsOf(ph) == {PhaseTests[ph][i] : i \in DOMAIN PhaseTests[ph]}
AllTests == UNION {TestsOf(ph) : ph \in DOMAIN PhaseTests}
PhaseOf(t) == CHOOSE ph \in DOMAIN PhaseTests : t \in TestsOf(ph)

\* The twelve tests of phases 1 to 3 report 'passed': True unconditionally.
ConstantResult == [t \in TestsOf("phase_1") \cup TestsOf("phase_2") \cup TestsOf("phase_3") |-> TRUE]

\* The phase 4 tests: 'passed' is the existence of these files.
Requires == [code_quality        |-> {CodeQualityDoc},
             testing             |-> {SuiteTest, ProdTest},
             documentation       |-> {ApiDoc},
             formal_verification |-> {TlaModel}]

TestPassed(t, fs) ==
    IF t \in DOMAIN ConstantResult THEN ConstantResult[t] ELSE Requires[t] \subseteq fs

\* Mutant: an elif turned into an if, so that every test of a critical phase
\* counts as a critical failure.
CalculateOverallScoreAllCritical(passedS, failedS) ==
    LET total    == Cardinality(passedS \cup failedS)
        critical == Cardinality({t \in passedS \cup failedS : Critical[PhaseOf(t)]})
    IN  total > 0 /\ 100 * Cardinality(passedS) >= 95 * total /\ critical = 0

\* calculate_overall_score: production_ready iff score >= 95.0 and no test of
\* a critical phase failed (score = passed / total * 100, 0 if no test).
CalculateOverallScore(passedS, failedS) ==
    LET total    == Cardinality(passedS \cup failedS)
        critical == Cardinality({t \in failedS : Critical[PhaseOf(t)]})
    IN  total > 0 /\ 100 * Cardinality(passedS) >= 95 * total /\ critical = 0

\* The report file's two sentinels are not reports.
ASSUME SentinelAssumption ==
    {NoFile, Torn} \cap [ready : BOOLEAN, passed : SUBSET AllTests] = {}

VARIABLES
    fs,        \* the artifacts that exist in the workspace
    pc,        \* "idle" between invocations, else the step of the running one
    ph,        \* index in PhaseOrder of the phase being validated
    ti,        \* index of the next test of that phase
    passed,    \* tests of this run whose result has 'passed': True
    failed,    \* tests of this run whose result has 'passed': False
    status,    \* status[ph]: results['status'] of each phase
    ready,     \* validation_results['production_ready']
    rv,        \* the value run_validation returns
    stdout,    \* the PRODUCTION READY line printed: "none", "YES" or "NO"
    report,    \* FINAL_VALIDATION_REPORT.json
    exitCode,  \* the exit status of the last invocation as printed by the shell, "none" while running
    runs       \* invocations started so far

vars == <<fs, pc, ph, ti, passed, failed, status, ready, rv, stdout, report, exitCode, runs>>

Init ==
    /\ fs \in SUBSET Artifact
    /\ pc = "idle"
    /\ ph = 1
    /\ ti = 1
    /\ passed = {}
    /\ failed = {}
    /\ status = [k \in DOMAIN PhaseTests |-> "PENDING"]
    /\ ready = FALSE
    /\ rv = FALSE
    /\ stdout = "none"
    /\ report = NoFile
    /\ exitCode = "none"
    /\ runs = 0

\* main() builds a fresh validator (validation_results PENDING, not ready)
\* and run_validation prints the banner.
Start ==
    /\ pc = "idle"
    /\ runs < MaxRuns
    /\ pc' = "phase"
    /\ ph' = 1
    /\ ti' = 1
    /\ passed' = {}
    /\ failed' = {}
    /\ status' = [k \in DOMAIN PhaseTests |-> "PENDING"]
    /\ ready' = FALSE
    /\ stdout' = "none"
    /\ exitCode' = "none"
    /\ runs' = runs + 1
    /\ UNCHANGED <<fs, rv, report>>

\* One awaited test of the current phase: its result is stored under its key.
RunTest ==
    /\ pc = "phase"
    /\ ti \in DOMAIN PhaseTests[PhaseOrder[ph]]
    /\ LET t == PhaseTests[PhaseOrder[ph]][ti]
       IN  IF TestPassed(t, fs)
             THEN passed' = passed \cup {t} /\ failed' = failed
             ELSE failed' = failed \cup {t} /\ passed' = passed
    /\ ti' = ti + 1
    /\ UNCHANGED <<fs, pc, ph, status, ready, rv, stdout, report, exitCode, runs>>

\* The end of validate_phase_N: status is PASS iff all its tests passed;
\* generate_report then awaits the next phase or computes the score.
EndPhase ==
    /\ pc = "phase"
    /\ ti = Len(PhaseTests[PhaseOrder[ph]]) + 1
    /\ status' = [status EXCEPT ![PhaseOrder[ph]] =
                    IF TestsOf(PhaseOrder[ph]) \subseteq passed THEN "PASS" ELSE "FAIL"]
    /\ IF ph = Len(PhaseOrder)
         THEN pc' = "score" /\ UNCHANGED <<ph, ti>>
         ELSE pc' = "phase" /\ ph' = ph + 1 /\ ti' = 1
    /\ UNCHANGED <<fs, passed, failed, ready, rv, stdout, report, exitCode, runs>>

\* generate_report: score, production_ready and overall_status.
GenerateReport ==
    /\ pc = "score"
    /\ ready' = CalculateOverallScore(passed, failed)
    /\ pc' = "print"
    /\ UNCHANGED <<fs, ph, ti, passed, failed, status, rv, stdout, report, exitCode, runs>>

\* Mutant: the f-string prints production_ready itself, "True" or "False".
PrintValidationResultsRaw ==
    /\ pc = "print"
    /\ stdout' = IF ready THEN "True" ELSE "False"
    /\ pc' = "save"
    /\ UNCHANGED <<fs, ph, ti, passed, failed, status, ready, rv, report, exitCode, runs>>

\* print_validation_results, before the report is saved.
PrintValidationResults ==
    /\ pc = "print"
    /\ stdout' = IF ready THEN "YES" ELSE "NO"
    /\ pc' = "save"
    /\ UNCHANGED <<fs, ph, ti, passed, failed, status, ready, rv, report, exitCode, runs>>

\* save_detailed_report: json.dump of validation_results; generate_report
\* then returns production_ready.
SaveDetailedReport ==
    /\ pc = "save"
    /\ report' = [ready |-> ready, passed |-> passed]
    /\ rv' = ready
    /\ pc' = "exit"
    /\ UNCHANGED <<fs, ph, ti, passed, failed, status, ready, stdout, exitCode, runs>>

\* An Exception before the PRODUCTION READY line: in print_banner, in the
\* Path.exists of a phase 4 test, or in a print of print_validation_results
\* before that line.  run_validation catches it and returns False.
RaiseBeforeVerdict ==
    /\ AllowException
    /\ \/ pc = "phase" /\ ph = 1 /\ ti = 1
       \/ pc = "phase" /\ PhaseOrder[ph] = "phase_4" /\ ti \in DOMAIN PhaseTests["phase_4"]
       \/ pc = "print"
    /\ rv' = FALSE
    /\ pc' = "exit"
    /\ UNCHANGED <<fs, ph, ti, passed, failed, status, ready, stdout, report, exitCode, runs>>

\* An Exception after it: in the prints that follow, in open() or in
\* json.dump (permissions, a full disk), which leaves the file as it was or
\* truncated and partly written.  run_validation returns False.
RaiseAfterVerdict ==
    /\ AllowException
    /\ pc = "save"
    /\ report' \in {report, Torn}
    /\ rv' = FALSE
    /\ pc' = "exit"
    /\ UNCHANGED <<fs, ph, ti, passed, failed, status, ready, stdout, exitCode, runs>>

\* Mutant: the exit status taken from the verdict in validation_results
\* instead of the value run_validation returned.
ExitFromVerdict ==
    /\ pc = "exit"
    /\ exitCode' = IF ready THEN "0" ELSE "1"
    /\ pc' = "idle"
    /\ UNCHANGED <<fs, ph, ti, passed, failed, status, ready, rv, stdout, report, runs>>

\* main: sys.exit(0) if production_ready else sys.exit(1).
Exit ==
    /\ pc = "exit"
    /\ exitCode' = IF rv THEN "0" ELSE "1"
    /\ pc' = "idle"
    /\ UNCHANGED <<fs, ph, ti, passed, failed, status, ready, rv, stdout, report, runs>>

\* main's SUCCESS or FAILED print raises: its except Exception exits 1.
ExitPrintFails ==
    /\ AllowException
    /\ pc = "exit"
    /\ exitCode' = "1"
    /\ pc' = "idle"
    /\ UNCHANGED <<fs, ph, ti, passed, failed, status, ready, rv, stdout, report, runs>>

\* KeyboardInterrupt is no Exception: run_validation does not catch it and
\* main exits 130.  During json.dump the file may be left truncated.
Interrupt ==
    /\ AllowInterrupt
    /\ pc # "idle"
    /\ report' \in IF pc = "save" THEN {report, Torn} ELSE {report}
    /\ exitCode' = "130"
    /\ pc' = "idle"
    /\ UNCHANGED <<fs, ph, ti, passed, failed, status, ready, rv, stdout, runs>>

\* Another process creates or deletes an artifact.
ChangeFiles ==
    /\ \E a \in Artifact : fs' = IF a \in fs THEN fs \ {a} ELSE fs \cup {a}
    /\ UNCHANGED <<pc, ph, ti, passed, failed, status, ready, rv, stdout, report, exitCode, runs>>

\* The steps of the validator process itself.
Step == RunTest \/ EndPhase \/ GenerateReport \/ PrintValidationResults
            \/ SaveDetailedReport \/ RaiseBeforeVerdict \/ RaiseAfterVerdict
            \/ Exit \/ ExitPrintFails

Next == Start \/ Step \/ Interrupt \/ ChangeFiles

\* asyncio runs the one coroutine and no test awaits anything that blocks,
\* so a started run keeps taking steps.
Spec == Init /\ [][Next]_vars /\ WF_vars(Step)

-----------------------------------------------------------------------------
(* Properties *)

TypeOK ==
    /\ fs \subseteq Artifact
    /\ pc \in {"idle", "phase", "score", "print", "save", "exit"}
    /\ ph \in 1..Len(PhaseOrder)
    /\ ti \in 1..5
    /\ passed \subseteq AllTests /\ failed \subseteq AllTests
    /\ status \in [DOMAIN PhaseTests -> {"PENDING", "PASS", "FAIL"}]
    /\ ready \in BOOLEAN /\ rv \in BOOLEAN
    /\ stdout \in {"none", "YES", "NO"}
    /\ report \in {NoFile, Torn} \cup [ready : BOOLEAN, passed : SUBSET AllTests]
    /\ exitCode \in {"none", "0", "1", "130"}
    /\ runs \in 0..MaxRuns

\* The script says one thing: an invocation that exited 0 or 1 printed
\* PRODUCTION READY: YES exactly when it exited 0, which main announces as
\* "ready for production deployment" (and 1 as "not ready").
VerdictAgreesWithExit ==
    exitCode \in {"0", "1"} => (stdout = "YES" <=> exitCode = "0")

\* What a release pipeline relies on, even when saving the report fails:
\* a complete report on disk says production ready exactly when all
\* sixteen tests of its run passed, and an exit status 0 comes with such
\* a report saying ready and with the printed verdict YES.
VerdictTrustworthy ==
    /\ report \notin {NoFile, Torn} => (report.ready <=> report.passed = AllTests)
    /\ exitCode = "0" => /\ report \notin {NoFile, Torn}
                         /\ report.ready
                         /\ stdout = "YES"

-----------------------------------------------------------------------------
(* Refinement of the promise of an invocation (module ValidationVerdict) *)

\* The tests, the scoring and the print before the report is saved are one
\* abstract stage; the passed set becomes the verdict once it is printed,
\* and what run_validation returns becomes visible once it has returned.
VStage ==
    CASE pc = "idle"                        -> "idle"
      [] pc \in {"phase", "score", "print"} -> "testing"
      [] pc = "save"                        -> "printed"
      [] pc = "exit"                        -> "returned"
VVerdict == IF pc = "save" \/ (pc = "exit" /\ stdout # "none") THEN passed ELSE {}
VOk == pc = "exit" /\ rv
VStdout == IF pc \in {"phase", "score", "print"} THEN "none" ELSE stdout

Verdict == INSTANCE ValidationVerdict
    WITH Test <- AllTests, Unconditional <- DOMAIN ConstantResult,
         File <- Artifact, stage <- VStage, verdict <- VVerdict,
         ok <- VOk, stdout <- VStdout

\* final_validation.py keeps its promise: with the tests, files, faults
\* and interrupts of the code, what the caller sees (the verdict printed,
\* the report saved, the exit status) is what an invocation that settles
\* on one set of passed tests, holding every unconditional test, shows, or
\* one that an exception ends; and a started invocation always exits.
ImplementsVerdict == Verdict!Spec

=============================================================================
