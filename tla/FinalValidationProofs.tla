------------------------ MODULE FinalValidationProofs ------------------------
(***************************************************************************)
(* Proofs about FinalValidation: type correctness, and that the verdict   *)
(* of final_validation.py can be trusted (VerdictTrustworthy) for every   *)
(* number of invocations, with files changing during a run, exceptions at *)
(* every step that can raise and interrupts at any await.                 *)
(***************************************************************************)
EXTENDS FinalValidation, FiniteSetTheorems, TLAPS

\* The tests a run has awaited when it is at test i of the p-th phase.
Done(p, i) ==
    (UNION {TestsOf(PhaseOrder[k]) : k \in 1..(p - 1)})
        \cup {PhaseTests[PhaseOrder[p]][j] : j \in 1..(i - 1)}

\* The verdict of the running invocation has been printed: it is saving
\* the report, or run_validation returned after the PRODUCTION READY line.
Printed == pc = "save" \/ (pc = "exit" /\ stdout # "none")

\* A report file that holds a complete report.
IsReport(r) == r \notin {NoFile, Torn}

\* The inductive invariant: every test of a run is awaited once and lands
\* in exactly one of passed and failed, so that after the last phase they
\* partition AllTests, and only a test that looks at files can fail; nothing
\* is printed before the verdict; the verdict, the printed line, the report
\* saved and the return value are each computed from the one before; an
\* invocation that returned True printed its verdict.
IInv ==
    /\ TypeOK
    /\ passed \cap failed = {}
    /\ IsFiniteSet(passed) /\ IsFiniteSet(failed)
    /\ failed \cap DOMAIN ConstantResult = {}
    /\ pc = "phase" => passed \cup failed = Done(ph, ti)
    /\ pc \in {"phase", "score", "print"} => stdout = "none"
    /\ pc \in {"score", "print"} \/ Printed => passed \cup failed = AllTests
    /\ pc = "print" \/ Printed => ready = CalculateOverallScore(passed, failed)
    /\ Printed => stdout = IF ready THEN "YES" ELSE "NO"
    /\ pc = "exit" /\ rv => /\ stdout # "none" /\ ready
                            /\ report = [ready |-> TRUE, passed |-> passed]
    /\ IsReport(report) => (report.ready <=> report.passed = AllTests)
    /\ pc # "idle" => exitCode = "none"
    /\ exitCode = "0" => pc = "idle" /\ IsReport(report) /\ report.ready /\ stdout = "YES"

-----------------------------------------------------------------------------
(* Lemmas about the phases and tests of the validator *)

\* Four phases of four tests each.
LEMMA PhaseShape ==
    /\ Len(PhaseOrder) = 4
    /\ \A p \in 1..4 : /\ PhaseOrder[p] \in DOMAIN PhaseTests
                       /\ DOMAIN PhaseTests[PhaseOrder[p]] = 1..4
                       /\ Len(PhaseTests[PhaseOrder[p]]) = 4
BY DEF PhaseOrder, PhaseTests

\* Every awaited test is one of the sixteen.
LEMMA TestInAll ==
    \A p \in 1..4, i \in 1..4 : PhaseTests[PhaseOrder[p]][i] \in AllTests
BY DEF PhaseOrder, PhaseTests, AllTests, TestsOf

\* Before the first test nothing is done.
LEMMA DoneStart == Done(1, 1) = {}
BY DEF Done

\* A test adds itself to what is done, and it was not done before: the
\* sixteen test keys are distinct.
LEMMA DoneNext ==
    ASSUME NEW p \in 1..4, NEW i \in 1..4
    PROVE  /\ Done(p, i + 1) = Done(p, i) \cup {PhaseTests[PhaseOrder[p]][i]}
           /\ PhaseTests[PhaseOrder[p]][i] \notin Done(p, i)
<1>1. Done(p, i + 1) = Done(p, i) \cup {PhaseTests[PhaseOrder[p]][i]}
  BY DEF Done
<1>2. PhaseTests[PhaseOrder[p]][i] \notin Done(p, i)
  BY DEF Done, TestsOf, PhaseOrder, PhaseTests
<1>. QED
  BY <1>1, <1>2

\* The end of a phase is the start of the next one.
LEMMA DonePhase ==
    ASSUME NEW p \in 1..3
    PROVE  Done(p, 5) = Done(p + 1, 1)
BY DEF Done, TestsOf, PhaseOrder, PhaseTests

\* After the last test of the last phase every test is done.
LEMMA DoneAll == Done(4, 5) = AllTests
BY DEF Done, TestsOf, PhaseOrder, PhaseTests, AllTests

\* calculate_overall_score over a partition of the sixteen tests: every
\* phase is critical, so the run is production ready exactly when every
\* test passed.
LEMMA ScoreExact ==
    ASSUME NEW P, NEW F, IsFiniteSet(P), IsFiniteSet(F),
           P \cap F = {}, P \cup F = AllTests
    PROVE  CalculateOverallScore(P, F) <=> P = AllTests
<1>1. {t \in F : Critical[PhaseOf(t)]} = F
  <2>1. \A t \in AllTests : PhaseOf(t) \in DOMAIN PhaseTests
    BY DEF PhaseOf, AllTests
  <2>. QED
    BY <2>1 DEF Critical
<1>2. IsFiniteSet(AllTests) /\ Cardinality(AllTests) \in Nat
  BY FS_Union, FS_CardinalityType
<1>3. Cardinality(AllTests) > 0
  <2>1. "multipath" \in AllTests
    BY DEF AllTests, TestsOf, PhaseTests
  <2>. QED
    BY <1>2, <2>1, FS_EmptySet
<1>4. Cardinality(F) = 0 <=> F = {}
  BY FS_EmptySet
<1>5. F = {} <=> P = AllTests
  OBVIOUS
<1>6. CalculateOverallScore(P, F) <=>
        /\ Cardinality(AllTests) > 0
        /\ 100 * Cardinality(P) >= 95 * Cardinality(AllTests)
        /\ Cardinality(F) = 0
  BY <1>1 DEF CalculateOverallScore
<1>7. P = AllTests => 100 * Cardinality(P) >= 95 * Cardinality(AllTests)
  BY <1>2
<1>. QED
  BY <1>3, <1>4, <1>5, <1>6, <1>7

-----------------------------------------------------------------------------
(* The invariant *)

\* Every run starts with nothing awaited, no verdict and no exit status.
THEOREM InitIInv == Init => IInv
<1> SUFFICES ASSUME Init PROVE IInv
  OBVIOUS
<1>1. TypeOK
  <2>1. ph \in 1..Len(PhaseOrder) /\ ti \in 1..5 /\ runs \in 0..MaxRuns
    BY PhaseShape, FinalValidationAssumption DEF Init
  <2>2. status \in [DOMAIN PhaseTests -> {"PENDING", "PASS", "FAIL"}]
    BY DEF Init
  <2>3. report \in {NoFile, Torn} \cup [ready : BOOLEAN, passed : SUBSET AllTests]
    BY DEF Init
  <2>4. /\ fs \subseteq Artifact /\ passed \subseteq AllTests /\ failed \subseteq AllTests
        /\ pc \in {"idle", "phase", "score", "print", "save", "exit"}
        /\ ready \in BOOLEAN /\ rv \in BOOLEAN
        /\ stdout \in {"none", "YES", "NO"} /\ exitCode \in {"none", "0", "1", "130"}
    BY DEF Init
  <2>. QED
    BY <2>1, <2>2, <2>3, <2>4 DEF TypeOK
<1>2. IsFiniteSet(passed) /\ IsFiniteSet(failed)
  BY FS_EmptySet DEF Init
<1>3. ~IsReport(report) /\ pc = "idle" /\ exitCode = "none"
  BY DEF Init, IsReport
<1>. QED
  BY <1>1, <1>2, <1>3 DEF IInv, Init, Printed

\* Each step of the validator, of another process and of the user keeps IInv.
THEOREM NextIInv == IInv /\ [Next]_vars => IInv'
<1> SUFFICES ASSUME IInv, [Next]_vars PROVE IInv'
  OBVIOUS
<1> USE DEF IInv
<1>0. /\ ph \in 1..4 /\ ti \in 1..5
      /\ passed \subseteq AllTests /\ failed \subseteq AllTests
  BY PhaseShape DEF TypeOK
<1>1. CASE Start
  <2>1. TypeOK'
    <3>1. runs' \in 0..MaxRuns
      BY <1>1, FinalValidationAssumption DEF Start, TypeOK
    <3>2. ph' \in 1..Len(PhaseOrder) /\ ti' \in 1..5
      BY <1>1, PhaseShape DEF Start
    <3>3. status' \in [DOMAIN PhaseTests -> {"PENDING", "PASS", "FAIL"}]
      BY <1>1 DEF Start
    <3>4. /\ passed' \subseteq AllTests /\ failed' \subseteq AllTests
          /\ pc' \in {"idle", "phase", "score", "print", "save", "exit"}
          /\ ready' \in BOOLEAN /\ stdout' \in {"none", "YES", "NO"}
          /\ exitCode' \in {"none", "0", "1", "130"}
      BY <1>1 DEF Start
    <3>5. fs' = fs /\ rv' = rv /\ report' = report
      BY <1>1 DEF Start
    <3>. QED
      BY <3>1, <3>2, <3>3, <3>4, <3>5 DEF TypeOK
  <2>2. IsFiniteSet(passed') /\ IsFiniteSet(failed')
    BY <1>1, FS_EmptySet DEF Start
  <2>. QED
    BY <1>1, <2>1, <2>2, DoneStart DEF Start, Printed
<1>2. CASE RunTest
  <2> DEFINE t == PhaseTests[PhaseOrder[ph]][ti]
  <2>1. ti \in 1..4
    BY <1>2, <1>0, PhaseShape DEF RunTest
  <2>2. t \in AllTests /\ t \notin Done(ph, ti)
        /\ Done(ph, ti + 1) = Done(ph, ti) \cup {t}
    BY <1>0, <2>1, TestInAll, DoneNext
  <2>3. passed' \cup failed' = (passed \cup failed) \cup {t}
        /\ (passed' = passed \/ passed' = passed \cup {t})
        /\ (failed' = failed \/ failed' = failed \cup {t})
        /\ (passed' = passed \/ failed' = failed)
    BY <1>2 DEF RunTest
  <2>4. pc = "phase" /\ pc' = "phase" /\ ph' = ph /\ ti' = ti + 1
    BY <1>2 DEF RunTest
  <2>5. passed' \cap failed' = {}
    BY <2>2, <2>3, <2>4
  <2>6. IsFiniteSet(passed') /\ IsFiniteSet(failed')
    BY <2>3, FS_AddElement
  <2>7. TypeOK'
    BY <1>2, <1>0, <2>1, <2>2, <2>3 DEF RunTest, TypeOK
  <2>8. failed' \cap DOMAIN ConstantResult = {}
    <3>1. t \in DOMAIN ConstantResult => TestPassed(t, fs)
      BY DEF TestPassed, ConstantResult
    <3>. QED
      BY <1>2, <3>1 DEF RunTest
  <2>. QED
    BY <1>2, <2>2, <2>3, <2>4, <2>5, <2>6, <2>7, <2>8 DEF RunTest, Printed
<1>3. CASE EndPhase
  <2>0. Len(PhaseTests[PhaseOrder[ph]]) = 4
    BY <1>0, PhaseShape
  <2>1. ti = 5 /\ pc = "phase"
    BY <1>3, <2>0 DEF EndPhase
  <2>2. TypeOK'
    BY <1>3, <1>0, PhaseShape DEF EndPhase, TypeOK
  <2>3. CASE ph = 4
    BY <1>3, <2>1, <2>2, <2>3, DoneAll, PhaseShape DEF EndPhase, Printed
  <2>4. CASE ph # 4
    <3>1. ph \in 1..3
      BY <1>0, <2>4
    <3>. QED
      BY <1>3, <2>1, <2>2, <2>4, <3>1, DonePhase, PhaseShape DEF EndPhase, Printed
  <2>. QED
    BY <2>3, <2>4
<1>4. CASE GenerateReport
  <2>1. TypeOK'
    BY <1>4 DEF GenerateReport, TypeOK, CalculateOverallScore
  <2>. QED
    BY <1>4, <2>1 DEF GenerateReport, Printed
<1>5. CASE PrintValidationResults
  <2>1. TypeOK'
    BY <1>5 DEF PrintValidationResults, TypeOK
  <2>. QED
    BY <1>5, <2>1 DEF PrintValidationResults, Printed
<1>6. CASE SaveDetailedReport
  <2>1. ready <=> passed = AllTests
    BY <1>6, ScoreExact DEF SaveDetailedReport, Printed
  <2>2. TypeOK'
    BY <1>6, <1>0 DEF SaveDetailedReport, TypeOK
  <2>. QED
    BY <1>6, <2>1, <2>2 DEF SaveDetailedReport, Printed, IsReport
<1>7. CASE RaiseBeforeVerdict
  <2>1. TypeOK'
    BY <1>7 DEF RaiseBeforeVerdict, TypeOK
  <2>2. stdout' = "none" /\ pc' = "exit" /\ ~rv'
    BY <1>7 DEF RaiseBeforeVerdict
  <2>. QED
    BY <1>7, <2>1, <2>2 DEF RaiseBeforeVerdict, Printed
<1>8. CASE RaiseAfterVerdict
  <2>1. TypeOK'
    BY <1>8 DEF RaiseAfterVerdict, TypeOK
  <2>2. ~IsReport(Torn)
    BY DEF IsReport
  <2>3. stdout # "none" /\ pc' = "exit" /\ ~rv' /\ stdout' = stdout
    BY <1>8 DEF RaiseAfterVerdict, Printed
  <2>. QED
    BY <1>8, <2>1, <2>2, <2>3 DEF RaiseAfterVerdict, Printed
<1>9. CASE Exit
  <2>1. TypeOK'
    BY <1>9 DEF Exit, TypeOK
  <2>2. rv => IsReport(report)
    <3>0. rv => report = [ready |-> TRUE, passed |-> passed]
      BY <1>9 DEF Exit
    <3>1. [ready |-> TRUE, passed |-> passed] \in [ready : BOOLEAN, passed : SUBSET AllTests]
      BY <1>0
    <3>2. rv => report \in [ready : BOOLEAN, passed : SUBSET AllTests]
      BY <3>0, <3>1
    <3>. QED
      BY <3>2, SentinelAssumption DEF IsReport
  <2>3. rv => stdout = "YES"
    BY <1>9 DEF Exit, Printed
  <2>. QED
    BY <1>9, <2>1, <2>2, <2>3 DEF Exit, Printed
<1>10. CASE ExitPrintFails
  <2>1. TypeOK'
    BY <1>10 DEF ExitPrintFails, TypeOK
  <2>. QED
    BY <1>10, <2>1 DEF ExitPrintFails, Printed
<1>11. CASE Interrupt
  <2>1. TypeOK'
    BY <1>11 DEF Interrupt, TypeOK
  <2>2. ~IsReport(Torn)
    BY DEF IsReport
  <2>. QED
    BY <1>11, <2>1, <2>2 DEF Interrupt, Printed
<1>12. CASE ChangeFiles
  <2>1. TypeOK'
    BY <1>12 DEF ChangeFiles, TypeOK, Artifact
  <2>. QED
    BY <1>12, <2>1 DEF ChangeFiles, Printed
<1>13. CASE UNCHANGED vars
  BY <1>13 DEF vars, TypeOK, Printed, IsReport, Done
<1>. QED
  BY <1>1, <1>2, <1>3, <1>4, <1>5, <1>6, <1>7, <1>8, <1>9, <1>10, <1>11, <1>12, <1>13
     DEF Next, Step

-----------------------------------------------------------------------------
(* Theorems *)

\* final_validation.py keeps its state well typed in every reachable
\* state, for every number of invocations.
THEOREM TypeCorrect == Spec => []TypeOK
<1>1. IInv => TypeOK
  BY DEF IInv
<1>. QED
  BY InitIInv, NextIInv, <1>1, PTL DEF Spec

\* The verdict of final_validation.py can be trusted for every number of
\* invocations, whatever files change during a run, wherever an exception
\* is raised and wherever the user interrupts: a saved report says production
\* ready exactly when all sixteen tests passed, and exit status 0 comes
\* with such a report saying ready and with the printed verdict YES.
THEOREM VerdictTrustworthyHolds == Spec => []VerdictTrustworthy
<1>1. IInv => VerdictTrustworthy
  BY DEF IInv, IsReport, VerdictTrustworthy
<1>. QED
  BY InitIInv, NextIInv, <1>1, PTL DEF Spec

-----------------------------------------------------------------------------
(* Refinement of ValidationVerdict *)

\* The tests whose result is a constant are among the sixteen.
LEMMA UnconditionalInAll == DOMAIN ConstantResult \subseteq AllTests
BY DEF ConstantResult, AllTests, TestsOf, PhaseTests

\* The abstract variables of ValidationVerdict under the mapping.
AbsVars == <<fs, VStage, VVerdict, VOk, VStdout, report, exitCode, runs>>

\* An initial state of the validator is an initial state of the promise.
LEMMA InitRefines == Init => Verdict!Init
BY DEF Init, Verdict!Init, VStage, VVerdict, VOk, VStdout

\* Each step of the validator, of another process and of the user is a
\* step of the promise or leaves what the caller sees unchanged.
LEMMA NextRefines == IInv /\ [Next]_vars => [Verdict!Next]_Verdict!avars
<1> SUFFICES ASSUME IInv, [Next]_vars PROVE [Verdict!Next]_Verdict!avars
  OBVIOUS
<1> USE DEF IInv
<1>0. passed \subseteq AllTests /\ failed \subseteq AllTests
  BY DEF TypeOK
\* The steps of a run before its verdict is printed are invisible.
<1>1. ASSUME RunTest \/ EndPhase \/ GenerateReport PROVE UNCHANGED AbsVars
  BY <1>1 DEF RunTest, EndPhase, GenerateReport, AbsVars, VStage, VVerdict, VOk, VStdout
<1>2. CASE Start
  <2>. Verdict!Start
    BY <1>2 DEF Start, Verdict!Start, VStage, VVerdict, VOk, VStdout, TypeOK
  <2>. QED
    BY DEF Verdict!Next
<1>3. CASE PrintValidationResults
  <2>1. passed \cap failed = {} /\ passed \cup failed = AllTests
        /\ ready = CalculateOverallScore(passed, failed)
    BY <1>3 DEF PrintValidationResults, Printed
  <2>2. ready <=> passed = AllTests
    BY <2>1, ScoreExact
  <2>3. passed = DOMAIN ConstantResult \cup (passed \ DOMAIN ConstantResult)
    BY <2>1, UnconditionalInAll
  <2>4. passed \ DOMAIN ConstantResult \in SUBSET (AllTests \ DOMAIN ConstantResult)
    BY <1>0
  <2>5. pc' = "save" /\ passed' = passed /\ stdout' = IF ready THEN "YES" ELSE "NO"
    BY <1>3 DEF PrintValidationResults
  <2>6. VVerdict' = passed /\ VStage' = "printed" /\ VStdout' = stdout'
    BY <2>5 DEF VVerdict, VStage, VStdout
  <2>7. Verdict!ShowVerdict
    BY <1>3, <2>2, <2>3, <2>4, <2>5, <2>6
       DEF PrintValidationResults, Verdict!ShowVerdict, VStage, VOk
  <2>. QED
    BY <2>7 DEF Verdict!Next, Verdict!Promise
<1>4. CASE SaveDetailedReport
  <2>1. ready <=> passed = AllTests
    BY <1>4, ScoreExact DEF SaveDetailedReport, Printed
  <2>3. stdout # "none" /\ stdout' = stdout
    BY <1>4 DEF SaveDetailedReport, Printed
  <2>2. Verdict!Save
    BY <1>4, <2>1, <2>3 DEF SaveDetailedReport, Verdict!Save, Verdict!ReportOf,
                      VStage, VVerdict, VOk, VStdout
  <2>. QED
    BY <2>2 DEF Verdict!Next, Verdict!Promise
<1>5. CASE RaiseBeforeVerdict
  <2>1. stdout = "none" /\ pc \in {"phase", "print"} /\ pc' = "exit" /\ stdout' = "none"
    BY <1>5 DEF RaiseBeforeVerdict
  <2>2. Verdict!Fail
    BY <1>5, <2>1 DEF RaiseBeforeVerdict, Verdict!Fail, VStage, VVerdict, VOk, VStdout
  <2>. QED
    BY <2>2 DEF Verdict!Next, Verdict!Promise
<1>10. CASE RaiseAfterVerdict
  <2>1. stdout # "none" /\ pc = "save" /\ pc' = "exit" /\ stdout' = stdout
    BY <1>10 DEF RaiseAfterVerdict, Printed
  <2>2. Verdict!Fail
    BY <1>10, <2>1 DEF RaiseAfterVerdict, Verdict!Fail, VStage, VVerdict, VOk, VStdout
  <2>. QED
    BY <2>2 DEF Verdict!Next, Verdict!Promise
<1>6. CASE Exit
  <2>. Verdict!Exit
    BY <1>6 DEF Exit, Verdict!Exit, VStage, VVerdict, VOk, VStdout
  <2>. QED
    BY DEF Verdict!Next, Verdict!Promise
<1>11. CASE ExitPrintFails
  <2>. Verdict!Exit
    BY <1>11 DEF ExitPrintFails, Verdict!Exit, VStage, VVerdict, VOk, VStdout
  <2>. QED
    BY DEF Verdict!Next, Verdict!Promise
<1>7. CASE Interrupt
  <2>. Verdict!Interrupt
    BY <1>7 DEF Interrupt, Verdict!Interrupt, VStage, VVerdict, VOk, VStdout, TypeOK
  <2>. QED
    BY DEF Verdict!Next
<1>8. CASE ChangeFiles
  <2>. Verdict!ChangeFiles
    BY <1>8 DEF ChangeFiles, Verdict!ChangeFiles, VStage, VVerdict, VOk, VStdout
  <2>. QED
    BY DEF Verdict!Next
<1>9. CASE UNCHANGED vars
  BY <1>9 DEF vars, Verdict!avars, VStage, VVerdict, VOk, VStdout
<1>. QED
  BY <1>1, <1>2, <1>3, <1>4, <1>5, <1>6, <1>7, <1>8, <1>9, <1>10, <1>11
     DEF Next, Step, AbsVars, Verdict!avars

\* final_validation.py implements the promise of ValidationVerdict for every
\* number of invocations, whatever files change during a run, wherever an
\* exception is raised and wherever the user interrupts: what its caller
\* sees is what an invocation shows that settles on one set of passed
\* tests holding every unconditional test, prints YES exactly when that
\* set is every test, saves its report, and exits 0 only when the save
\* succeeded on a ready verdict; or one that an exception ends with
\* status 1, before its verdict or before its report is complete.
THEOREM ImplementsVerdictSafety == Spec => Verdict!Safety
<1>1. Spec => []IInv
  BY InitIInv, NextIInv, PTL DEF Spec
<1>. QED
  BY <1>1, InitRefines, NextRefines, PTL DEF Spec, Verdict!Safety

====
