# Formal models of the Nyx specification and maintenance tooling

This directory holds TLA+ models of the Python tooling under `src/scripts/`:

- `spec_diff.py` tracks how the protocol specification drifts between runs.
- `spec_test_map.py` maps the specification's sections to the tests that cite them.
- `final_validation.py` runs the release validation and decides "production ready".
- `measure_quality.py` and `find_priority_targets.py` score the Rust sources.
- `fix_return_types.py` rewrites function signatures and inserts `Ok(())` returns.

`spec.md` describes the first two tools and calls the others external
collaborators; those are modelled from their source alone. The Rust protocol stack that the specification
documents is not part of `src/`.

## 1. Inventory of the system

| Part | Source | State | Operations |
|---|---|---|---|
| Section extractor | `spec_diff.py` 89-111, `spec_test_map.py` 24-30 | none (pure) | split a Markdown file at `## ` headings; discard the preamble; strip bodies |
| Hasher / drift detector | `spec_diff.py` 114-124, 237-247 | the previous JSON report `spec/spec_diff_report.json` | hash every body; compare with the previous hashes; compute new and removed titles |
| Report generator | `spec_diff.py` 168-228, 258-294 | the JSON report and `docs/spec_diff_report.md` | write JSON, then Markdown; warn below the threshold |
| Annotation scanner | `spec_test_map.py` 33-67 | `spec_map`, `current_annots` while scanning | per line: annotation, function, or other; reset per file |
| Mapping coverage | `spec_test_map.py` 70-107 | `spec/spec_test_mapping.json`, `docs/SPEC_TEST_MAPPING.md` | count the numbered sections that are mapped; write JSON; rewrite the MD after a marker |
| Keyword coverage | `spec_diff.py` 127-156 | none (pure) | normalise text; look up a fixed keyword list |
| Final validation | `final_validation.py` | the validator's results, `FINAL_VALIDATION_REPORT.json`, the exit status | await 16 tests in 4 phases; score; print; save; exit 0, 1 or 130 |
| Quality metrics | `measure_quality.py`, `find_priority_targets.py` | none between runs | find the root; list Rust files; scan lines; merge; score; sort and truncate |
| Return-type repair | `fix_return_types.py` | `nyx-transport/src/stun_server.rs` | rewrite signatures; insert `Ok(())` while enumerating the lines; write back |
| Other repair, metric and mock scripts | other files of `src/` | files they rewrite or read | one-shot regex rewrites; scores; a stateless mock server |

How the parts interact:

- The two tools share state only through files.
- `spec_diff.py` reads its own previous JSON report as its baseline.
- It also passes through the mapping JSON that `spec_test_map.py` wrote.
- Any number of invocations of either tool may run at once (spec section 5).
- Nothing is locked, and every write replaces the whole file.
- A write is not atomic: a process killed during `write_text` leaves a truncated file.

What makes this hard to test:

- The order of the two writes at lines 277-278.
- Interleaved invocations that share the snapshot file.
- Torn snapshot files, which `load_previous_report` silently turns into an empty baseline.
- Duplicate section titles, where the dict keeps the last occurrence.
- Annotation state carried across lines, functions and files.
- How the coverage counters are defined.

## 2. Modules

| Module | Models | Proofs |
|---|---|---|
| `SpecDiff` | the drift detector and both reports of `spec_diff.py`, for a set `Proc` of concurrent invocations | `SpecDiffProofs` |
| `MC_SpecDiff` | model values for `SpecDiff` (2 titles, 2 bodies, 1 process; concurrent invocations are covered by the proof of `SnapshotDrift` for every `Proc`) | |
| `SpecTestMap` | the scanner and mapping report of `spec_test_map.py` | `SpecTestMapProofs` |
| `MC_SpecTestMap` | model values (2 files, 1 function name, 3 texts, 2 numbered titles) | |
| `SpecDiffProofs` | TLAPS proofs about `SpecDiff` | yes |
| `FinalValidation` | `final_validation.py`, over repeated invocations | `FinalValidationProofs` |
| `FinalValidationProofs` | TLAPS proofs about `FinalValidation` | yes |
| `SpecTestMapProofs` | TLAPS proofs about `SpecTestMap` | yes |
| `ValidationVerdict` | the abstract promise of `final_validation.py`: settle on a verdict, print it, save it, exit by it | |
| `QualityScan` | the line scanners, `analyze_file`, `merge_metrics` and the two scores shared by the metric scripts | |
| `MeasureQuality`, `MC_MeasureQuality` | `main` of `measure_quality.py`; six concrete line shapes | |
| `PriorityTargets`, `MC_PriorityTargets` | `find_priority_targets.py`; four line shapes of severity 0 to 3 | `PriorityTargetsProofs` |
| `PriorityTargetsProofs` | TLAPS proofs about `PriorityTargets` | yes |
| `ReturnTypeFix` | `fix_return_types.py`, over repeated invocations | |

### SpecDiff

The files on disk are variables:

- `specFile` is the specification: a sequence of `[title, body]` sections, or `NoFile` when it is missing or empty.
- `snapFile` is the JSON report: a report record, `NoFile`, or `Corrupt` for a torn write.
- `mdFile` is the Markdown report.

Each invocation `p` has its own state:

- `pc[p]` is one of `Idle`, `ReadPrev`, `WriteJson` or `WriteMd`.
- `spec[p]` is the sections it read.
- `report[p]` is the report it computed.
- `exit[p]` is its last exit status.

Actions:

- `ReadSpec` is lines 231-235. A missing or empty file exits 1.
- `ReadPrev` is lines 237-242 and the three modelled fields of the report dict (lines 261-263). It runs `load_previous_report`, `build_section_infos` and the set differences. The `sections` dict is built from the rows, so the last occurrence of a title wins. A snapshot that is missing or does not parse (`NoFile`, `Corrupt`) gives the empty baseline, as the `except Exception: return {}` of `load_previous_report` does.
- `WriteJson` is line 277.
- `WriteMd` is lines 278-294.
- `Crash` is a process that dies (or whose Markdown write raises) after any step. At `WriteJson` it may leave a torn JSON file: `write_text` truncates first, so a cut-short write leaves `Corrupt`, which the next run reads as no snapshot.
- `EditDoc` is an author editing the specification between or during runs.

`Hash` is an injective tag on bodies, as sha256 is for the properties here. The sections are taken as `extract_sections` returns them (title, trimmed body); its splitting of the text into lines is not modelled.

Ghost variables record what the reports are about:

- `snapDoc` is the document the current JSON report was built from.
- `base[p]` is the document behind the snapshot that `p` read.
- `mdDoc` is the document behind the current Markdown report.

They let the properties state drift against documents rather than against hashes.

Bounds:

- At most `MaxSections` sections.
- Two titles and two bodies.

This covers every case of new, removed, changed and unchanged, and, with `AllowDupTitles`, a repeated title.

### SpecTestMap

- A line is what the two regexes make of it: `annot` (with its stripped payload), `fn` (with its name) or `other`.
- `paths` is the sequence of paths that the globs yield. It may repeat a path, as a file under `src/tests/` matches both globs.
- The state is:
  - `fi` and `li`, the file and line being scanned;
  - `pending`, which is `current_annots`;
  - `specMap`, which is `spec_map`;
  - `out`, the JSON written.
- `ScanAnnot`, `ScanFn` and `ScanOther` are the three branches of the line loop.
- `NextFile` is the end of one file and the start of the next. Trailing annotations are dropped there, and `current_annots` is reset.
- `WriteMapping` is lines 70-75. `total_section_count` is `len` of the list of numbered titles, which keeps a repeated numbered heading twice, so the model counts the numbered entries of `SpecTitles` rather than a set.
- `Done` is the stuttering at the end. The script stops there, which is why deadlock is not reported.

### FinalValidation

- `fs` is the set of the five workspace files that the phase 4 tests look at. `ChangeFiles` adds or removes one at any moment: another process editing the workspace.
- A run walks `PhaseOrder` and `PhaseTests` with `ph` and `ti`. `RunTest` is one awaited test (lines 76-95 and their copies in the other phases): the twelve tests of phases 1-3 pass unconditionally; those of phase 4 read `fs` at that moment. `EndPhase` sets the phase status (lines 97-105).
- `GenerateReport` is `calculate_overall_score` and the update of `validation_results`. `PrintValidationResults` sets `stdout` to the verdict line. `SaveDetailedReport` writes the report. `Exit` is `sys.exit(0)` or `sys.exit(1)`.
- Exceptions, where the code can raise one (with `AllowException`): `RaiseBeforeVerdict` is one raised before the `PRODUCTION READY` line is printed (in `print_banner`, in a `Path.exists` of a phase 4 test, or in an emoji print of `print_validation_results`); `RaiseAfterVerdict` one raised after it (in the prints that follow, in `open` or in `json.dump`, which may leave the old file or, mid-dump, `Torn`). `run_validation`'s `except Exception` turns both into a return of False. `ExitPrintFails` is main's SUCCESS or FAILED print raising: its `except Exception` at line 576 exits 1.
- `Interrupt` is Ctrl-C at any await: exit 130. It leaves `Torn` only during the dump.
- Refinement: `ValidationVerdict` hides the tests. Its `stage` goes `idle`, `testing`, `printed`, `returned`. `ShowVerdict` picks a set of passed tests that holds every unconditional test (the twelve of phases 1-3). `Save` writes `ReportOf` of that set. `Fail` is an exception caught by `run_validation`, while testing or after the verdict is printed (then the report may be left `Torn`). `Exit` returns 0 exactly when the save succeeded on a full set, and may return 1 anyway (main's own print raising). `FinalValidation` maps onto it through `VStage` (`phase`, `score`, `print` are `testing`; `save` is `printed`; `exit` is `returned`), `VVerdict` (`passed` once the verdict is printed), `VOk` (`rv` at `exit`) and `VStdout` (the printed line, hidden while testing). `RunTest`, `EndPhase` and `GenerateReport` are stutters of the abstract spec. The property `ImplementsVerdict` is `Verdict!Spec`, fairness included.
- Fairness: `WF_vars(Step)`, where `Step` is the steps of the running invocation. The script is one asyncio coroutine whose awaits never block on anything external (the tests return constants or call `exists()`), so once started it keeps running. `Start`, `ChangeFiles` and `Interrupt` are left unfair: nobody is obliged to run the script, edit files or press Ctrl-C.

### QualityScan, MeasureQuality and PriorityTargets

- A line is what the scanners see: how the stripped line starts (blank, `//`, `/*`, code), its braces in order, and the set of patterns `re.search` finds in it. `CountNestingDepth`, the three pattern counters and `MergeMetrics` are folds over lines and files, as in the code.
- An rglob entry is a readable file, an undecodable file (or one without permission) or a directory whose name ends in `.rs`, inside or outside a `target` directory. Directories are numbered by depth from the filesystem root.
- `MeasureQuality`: `FindRoot` is one iteration of the `while`/`else` loop, `FindFiles` the listing and the empty check, `AnalyzeNext` one `analyze_file` (a directory raises an uncaught `IsADirectoryError`), `Report` the merge and print.
- `PriorityTargets`: `AnalyzeOne` is one iteration of `find_worst_files`, where `except Exception` skips a directory; `Report` is the stable sort with `reverse=True` and the slice `[:limit]`. A file is identified by its index in `rust_files`.

### ReturnTypeFix

- A line is its kind (signature, one-line function, inner block opener, `}`, statement, `Ok(())`, blank), the function it belongs to, and whether its signature carries `-> StunResult<()>`. A source file is a sequence of up to `MaxFns` functions, each rendered to lines.
- `Start` reads the file and applies the signature fixes (`FixSignature`). `ScanLine` is one iteration of `for i, line in enumerate(lines)`, with `lines.insert(i, ...)` as `InsertAt`, so the loop then sees the shifted `}` at `i + 1`, as Python's list iterator does. `WriteBack` joins and writes when the content changed.
- `src` is a history variable: the file as its author wrote it.
- Only the five void signature fixes are modelled. The other four rewrite signatures of functions that are neither `add_ok` nor targets of the `Ok(())` loop.

## 3. Runs

| Run | cfg | Result | What it shows |
|---|---|---|---|
| `drift_serial` | `SpecDiff_serial.cfg` | pass (113k states) | One run at a time, no crash, up to 2 sections. `SnapshotDrift`: each computed report is the exact drift between the document behind the snapshot and the document read. `DriftReported`: each Markdown written shows exactly the drift since the previous Markdown report. `ReportsAgree`: when all runs are idle, the JSON and Markdown reports agree. |
| `drift_faults` | `SpecDiff_faults.cfg` | pass (62k states) | One invocation at a time that may die between its steps, torn JSON files, 1 section. `SnapshotDrift` still holds: a torn file is an empty baseline, and the drift is stated against it. |
| `drift_crash` | `SpecDiff_crash.cfg` | violation of `DriftReported` | A run that dies between the JSON write and the Markdown write hides the drift from every later Markdown report (finding). |
| `map_scan` | `SpecTestMap.cfg` | pass (1.25M states) | Every sequence of up to 2 paths, over 2 files of up to 3 lines each. The mapping equals the declarative reference `BoundIn`, and no bucket lists a test twice. |
| `map_coverage` | `SpecTestMap_coverage.cfg` | violation of `CoverageAsSpecified` | An annotation citing a non-section is counted as a mapped section (finding, code bug at line 73). |
| `validation_run` | `FinalValidation.cfg` | pass (168k states) | Two invocations, files changing between the tests, an exception wherever the code can raise one, Ctrl-C anywhere. `VerdictTrustworthy`: a saved report says ready exactly when all sixteen tests passed, and an exit 0 comes with such a report saying ready and the printed verdict YES. `ImplementsVerdict`: the run implements `ValidationVerdict` under the refinement mapping, including its weak fairness on print, save and exit. |
| `validation_savefault` | `FinalValidation_savefault.cfg` | violation of `VerdictAgreesWithExit` | main says exit 0 means ready and exit 1 not ready. TLC finds a run where every test passes, `PRODUCTION READY: YES` is printed and the report is saved as ready, and then main's SUCCESS print raises and the script exits 1. A save that raises after YES gives the same (finding). |
| `measure_scan` | `MeasureQuality.cfg` | pass (126k states) | Up to two entries of up to two lines. `CombinedIsSum`: the totals count every (file, line, pattern) match of the readable files outside `target`, whatever their order and the undecodable files between them. |
| `priority_targets` | `PriorityTargets.cfg` | pass (50k states) | Three entries, `limit` 2. `TopTargets`: the listed files are the highest-severity ones, highest first, ties in rglob order, each with its own score, none better omitted. |
| `returntypes` | `ReturnTypeFix.cfg` | pass (10k states) | Two runs over up to two multi-line functions (target or not, with or without a trailing `Ok(())`, an inner block, a blank line before `}`). `OkInsertedWhereNeeded`: each converted target ends with exactly one `Ok(())` and no other function changes. It is checked after both runs, so the second run on the script's own output must add no second `Ok(())`. |
| `returntypes_oneline` | `ReturnTypeFix_oneline.cfg` | violation of `OkInsertedWhereNeeded` | A one-line target gets no `Ok(())`, and the stale `in_target_function` puts one into the next function (finding). |

Why these bounds are enough:

- Two titles and two bodies separate every comparison outcome.
- Three lines per file are the shortest file with an annotation that is flushed, then one that is dropped: `annot`, `fn`, `annot`.
- Two paths cover both a repeated path and two distinct files.
- The faults run keeps one section, because a crash at each of three steps over two-section documents exceeds 8M states. The torn-write and lost-Markdown cases already appear with one section.

- `FinalValidation`: two invocations are enough for a stale report from an earlier run; the five files cover every phase 4 outcome.
- `MeasureQuality` and `PriorityTargets`: one level between the working directory and the root is the smallest tree where the root test is skipped; the line shapes include a `} else {` line, comment and block-comment lines, and lines of each severity; three entries with `limit` 2 give a tie across the truncation.
- `ReturnTypeFix`: two functions are the smallest file where a stale `in_target_function` reaches another function; two runs test a rerun on the script's own output.

Liveness: the fairness part of `ImplementsVerdict` (a printed verdict is eventually saved or failed, and a returned run eventually exits) is checked under `WF_vars(Step)`, justified above. The other tools are terminating scripts with nothing waiting on another process; the one question of eventuality there would be "a drift is eventually reported", which the crash run shows to be false, because a lost Markdown write is never redone.

Every property of every passing run has a mutant in `PROJECT.json`: a plausible bug in the mapped code that TLC finds violating it.

## 4. Proofs

`SpecDiffProofs` proves two theorems for all values of the constants, with any number of processes, crashes allowed and duplicate titles allowed:

- `TypeCorrect`: `Spec => []TypeOK`.
- `SnapshotDriftHolds`: `Spec => []SnapshotDrift`.

`SnapshotDrift` alone is not inductive, because it speaks of the documents behind the reports, not of the files. The inductive invariant `IInv` adds:

- `SnapFaithful`: the JSON file on disk is a sentinel exactly when `snapDoc` is `NoFile`. Otherwise its `sections` dict is faithful to `snapDoc`: its keys are the titles, and each hash is the hash of the last body with that title.
- `ReportFaithful`: each computed report's `sections` dict is faithful to the document that run read.

With these, `ReadPrev` reads a faithful dict. Its changed flags therefore compare against the last body of each title in the document behind the snapshot, which is what `ExactDrift` states.

The proof rests on these lemmas:

- `LastIndexIsLast`: the index chosen for a title is the greatest one. This is a well-founded minimum, via `WFMin` and `NatLessThanWellFounded`.
- `ToDictFaithful`.
- `MakeReportExact`.
- The type lemmas of the helpers.

`IInv` was model-checked as an invariant on the serial and faults configurations, and on one with duplicate titles, before it was proved.

`FinalValidationProofs` proves two theorems for every value of the constants (any bound on the invocations, save faults and interrupts allowed or not):

- `TypeCorrect`: `Spec => []TypeOK`.
- `VerdictTrustworthyHolds`: `Spec => []VerdictTrustworthy`.

`VerdictTrustworthy` is not inductive: it speaks of the report and the exit status, which are computed from `passed` and `failed` several steps earlier. The inductive invariant `IInv` adds:

- `passed` and `failed` are disjoint and finite. During a phase their union is `Done(ph, ti)`, the tests awaited so far; after the last phase it is all sixteen tests.
- From `print` on, `ready` is `CalculateOverallScore(passed, failed)`. From `save` on, `stdout` is the verdict of `ready`. At `exit` with `rv`, the report is `[ready |-> TRUE, passed |-> passed]`.
- A running invocation has no exit status yet, and exit 0 is only seen between invocations.

The lemmas:

- `DoneStart`, `DoneNext`, `DonePhase` and `DoneAll` follow the test loop. `DoneNext` rests on the sixteen test keys being distinct, so no test is counted twice.
- `ScoreExact` states that over a partition of the sixteen tests, `calculate_overall_score` says ready exactly when every test passed. Every phase is critical, so one failure is a critical failure, and the 95% threshold is then implied. It uses `FS_EmptySet`, `FS_Union` and `FS_CardinalityType`.

The proof also uses the named assumption `SentinelAssumption` of `FinalValidation`: the sentinels `NoFile` and `Torn` are not report records. TLC evaluates it on every run of the module. `IInv` was model-checked as an invariant of the `validation_run` configuration before it was proved.

`FinalValidationProofs` also proves `ImplementsVerdictSafety`: `Spec => Verdict!Safety`, the safety part of `ImplementsVerdict`. The argument is the usual one:

- `InitRefines`: an initial state maps to an initial state of `ValidationVerdict`.
- `NextRefines`: under `IInv`, every step maps to a step of `ValidationVerdict` or to a stutter. The proof has one case per action. `PrintValidationResults` maps to the abstract `ShowVerdict` with the witness `passed \ DOMAIN ConstantResult`. That needs `ScoreExact` and two conjuncts added to `IInv` for this proof: no unconditional test is ever in `failed`, and `stdout` is `"none"` while testing.
- The theorem follows from these and `[]IInv` by PTL.

The weak fairness of `Verdict!Spec` is liveness and stays with TLC.

`SpecDiffProofs` proves two more theorems under `SerialUse`: no crash (`~AllowCrash`) and a single process. This is how the script is meant to be used. The run `drift_crash` shows that `DriftReportedSerial` fails with crashes. Concurrent use is outside what the code supports: spec section 5 says concurrent runs race (last writer wins) and callers must serialize them.

- `DriftReportedSerial`: `SerialUse => (Spec => DriftReported)`. This is an action property: each Markdown report written states exactly the drift from the document of the Markdown report it replaces.
- `ReportsAgreeSerial`: `SerialUse => (Spec => []ReportsAgree)`.

Both rest on `SerialInv`, which strengthens `IInv` with the following:

- While the one process is idle, reading or writing the JSON, the snapshot's document is the Markdown report's document (`OldDoc(snapDoc) = mdDoc`). So the baseline it reads is the one behind the last Markdown report.
- From `WriteJson` on, its report's dict is `ToDict` of its rows. At `WriteMd`, the JSON on disk is that report's.
- When no process is at `WriteMd`, the two files agree (`AgreeOnDisk`).

`SerialNext` proves that `SerialInv` is inductive. `SerialDrift` then turns `SnapshotDrift` into the exact drift of each Markdown write.

`SpecTestMapProofs` proves, for every bound, set of files, texts and function names:

- `TypeCorrect`: `Spec => []TypeOK`.
- `MappingMatchesReferenceHolds`: `Spec => []MappingMatchesReference`. The streaming scanner writes exactly the bindings of the declarative reference `BoundIn`, with no test listed twice under a title.

Its inductive invariant `IInv` is a loop invariant of the scan at file `fi`, line `li`:

- `Scanned` is the reference's bindings in the files before `fi`, together with those of lines `1..li-1` of file `fi` (`BoundUpTo`). Each bucket of `specMap` has exactly those bindings as its range, and is injective.
- The range of `pending` is the set of titles `AnnotatedAt` line `li`: annotated by an `@spec` line after the last function line.
- A written mapping was written after the last file, from `specMap`.

The lemmas advance it one line at a time:

- `BoundStep` and `AnnotatedStep` give the effect of one more line. `BoundSkip`, `BoundFn`, `BoundFnOff`, `AnnotSkip`, `AnnotOpen` and `AnnotClose` are their cases by kind of line.
- `FlushBucket` covers the append guarded by the membership test, through `RangeAppend`.
- `ScannedNextFile` covers the move to the next file.
- `BoundAllIsBoundIn` states that a file scanned to its end has the reference's bindings.

The reference is stated over line indices, not by recursion, so no induction over data is needed. `IInv` was model-checked as an invariant of the `map_scan` configuration (1.25M states) before it was proved.

`PriorityTargetsProofs` proves two theorems for every tree depth, entry bound, set of line shapes and `limit`:

- `TypeCorrect`: `Spec => []TypeOK`.
- `TopTargetsHolds`: `Spec => []TopTargets`. The printed report has `min(limit, n)` entries, where `n` is the number of files with issues. Each entry has its own score. They come in descending score, with rglob order on ties. No file left out outranks a listed one.

Both theorems take two hypotheses, `FilesFact` and `SeverityFact`, which `PriorityTargets` states about library operators:

- `FilesFact`: the `SelectSeq` of `find_rust_files` returns a list of entries no longer than its input.
- `SeverityFact`: the `FoldLeft` score of a readable file is a natural number.

`SelectSeq` and `FoldLeft` are recursive functions. TLAPS knows no equations for them, and the induction that would derive those equations needs a theorem with an operator parameter. So the two facts are hypotheses of the theorems, not lemmas. `MC_PriorityTargets` states them as `ASSUME`s, so TLC evaluates them over every entry list and file of the run. Nothing else about the folds is assumed. In particular, the proof does not need to know which score a file gets.

The sort is proved correct first. `SortPos` places an issue after those with a higher score, and after those with an equal score and an earlier place. `SortPosAhead` shows that this place is one more than the size of `Ahead`. `SortPosMono`, `SortPosRange`, `SortPosInjective` and `SortPosOnto` follow; the last goes through `FS_Injection`. From them, `SortFacts` shows that `SortByScore` is a permutation that puts each issue at its `SortPos`.

The inductive invariant `IInv` is a loop invariant of `find_worst_files`. `ScanInv` states that, before index `i`, `file_issues` lists exactly the flagged files: in increasing order, each with its own score. After `Report`, `worst` is the prefix of the sorted list. `ScanCount` turns the ordered listing into a count: through an injection onto the flagged files, `len(file_issues)` is their number. `IInvTopTargets` derives `TopTargets` from these facts. `IInv` was model-checked as an invariant of the `priority_targets` configuration (50k states) before it was proved.

Out of the prover's reach, and left to TLC:

- `DriftReported` outside `SerialUse`, where it is false (the `drift_crash` run).
- The fairness part of `ImplementsVerdict`. These are liveness under fairness, which the installed backends do not prove for this model.
- Everything about `MeasureQuality` and `ReturnTypeFix`. Their properties are about what a fold computes: `CombinedIsSum` is about the totals of `FoldLeft` over the lines and entries, and `OkInsertedWhereNeeded` is about the lines `FlattenSeq` rebuilds. Proving this for every input needs an induction over the sequence, and the library's induction theorems take an operator parameter that none of the installed provers can instantiate. Unlike in `PriorityTargets`, the fact these properties need is the property itself, so stating it as a hypothesis would prove nothing. Their type invariants need only the types of the fold results, and are left for a later sitting.
- `FilesFact` and `SeverityFact` for every input, for the same reason. TLC checks them on the `priority_targets` instance.

## 5. Defects the models show without a run

The project keeps at most twelve runs, so these defects are modelled but have no violation run of their own. Each is listed as a hazard in `PROJECT.json`:

- `spec_diff.py` line 261: with a duplicated title the snapshot keeps the last body, so the earlier occurrence is reported changed on every rerun of an unchanged document. Spec section 8's idempotence forbids this.
- `measure_quality.py` line 60: `count_nesting_depth` adds a line's `{` before subtracting its `}`, so `} else {` counts one level too deep.
- `measure_quality.py` line 253: the root search never tests the filesystem root itself. The same loop is at line 106 of `find_priority_targets.py`.
- `measure_quality.py` line 148: a directory named `*.rs` raises `IsADirectoryError`, which is not caught, and the measurement dies. `find_priority_targets.py` catches the error and skips the entry.
- `fix_return_types.py` line 80: `wait_terminated` gets `-> StunResult<()>` but never an `Ok(())`.

## 6. Not modelled, and plan

Not modelled:

- The repair scripts other than `fix_return_types.py`. They are one-shot regex rewrites with no shared state and no control beyond read, substitute, write; modelling them would mean modelling Python's `re` on Rust text. A candidate for later: the non-idempotence of `fix_unused_results.py`, which `fix_double_let.py` exists to undo.
- `find_worst_files.py`: it counts `findall` matches over the whole text, comments included, which needs a character-level model.
- `test-mock.py`: two threads that serve constant responses and share no state.
- The `.ok()?` rewrite of `fix_return_types.py` and `fix_async_blocks`, which only prints.
- Formatting, timestamps, the delta-doc presence flags and the threshold warning: no property is about them.

Plan for the next sittings, in order:

1. `SectionExtract`: the line-level `extract_sections`, checked against a reference split over short line sequences. This includes the indented-heading disagreement with `spec_test_map.py` and the prefix test for numbered sections.
2. `KeywordCoverage`: normalisation and the keyword scan over a small alphabet. Its property is monotonicity of coverage under appending text.
3. `DriftPipeline`: composes `SpecTestMap` and `SpecDiff` through the mapping file. It shows the stale-mapping hazard.
4. A structural lemma about `FlattenSeq` over the rewritten lines, stated without an operator parameter, to bring the type invariant of `ReturnTypeFix` within reach.
