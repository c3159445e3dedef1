--------------------------- MODULE SpecDiffProofs ---------------------------
(***************************************************************************)
(* Proofs about SpecDiff: type correctness, and that every report a run    *)
(* computes is exactly the drift between the document its snapshot was    *)
(* built from and the document it read (SnapshotDrift), for every value   *)
(* of the constants.                                                       *)
(***************************************************************************)
EXTENDS SpecDiff, WellFoundedInduction, TLAPS

-----------------------------------------------------------------------------
(* Lemmas about the operators of the model *)

\* A title that occurs in s has a last occurrence, and LastIndex finds it.
LEMMA LastIndexIsLast ==
    ASSUME NEW S, NEW s \in Seq(S), NEW t, t \in {s[i].title : i \in DOMAIN s}
    PROVE  /\ LastIndex(s, t) \in DOMAIN s
           /\ s[LastIndex(s, t)].title = t
           /\ \A j \in DOMAIN s : s[j].title = t => j <= LastIndex(s, t)
<1> DEFINE T == {Len(s) - i : i \in {k \in DOMAIN s : s[k].title = t}}
<1>1. T \subseteq Nat /\ T # {}
  BY DOMAIN s = 1..Len(s)
<1>2. PICK x \in T : \A y \in T : ~(<<y, x>> \in OpToRel(<, Nat))
  BY <1>1, NatLessThanWellFounded, WFMin
<1>3. PICK i \in DOMAIN s : s[i].title = t /\ x = Len(s) - i
  BY <1>2
<1>4. \A j \in DOMAIN s : s[j].title = t => j <= i
  <2> SUFFICES ASSUME NEW j \in DOMAIN s, s[j].title = t PROVE j <= i
    OBVIOUS
  <2>1. Len(s) - j \in T /\ Len(s) - j \in Nat /\ x \in Nat
    BY <1>1, <1>3
  <2>2. ~(Len(s) - j < x)
    BY <1>2, <2>1 DEF OpToRel
  <2>. QED
    BY <2>2, <1>3, DOMAIN s = 1..Len(s)
<1>. QED
  BY <1>3, <1>4 DEF LastIndex

\* The elements of a sequence over S are in S.
LEMMA SeqElems ==
    ASSUME NEW S, NEW s \in Seq(S)
    PROVE  \A i \in DOMAIN s : s[i] \in S
OBVIOUS

\* A document is a finite sequence of sections, and the empty one is a document.
LEMMA DocIsSeq ==
    ASSUME NEW d \in Doc
    PROVE  d \in Seq(Section)
BY DEF Doc, BoundedSeq

LEMMA EmptyIsDoc == <<>> \in Doc
<1>1. <<>> \in [1..0 -> Section]
  OBVIOUS
<1>2. 0 \in 0..MaxSections
  BY ConstantsAssumption
<1>. QED
  BY <1>1, <1>2 DEF Doc, BoundedSeq, DistinctTitles

\* build_section_infos yields one SectionInfo per section, with its title.
LEMMA BuildType ==
    ASSUME NEW secs \in Seq(Section), NEW prev
    PROVE  /\ BuildSectionInfos(secs, prev) \in Seq(Info)
           /\ DOMAIN BuildSectionInfos(secs, prev) = DOMAIN secs
           /\ \A i \in DOMAIN secs :
                /\ BuildSectionInfos(secs, prev)[i].title = secs[i].title
                /\ BuildSectionInfos(secs, prev)[i].hash = Hash(secs[i].body)
           /\ TitlesOf(BuildSectionInfos(secs, prev)) = TitlesOf(secs)
<1>a. \A i \in DOMAIN secs : secs[i] \in Section
  BY SeqElems
<1>0. \A i \in DOMAIN secs : secs[i].title \in Title /\ secs[i].body \in Body
  BY <1>a DEF Section
<1>1. \A i \in DOMAIN secs : Hash(secs[i].body) \in Digest
  BY <1>0 DEF Digest
<1>2. BuildSectionInfos(secs, prev) \in [1..Len(secs) -> Info]
  BY <1>0, <1>1 DEF BuildSectionInfos, Info
<1>. QED
  BY <1>2 DEF BuildSectionInfos, TitlesOf

\* The sections dict has an entry per title, taken from a SectionInfo.
LEMMA ToDictType ==
    ASSUME NEW infos \in Seq(Info)
    PROVE  ToDict(infos) \in SectionsDict
<1>0. \A i \in DOMAIN infos : infos[i] \in Info
  BY SeqElems
<1>1. \A t \in TitlesOf(infos) : LastIndex(infos, t) \in DOMAIN infos
  BY LastIndexIsLast DEF TitlesOf
<1>2. TitlesOf(infos) \in SUBSET Title
  BY <1>0 DEF TitlesOf, Info
<1>3. ToDict(infos) \in [TitlesOf(infos) -> Entry]
  BY <1>0, <1>1 DEF ToDict, Entry, Info
<1>. QED
  BY <1>2, <1>3 DEF SectionsDict

LEMMA MakeReportType ==
    ASSUME NEW secs \in Seq(Section), NEW prev \in SectionsDict
    PROVE  MakeReport(secs, prev) \in Report
<1>1. BuildSectionInfos(secs, prev) \in Seq(Info)
  BY BuildType
<1>2. ToDict(BuildSectionInfos(secs, prev)) \in SectionsDict
  BY <1>1, ToDictType
<1>3. DOMAIN prev \subseteq Title
  BY DEF SectionsDict
<1>a. \A i \in DOMAIN secs : secs[i] \in Section
  BY SeqElems
<1>4. TitlesOf(secs) \subseteq Title
  BY <1>a DEF TitlesOf, Section
<1>. QED
  BY <1>1, <1>2, <1>3, <1>4 DEF MakeReport, Report

LEMMA PrevSectionsType ==
    ASSUME NEW f \in JsonReport \cup {NoFile, Corrupt}
    PROVE  PrevSections(f) \in SectionsDict
<1>1. <<>> \in [{} -> Entry]
  OBVIOUS
<1>. QED
  BY <1>1 DEF PrevSections, JsonReport, SectionsDict

LEMMA NoReportType == NoReport \in Report
BY EmptyIsDoc, DocIsSeq, PrevSectionsType, MakeReportType DEF NoReport, PrevSections

LEMMA JsonMdType ==
    ASSUME NEW r \in Report
    PROVE  JsonOf(r) \in JsonReport /\ MdOf(r) \in MdReport
BY DEF JsonOf, MdOf, Report, JsonReport, MdReport

-----------------------------------------------------------------------------
(* Type correctness *)

LEMMA InitTypeOK == Init => TypeOK
BY EmptyIsDoc, NoReportType DEF Init, TypeOK

\* The locals a run drops when it ends keep their types.
LEMMA FinishType ==
    ASSUME TypeOK, NEW p \in Proc, Finish(p)
    PROVE  /\ spec' \in [Proc -> Doc]
           /\ report' \in [Proc -> Report]
           /\ base' \in [Proc -> Doc \cup {NoFile}]
BY EmptyIsDoc, NoReportType DEF Finish, TypeOK

LEMMA NextTypeOK == TypeOK /\ [Next]_vars => TypeOK'
<1> SUFFICES ASSUME TypeOK, [Next]_vars PROVE TypeOK'
  OBVIOUS
<1>1. ASSUME NEW p \in Proc, ReadSpec(p) PROVE TypeOK'
  BY <1>1 DEF ReadSpec, TypeOK
<1>2. ASSUME NEW p \in Proc, ReadPrev(p) PROVE TypeOK'
  <2>1. MakeReport(spec[p], PrevSections(snapFile)) \in Report
    BY DocIsSeq, PrevSectionsType, MakeReportType DEF TypeOK
  <2>. QED
    BY <1>2, <2>1 DEF ReadPrev, TypeOK
<1>3. ASSUME NEW p \in Proc, WriteJson(p) PROVE TypeOK'
  BY <1>3, JsonMdType DEF WriteJson, TypeOK
<1>4. ASSUME NEW p \in Proc, WriteMd(p) PROVE TypeOK'
  BY <1>4, JsonMdType, FinishType DEF WriteMd, TypeOK
<1>5. ASSUME NEW p \in Proc, Crash(p) PROVE TypeOK'
  BY <1>5, FinishType DEF Crash, TypeOK
<1>6. CASE EditDoc
  BY <1>6 DEF EditDoc, TypeOK
<1>7. CASE UNCHANGED vars
  BY <1>7 DEF vars, TypeOK
<1>. QED
  BY <1>1, <1>2, <1>3, <1>4, <1>5, <1>6, <1>7 DEF Next

\* Every reachable state is well typed.
THEOREM TypeCorrect == Spec => []TypeOK
BY InitTypeOK, NextTypeOK, PTL DEF Spec

-----------------------------------------------------------------------------
(* The inductive invariant behind SnapshotDrift *)

\* The sections dict sd records, for every title of document d, the hash of
\* the last body d has under that title, and no other title.
Faithful(sd, d) ==
    /\ DOMAIN sd = TitlesOf(d)
    /\ \A t \in TitlesOf(d) : sd[t].hash = Hash(LastBody(d, t))

\* The baseline document of a run: none when its snapshot was missing.
OldDoc(b) == IF b = NoFile THEN <<>> ELSE b

\* The JSON report on disk is faithful to the document it was built from,
\* and it is missing or unparsable exactly when there is no such document.
SnapFaithful ==
    /\ (snapFile \in {NoFile, Corrupt}) <=> (snapDoc = NoFile)
    /\ snapDoc # NoFile => Faithful(snapFile.sections, snapDoc)

\* A run about to write holds a sections dict faithful to what it read.
ReportFaithful ==
    \A p \in Proc :
        pc[p] \in {"WriteJson", "WriteMd"} => Faithful(report[p].sections, spec[p])

\* Two sequences with the same titles at the same indices have the same
\* last occurrence of every title.
LEMMA LastIndexSameTitles ==
    ASSUME NEW S1, NEW S2, NEW s1 \in Seq(S1), NEW s2 \in Seq(S2),
           DOMAIN s1 = DOMAIN s2,
           \A i \in DOMAIN s1 : s1[i].title = s2[i].title,
           NEW t \in TitlesOf(s1)
    PROVE  LastIndex(s1, t) = LastIndex(s2, t)
<1>1. t \in TitlesOf(s2)
  BY DEF TitlesOf
<1>2. /\ LastIndex(s1, t) \in DOMAIN s1
      /\ s1[LastIndex(s1, t)].title = t
      /\ \A j \in DOMAIN s1 : s1[j].title = t => j <= LastIndex(s1, t)
  BY LastIndexIsLast DEF TitlesOf
<1>3. /\ LastIndex(s2, t) \in DOMAIN s2
      /\ s2[LastIndex(s2, t)].title = t
      /\ \A j \in DOMAIN s2 : s2[j].title = t => j <= LastIndex(s2, t)
  BY <1>1, LastIndexIsLast DEF TitlesOf
<1>. QED
  BY <1>2, <1>3

\* The dict main() writes is faithful to the document it read.
LEMMA ToDictFaithful ==
    ASSUME NEW secs \in Seq(Section), NEW prev
    PROVE  Faithful(ToDict(BuildSectionInfos(secs, prev)), secs)
<1> DEFINE infos == BuildSectionInfos(secs, prev)
<1>1. /\ infos \in Seq(Info)
      /\ DOMAIN infos = DOMAIN secs
      /\ \A i \in DOMAIN secs : infos[i].title = secs[i].title
                                /\ infos[i].hash = Hash(secs[i].body)
      /\ TitlesOf(infos) = TitlesOf(secs)
  BY BuildType
<1>2. DOMAIN ToDict(infos) = TitlesOf(secs)
  BY <1>1 DEF ToDict
<1>3. ASSUME NEW t \in TitlesOf(secs)
      PROVE  ToDict(infos)[t].hash = Hash(LastBody(secs, t))
  <2>1. LastIndex(infos, t) = LastIndex(secs, t)
    BY <1>1, <1>3, LastIndexSameTitles
  <2>2. LastIndex(secs, t) \in DOMAIN secs
    BY <1>3, LastIndexIsLast DEF TitlesOf
  <2>. QED
    BY <1>1, <1>3, <2>1, <2>2 DEF ToDict, LastBody
<1>. QED
  BY <1>2, <1>3 DEF Faithful

\* Against a faithful baseline, main() reports exactly the drift.
LEMMA MakeReportExact ==
    ASSUME NEW old \in Seq(Section), NEW cur \in Seq(Section), NEW prev,
           Faithful(prev, old)
    PROVE  ExactDrift(old, cur, MakeReport(cur, prev))
<1> DEFINE r == MakeReport(cur, prev)
<1>1. r.new = TitlesOf(cur) \ TitlesOf(old) /\ r.removed = TitlesOf(old) \ TitlesOf(cur)
  BY DEF Faithful, MakeReport
<1>2. ASSUME NEW i \in DOMAIN cur
      PROVE  r.rows[i].changed <=>
               /\ cur[i].title \in TitlesOf(old)
               /\ LastBody(old, cur[i].title) # cur[i].body
  <2>1. r.rows[i].changed <=>
          /\ cur[i].title \in DOMAIN prev
          /\ prev[cur[i].title].hash # Hash(cur[i].body)
    BY <1>2 DEF MakeReport, BuildSectionInfos
  <2>2. cur[i].title \in TitlesOf(old) =>
          prev[cur[i].title].hash = Hash(LastBody(old, cur[i].title))
    BY DEF Faithful
  <2>. QED
    BY <2>1, <2>2 DEF Faithful, Hash
<1>. QED
  BY <1>1, <1>2 DEF ExactDrift

IInv == TypeOK /\ SnapFaithful /\ ReportFaithful /\ SnapshotDrift

LEMMA InitIInv == Init => IInv
<1> SUFFICES ASSUME Init PROVE IInv
  OBVIOUS
<1>1. TypeOK
  BY InitTypeOK
<1>. QED
  BY <1>1 DEF Init, IInv, SnapFaithful, ReportFaithful, SnapshotDrift

\* The steps that leave the JSON report, its history and every run's
\* pc, sections, report and baseline alone preserve the invariant.
LEMMA FrameIInv ==
    ASSUME IInv, TypeOK',
           UNCHANGED <<snapFile, snapDoc>>,
           \A q \in Proc : pc'[q] \in {"WriteJson", "WriteMd"} =>
               /\ pc[q] \in {"WriteJson", "WriteMd"}
               /\ UNCHANGED <<spec[q], report[q], base[q]>>
    PROVE  IInv'
BY DEF IInv, SnapFaithful, ReportFaithful, SnapshotDrift

LEMMA NextIInv == IInv /\ [Next]_vars => IInv'
<1> SUFFICES ASSUME IInv, [Next]_vars PROVE IInv'
  OBVIOUS
<1>0. TypeOK /\ TypeOK'
  BY NextTypeOK DEF IInv
<1>1. ASSUME NEW p \in Proc, ReadSpec(p) PROVE IInv'
  BY <1>0, <1>1, FrameIInv DEF ReadSpec, TypeOK
<1>2. ASSUME NEW p \in Proc, ReadPrev(p) PROVE IInv'
  <2> DEFINE prev == PrevSections(snapFile)
  <2>1. spec[p] \in Seq(Section)
    BY <1>0, DocIsSeq DEF TypeOK
  <2>0. base'[p] = IF snapFile \in {NoFile, Corrupt} THEN NoFile ELSE snapDoc
    BY <1>0, <1>2 DEF ReadPrev, TypeOK
  <2>2. Faithful(prev, OldDoc(base'[p]))
    <3>1. CASE snapFile \in {NoFile, Corrupt}
      <4>1. prev = <<>> /\ OldDoc(base'[p]) = <<>>
        BY <2>0, <3>1 DEF PrevSections, OldDoc
      <4>2. DOMAIN <<>> = {} /\ TitlesOf(<<>>) = {}
        BY DEF TitlesOf
      <4>. QED
        BY <4>1, <4>2 DEF Faithful
    <3>2. CASE snapFile \notin {NoFile, Corrupt}
      <4>1. snapDoc # NoFile /\ Faithful(snapFile.sections, snapDoc)
        BY <3>2 DEF IInv, SnapFaithful
      <4>2. prev = snapFile.sections /\ OldDoc(base'[p]) = snapDoc
        BY <2>0, <3>2, <4>1 DEF PrevSections, OldDoc
      <4>. QED
        BY <4>1, <4>2
    <3>. QED
      BY <3>1, <3>2
  <2>3. OldDoc(base'[p]) \in Seq(Section)
    <3>1. base'[p] \in Doc \cup {NoFile}
      BY <1>0 DEF TypeOK
    <3>. QED
      BY <3>1, DocIsSeq DEF OldDoc
  <2>4. ExactDrift(OldDoc(base'[p]), spec[p], MakeReport(spec[p], prev))
    BY <2>1, <2>2, <2>3, MakeReportExact
  <2>5. Faithful(MakeReport(spec[p], prev).sections, spec[p])
    BY <2>1, ToDictFaithful DEF MakeReport
  <2>6. SnapshotDrift'
    <3> SUFFICES ASSUME NEW q \in Proc, pc'[q] \in {"WriteJson", "WriteMd"}
                 PROVE  ExactDrift(OldDoc(base'[q]), spec'[q], report'[q])
      BY DEF SnapshotDrift, OldDoc
    <3>1. CASE q = p
      BY <1>0, <1>2, <2>4, <3>1 DEF ReadPrev, TypeOK
    <3>2. CASE q # p
      BY <1>0, <1>2, <3>2 DEF ReadPrev, TypeOK, IInv, SnapshotDrift, OldDoc
    <3>. QED
      BY <3>1, <3>2
  <2>7. ReportFaithful'
    <3> SUFFICES ASSUME NEW q \in Proc, pc'[q] \in {"WriteJson", "WriteMd"}
                 PROVE  Faithful(report'[q].sections, spec'[q])
      BY DEF ReportFaithful
    <3>1. CASE q = p
      BY <1>0, <1>2, <2>5, <3>1 DEF ReadPrev, TypeOK
    <3>2. CASE q # p
      BY <1>0, <1>2, <3>2 DEF ReadPrev, TypeOK, IInv, ReportFaithful
    <3>. QED
      BY <3>1, <3>2
  <2>8. SnapFaithful'
    BY <1>2 DEF ReadPrev, SnapFaithful, IInv
  <2>. QED
    BY <1>0, <2>6, <2>7, <2>8 DEF IInv
<1>3. ASSUME NEW p \in Proc, WriteJson(p) PROVE IInv'
  <2>1. JsonOf(report[p]) \notin {NoFile, Corrupt}
    BY <1>0, JsonMdType, SentinelsAssumption DEF TypeOK
  <2>2. spec[p] # NoFile
    BY <1>0, SentinelsAssumption DEF TypeOK
  <2>3. Faithful(report[p].sections, spec[p])
    BY <1>3 DEF WriteJson, IInv, ReportFaithful
  <2>4. SnapFaithful'
    BY <1>3, <2>1, <2>2, <2>3 DEF WriteJson, SnapFaithful, JsonOf
  <2>5. ReportFaithful' /\ SnapshotDrift'
    BY <1>3 DEF WriteJson, IInv, ReportFaithful, SnapshotDrift
  <2>. QED
    BY <1>0, <2>4, <2>5 DEF IInv
<1>4. ASSUME NEW p \in Proc, WriteMd(p) PROVE IInv'
  BY <1>0, <1>4, FrameIInv DEF WriteMd, Finish, TypeOK
<1>5. ASSUME NEW p \in Proc, Crash(p) PROVE IInv'
  <2>1. \A q \in Proc : pc'[q] \in {"WriteJson", "WriteMd"} =>
          /\ pc[q] \in {"WriteJson", "WriteMd"}
          /\ UNCHANGED <<spec[q], report[q], base[q]>>
    BY <1>0, <1>5 DEF Crash, Finish, TypeOK
  <2>2. SnapFaithful'
    BY <1>5 DEF Crash, IInv, SnapFaithful
  <2>. QED
    BY <1>0, <2>1, <2>2 DEF IInv, ReportFaithful, SnapshotDrift
<1>6. CASE EditDoc
  BY <1>0, <1>6, FrameIInv DEF EditDoc
<1>7. CASE UNCHANGED vars
  BY <1>0, <1>7, FrameIInv DEF vars
<1>. QED
  BY <1>1, <1>2, <1>3, <1>4, <1>5, <1>6, <1>7 DEF Next

\* Every report a run computes, and so every JSON and Markdown report it
\* writes, is exactly the drift between the document its snapshot was
\* built from and the document it read, for every number of concurrent
\* runs, crashes, titles and bodies.
THEOREM SnapshotDriftHolds == Spec => []SnapshotDrift
<1>1. IInv => SnapshotDrift
  BY DEF IInv
<1>. QED
  BY InitIInv, NextIInv, <1>1, PTL DEF Spec


-----------------------------------------------------------------------------
(* Serial, crash-free use: one invocation at a time, none dies *)

\* The use the script is written for: main() runs to completion before the
\* next invocation starts (there is at most one invocation), and no write
\* is cut short.
SerialUse ==
    /\ ~AllowCrash
    /\ \A p, q \in Proc : p = q

\* The JSON and the Markdown report on disk come from the same report.
AgreeOnDisk ==
    mdFile # NoFile =>
        /\ snapFile \notin {NoFile, Corrupt}
        /\ snapFile.new = mdFile.new
        /\ snapFile.removed = mdFile.removed
        /\ snapFile.sections = ToDict(mdFile.rows)

\* Under serial use, the Markdown report on disk was rendered from the
\* document the JSON report was built from (from the empty document before
\* the first JSON report), so it is the baseline of the running invocation;
\* between its two writes the JSON report is the one it computed.
SerialInv ==
    /\ IInv
    /\ \A p \in Proc :
         /\ pc[p] \in {"Idle", "ReadPrev", "WriteJson"} => OldDoc(snapDoc) = mdDoc
         /\ pc[p] \in {"WriteJson", "WriteMd"} =>
              /\ OldDoc(base[p]) = mdDoc
              /\ report[p].sections = ToDict(report[p].rows)
         /\ pc[p] = "WriteMd" => snapFile = JsonOf(report[p]) /\ snapDoc = spec[p]
    /\ (\A p \in Proc : pc[p] # "WriteMd") => AgreeOnDisk


LEMMA SerialInit ==
    ASSUME Init PROVE SerialInv
<1>1. IInv
  BY InitIInv
<1>2. OldDoc(snapDoc) = mdDoc
  BY DEF Init, OldDoc
<1>. QED
  BY <1>1, <1>2 DEF Init, SerialInv, AgreeOnDisk

LEMMA SerialNext ==
    ASSUME SerialUse, SerialInv, [Next]_vars PROVE SerialInv'
<1> USE DEF SerialInv
<1>0. IInv' /\ TypeOK /\ TypeOK'
  BY NextIInv, NextTypeOK DEF IInv
<1>1. ASSUME NEW p \in Proc, ReadSpec(p) PROVE SerialInv'
  <2>1. pc'[p] \in {"Idle", "ReadPrev"}
    BY <1>0, <1>1 DEF ReadSpec, TypeOK
  <2>2. \A q \in Proc : q = p
    BY DEF SerialUse
  <2>. QED
    BY <1>0, <1>1, <2>1, <2>2 DEF ReadSpec, AgreeOnDisk
<1>2. ASSUME NEW p \in Proc, ReadPrev(p) PROVE SerialInv'
  <2>1. \A q \in Proc : q = p
    BY DEF SerialUse
  <2>2. pc'[p] = "WriteJson" /\ pc[p] = "ReadPrev"
    BY <1>0, <1>2 DEF ReadPrev, TypeOK
  <2>3. OldDoc(base'[p]) = mdDoc'
    <3>1. base'[p] = IF snapFile \in {NoFile, Corrupt} THEN NoFile ELSE snapDoc
      BY <1>0, <1>2 DEF ReadPrev, TypeOK
    <3>2. (snapFile \in {NoFile, Corrupt}) <=> (snapDoc = NoFile)
      BY DEF IInv, SnapFaithful
    <3>. QED
      BY <1>2, <2>2, <3>1, <3>2 DEF ReadPrev, OldDoc
  <2>4. report'[p].sections = ToDict(report'[p].rows)
    BY <1>0, <1>2 DEF ReadPrev, TypeOK, MakeReport
  <2>. QED
    BY <1>0, <1>2, <2>1, <2>2, <2>3, <2>4 DEF ReadPrev, AgreeOnDisk
<1>3. ASSUME NEW p \in Proc, WriteJson(p) PROVE SerialInv'
  <2>1. \A q \in Proc : q = p
    BY DEF SerialUse
  <2>2. pc'[p] = "WriteMd" /\ pc[p] = "WriteJson"
    BY <1>0, <1>3 DEF WriteJson, TypeOK
  <2>. QED
    BY <1>0, <1>3, <2>1, <2>2 DEF WriteJson
<1>4. ASSUME NEW p \in Proc, WriteMd(p) PROVE SerialInv'
  <2>1. \A q \in Proc : q = p
    BY DEF SerialUse
  <2>2. pc'[p] = "Idle" /\ pc[p] = "WriteMd"
    BY <1>0, <1>4 DEF WriteMd, TypeOK
  <2>3. OldDoc(snapDoc') = mdDoc'
    <3>1. spec[p] # NoFile
      BY <1>0, SentinelsAssumption DEF TypeOK
    <3>. QED
      BY <1>4, <2>2, <3>1 DEF WriteMd, OldDoc
  <2>4. AgreeOnDisk'
    <3>1. snapFile = JsonOf(report[p]) /\ report[p].sections = ToDict(report[p].rows)
      BY <2>2
    <3>2. JsonOf(report[p]) \notin {NoFile, Corrupt}
      BY <1>0, JsonMdType, SentinelsAssumption DEF TypeOK
    <3>. QED
      BY <1>4, <3>1, <3>2 DEF WriteMd, AgreeOnDisk, JsonOf, MdOf
  <2>. QED
    BY <1>0, <2>1, <2>2, <2>3, <2>4
<1>5. ASSUME NEW p \in Proc, Crash(p) PROVE SerialInv'
  BY <1>5 DEF Crash, SerialUse
<1>6. CASE EditDoc
  BY <1>0, <1>6 DEF EditDoc, AgreeOnDisk
<1>7. CASE UNCHANGED vars
  BY <1>0, <1>7 DEF vars, AgreeOnDisk
<1>. QED
  BY <1>1, <1>2, <1>3, <1>4, <1>5, <1>6, <1>7 DEF Next

\* The Markdown report a step writes records exactly the drift from the
\* document of the Markdown report it replaces.
LEMMA SerialDrift ==
    ASSUME SerialInv, NEW p \in Proc, WriteMd(p)
    PROVE  ExactDrift(mdDoc, spec[p], mdFile')
<1>1. pc[p] = "WriteMd"
  BY DEF WriteMd
<1>2. ExactDrift(OldDoc(base[p]), spec[p], report[p]) /\ OldDoc(base[p]) = mdDoc
  BY <1>1 DEF SerialInv, IInv, SnapshotDrift, OldDoc
<1>. QED
  BY <1>2 DEF WriteMd, MdOf, ExactDrift

\* When spec_diff.py is run one invocation at a time and no run dies, every
\* Markdown report it writes shows exactly the drift since the Markdown
\* report before it (DriftReported), for every document, title and body,
\* duplicate titles included.
THEOREM DriftReportedSerial ==
    ASSUME SerialUse PROVE Spec => DriftReported
<1>1. Spec => []SerialInv
  BY SerialInit, SerialNext, PTL DEF Spec
<1>2. SerialInv /\ [Next]_vars =>
        [\A p \in Proc : WriteMd(p) => ExactDrift(mdDoc, spec[p], mdFile')]_vars
  BY SerialDrift
<1>. QED
  BY <1>1, <1>2, PTL DEF Spec, DriftReported

\* When spec_diff.py is run one invocation at a time and no run dies, the
\* JSON and the Markdown report on disk agree whenever no run is in
\* progress (ReportsAgree).
THEOREM ReportsAgreeSerial ==
    ASSUME SerialUse PROVE Spec => []ReportsAgree
<1>1. SerialInv => ReportsAgree
  BY DEF SerialInv, AgreeOnDisk, ReportsAgree
<1>. QED
  BY SerialInit, SerialNext, <1>1, PTL DEF Spec

=============================================================================
