------------------------ MODULE PriorityTargetsProofs ------------------------
(***************************************************************************)
(* Proofs about PriorityTargets, the model of find_priority_targets.py:   *)
(* the sort of find_worst_files is a stable permutation by descending     *)
(* score, and the printed targets are the best `limit` files.  The proofs  *)
(* take FilesFact and SeverityFact, two facts about SelectSeq and FoldLeft *)
(* that MC_PriorityTargets lets TLC evaluate, as hypotheses.              *)
(***************************************************************************)
EXTENDS PriorityTargets, FiniteSetTheorems, SequenceTheorems, TLAPS

\* s[j] comes before s[k] in the sorted list: a higher score, or an equal
\* score and an earlier place (Python's sort is stable).
Prec(s, j, k) ==
    \/ s[j].score > s[k].score
    \/ s[j].score = s[k].score /\ j < k

\* The entries that the sort puts before s[k].
Ahead(s, k) == {j \in DOMAIN s : Prec(s, j, k)}

\* The severity of an entry, and the indices of the files with issues.
SevOf(e) == SeverityScore(AnalyzeFile(e))
Flagged(fs) == {k \in DOMAIN fs : fs[k].kind # "dir" /\ SevOf(fs[k]) > 0}

\* The loop of find_worst_files after the files before index n: file_issues
\* lists the flagged ones among them, in rglob order, each with its score.
ScanInv(fs, n, is) ==
    /\ is \in Seq(Issue)
    /\ \A r1, r2 \in DOMAIN is : r1 < r2 => is[r1].file < is[r2].file
    /\ {is[r].file : r \in DOMAIN is} = {k \in Flagged(fs) : k < n}
    /\ \A r \in DOMAIN is : is[r].score = SevOf(fs[is[r].file])

\* The inductive invariant.
IInv ==
    /\ TypeOK
    /\ entries \in BoundedSeq(Found, MaxEntries)
    /\ pc \in {"root", "files"} =>
         /\ files = <<>> /\ i = 1 /\ issues = <<>> /\ worst = <<>> /\ out = "running"
    /\ pc = "scan" =>
         /\ i \in 1..(Len(files) + 1) /\ ScanInv(files, i, issues)
         /\ worst = <<>> /\ out = "running"
    /\ pc = "done" => out \in {"no_root", "report"}
    /\ out = "report" =>
         /\ i = Len(files) + 1 /\ ScanInv(files, i, issues)
         /\ worst = SubSeq(SortByScore(issues), 1, Min({Limit, Len(issues)}))

-----------------------------------------------------------------------------
(* The stable sort by descending score *)

\* The places and scores of a list of issues are natural numbers.
LEMMA IssueShape ==
    ASSUME NEW s \in Seq(Issue)
    PROVE  /\ DOMAIN s = 1..Len(s) /\ Len(s) \in Nat
           /\ \A j \in DOMAIN s : s[j].score \in Nat /\ s[j].file \in Nat
<1>1. \A j \in DOMAIN s : s[j] \in Issue
  OBVIOUS
<1>. QED
  BY <1>1 DEF Issue

\* Prec is a strict total order on the places of a list of issues.
LEMMA PrecOrder ==
    ASSUME NEW s \in Seq(Issue)
    PROVE  /\ \A k \in DOMAIN s : ~Prec(s, k, k)
           /\ \A j, k, l \in DOMAIN s : Prec(s, j, k) /\ Prec(s, k, l) => Prec(s, j, l)
           /\ \A j, k \in DOMAIN s : j # k => Prec(s, j, k) \/ Prec(s, k, j)
BY IssueShape DEF Prec

\* The place SortPos gives s[k] is one more than the number of entries
\* ahead of it, none of which is s[k] itself.
LEMMA SortPosAhead ==
    ASSUME NEW s \in Seq(Issue), NEW k \in DOMAIN s
    PROVE  /\ IsFiniteSet(Ahead(s, k))
           /\ Ahead(s, k) \subseteq DOMAIN s \ {k}
           /\ SortPos(s, k) = 1 + Cardinality(Ahead(s, k))
<1> DEFINE A == {j \in DOMAIN s : s[j].score > s[k].score}
           B == {j \in DOMAIN s : j < k /\ s[j].score = s[k].score}
<1>1. IsFiniteSet(DOMAIN s)
  BY IssueShape, FS_Interval
<1>2. IsFiniteSet(A) /\ IsFiniteSet(B)
  BY <1>1, FS_Subset
<1>3. A \cap B = {} /\ Ahead(s, k) = A \cup B
  BY IssueShape DEF Ahead, Prec
<1>4. IsFiniteSet(A \cup B) /\ Cardinality(A \cup B) = Cardinality(A) + Cardinality(B) - Cardinality(A \cap B)
  BY <1>2, FS_Union
<1>5. Cardinality(A \cap B) = 0
  BY <1>3, FS_EmptySet
<1>6. Ahead(s, k) \subseteq DOMAIN s \ {k}
  BY PrecOrder DEF Ahead
<1>7. Cardinality(A) \in Nat /\ Cardinality(B) \in Nat
  BY <1>2, FS_CardinalityType
<1>. QED
  BY <1>3, <1>4, <1>5, <1>6, <1>7 DEF SortPos

\* An entry ahead of another gets a smaller place.
LEMMA SortPosMono ==
    ASSUME NEW s \in Seq(Issue), NEW j \in DOMAIN s, NEW k \in DOMAIN s, Prec(s, j, k)
    PROVE  SortPos(s, j) < SortPos(s, k)
<1>1. Ahead(s, j) \subseteq Ahead(s, k)
  BY PrecOrder DEF Ahead
<1>2. j \in Ahead(s, k) /\ j \notin Ahead(s, j)
  BY PrecOrder DEF Ahead
<1>3. /\ IsFiniteSet(Ahead(s, k))
      /\ SortPos(s, j) = 1 + Cardinality(Ahead(s, j))
      /\ SortPos(s, k) = 1 + Cardinality(Ahead(s, k))
  BY SortPosAhead
<1>4. /\ Cardinality(Ahead(s, j)) <= Cardinality(Ahead(s, k))
      /\ Cardinality(Ahead(s, k)) = Cardinality(Ahead(s, j)) => Ahead(s, k) = Ahead(s, j)
  BY <1>1, <1>3, FS_Subset
<1>5. Cardinality(Ahead(s, j)) \in Nat /\ Cardinality(Ahead(s, k)) \in Nat
  BY <1>1, <1>3, FS_Subset, FS_CardinalityType
<1>6. Ahead(s, k) # Ahead(s, j)
  BY <1>2
<1>. QED
  BY <1>3, <1>4, <1>5, <1>6

\* Every entry gets a place of the list.
LEMMA SortPosRange ==
    ASSUME NEW s \in Seq(Issue), NEW k \in DOMAIN s
    PROVE  SortPos(s, k) \in DOMAIN s
<1>1. /\ IsFiniteSet(DOMAIN s \ {k})
      /\ Cardinality(DOMAIN s \ {k}) = Len(s) - 1
  <2>1. IsFiniteSet(DOMAIN s) /\ Cardinality(DOMAIN s) = Len(s)
    BY IssueShape, FS_Interval
  <2>. QED
    BY <2>1, FS_RemoveElement
<1>2. /\ Ahead(s, k) \subseteq DOMAIN s \ {k}
      /\ SortPos(s, k) = 1 + Cardinality(Ahead(s, k))
  BY SortPosAhead
<1>3. Cardinality(Ahead(s, k)) <= Len(s) - 1 /\ Cardinality(Ahead(s, k)) \in Nat
  BY <1>1, <1>2, FS_Subset, FS_CardinalityType
<1>. QED
  BY <1>2, <1>3, IssueShape

\* Distinct entries get distinct places.
LEMMA SortPosInjective ==
    ASSUME NEW s \in Seq(Issue), NEW j \in DOMAIN s, NEW k \in DOMAIN s, j # k
    PROVE  SortPos(s, j) # SortPos(s, k)
<1>1. Prec(s, j, k) \/ Prec(s, k, j)
  BY PrecOrder
<1>2. SortPos(s, j) \in Nat /\ SortPos(s, k) \in Nat
  BY SortPosRange, IssueShape
<1>. QED
  BY <1>1, <1>2, SortPosMono

\* Every place of the list is the place of some entry.
LEMMA SortPosOnto ==
    ASSUME NEW s \in Seq(Issue), NEW p \in DOMAIN s
    PROVE  \E k \in DOMAIN s : SortPos(s, k) = p
<1> DEFINE f == [k \in DOMAIN s |-> SortPos(s, k)]
<1>1. f \in Injection(DOMAIN s, DOMAIN s)
  BY SortPosRange, SortPosInjective DEF Injection, IsInjective
<1>2. IsFiniteSet(DOMAIN s)
  BY IssueShape, FS_Interval
<1>3. f \in Surjection(DOMAIN s, DOMAIN s)
  BY <1>1, <1>2, FS_Injection
<1>. QED
  BY <1>3 DEF Surjection

\* What file_issues.sort(key=score, reverse=True) returns: a list of the
\* same issues, each at the place SortPos gives it.
LEMMA SortFacts ==
    ASSUME NEW s \in Seq(Issue)
    PROVE  /\ SortByScore(s) \in Seq(Issue)
           /\ Len(SortByScore(s)) = Len(s)
           /\ \A k \in DOMAIN s : SortByScore(s)[SortPos(s, k)] = s[k]
           /\ \A p \in DOMAIN s : \E k \in DOMAIN s : SortPos(s, k) = p /\ SortByScore(s)[p] = s[k]
<1>1. \A p \in DOMAIN s : LET k == CHOOSE k \in DOMAIN s : SortPos(s, k) = p
                          IN  k \in DOMAIN s /\ SortPos(s, k) = p
  BY SortPosOnto
<1>2. \A p \in DOMAIN s : \E k \in DOMAIN s : SortPos(s, k) = p /\ SortByScore(s)[p] = s[k]
  BY <1>1 DEF SortByScore
<1>3. \A k \in DOMAIN s : SortByScore(s)[SortPos(s, k)] = s[k]
  <2> SUFFICES ASSUME NEW k \in DOMAIN s PROVE SortByScore(s)[SortPos(s, k)] = s[k]
    OBVIOUS
  <2>1. SortPos(s, k) \in DOMAIN s
    BY SortPosRange
  <2>2. PICK k2 \in DOMAIN s : SortPos(s, k2) = SortPos(s, k) /\ SortByScore(s)[SortPos(s, k)] = s[k2]
    BY <1>2, <2>1
  <2>3. k2 = k
    BY <2>2, SortPosInjective
  <2>. QED
    BY <2>2, <2>3
<1>4. SortByScore(s) \in [1..Len(s) -> Issue] /\ Len(s) \in Nat
  BY <1>2, IssueShape DEF SortByScore
<1>5. SortByScore(s) \in Seq(Issue) /\ Len(SortByScore(s)) = Len(s)
  BY <1>4
<1>. QED
  BY <1>2, <1>3, <1>5

-----------------------------------------------------------------------------
(* The scan of find_worst_files *)

LEMMA BoundedSeqShape ==
    ASSUME NEW S, NEW n \in Nat, NEW q \in BoundedSeq(S, n)
    PROVE  q \in Seq(S) /\ Len(q) <= n
<1>1. PICK k \in 0..n : q \in [1..k -> S]
  BY DEF BoundedSeq, SeqOf
<1>2. q \in Seq(S)
  BY <1>1
<1>. QED
  BY <1>1, <1>2

\* A prefix of a list is a list of the same elements.
LEMMA PrefixType ==
    ASSUME NEW S, NEW t \in Seq(S), NEW n \in 0..Len(t)
    PROVE  SubSeq(t, 1, n) \in Seq(S)
<1>1. \A j \in 1..n : t[j] \in S
  OBVIOUS
<1>. QED
  BY <1>1, SubSeqProperties

\* min() of two naturals.
LEMMA MinOfTwo ==
    ASSUME NEW a \in Nat, NEW b \in Nat
    PROVE  Min({a, b}) = IF a <= b THEN a ELSE b
BY DEF Min

\* Before the root search nothing has been listed.
THEOREM InitIInv == Init => IInv
<1> SUFFICES ASSUME Init PROVE IInv
  OBVIOUS
<1>1. entries \in Seq(Found) /\ Len(entries) <= MaxEntries
  BY BoundedSeqShape, PriorityAssumption DEF Init
<1>2. TypeOK
  BY <1>1, PriorityAssumption DEF Init, TypeOK
<1>. QED
  BY <1>2 DEF Init, IInv

\* Each step of find_priority_targets.py keeps IInv, given what SelectSeq
\* and FoldLeft return.
THEOREM NextIInv ==
    ASSUME FilesFact, SeverityFact
    PROVE  IInv /\ [Next]_vars => IInv'
<1> SUFFICES ASSUME IInv, [Next]_vars PROVE IInv'
  OBVIOUS
<1>t. TypeOK
  BY DEF IInv
<1>e. entries \in BoundedSeq(Found, MaxEntries)
  BY DEF IInv
<1>s. pc \in {"root", "files"} =>
        /\ files = <<>> /\ i = 1 /\ issues = <<>> /\ worst = <<>> /\ out = "running"
  BY DEF IInv
<1>c. pc = "scan" =>
        /\ i \in 1..(Len(files) + 1) /\ ScanInv(files, i, issues)
        /\ worst = <<>> /\ out = "running"
  BY DEF IInv
<1>d. pc = "done" => out \in {"no_root", "report"}
  BY DEF IInv
<1>r. out = "report" =>
        /\ i = Len(files) + 1 /\ ScanInv(files, i, issues)
        /\ worst = SubSeq(SortByScore(issues), 1, Min({Limit, Len(issues)}))
  BY DEF IInv
<1>0. /\ CwdDepth \in Nat /\ MaxEntries \in Nat /\ Limit \in Nat
      /\ entries \in Seq(Found) /\ Len(entries) <= MaxEntries
      /\ files \in Seq(Found) /\ Len(files) <= Len(entries)
      /\ issues \in Seq(Issue) /\ worst \in Seq(Issue)
  BY <1>t, PriorityAssumption DEF TypeOK
<1>1. CASE FindRoot
  <2>1. /\ pc = "root"
        /\ UNCHANGED <<manifest, entries, files, i, issues, worst>>
        /\ \/ out' = "no_root" /\ pc' = "done" /\ dir' = dir
           \/ pc' = "files" /\ dir' = dir /\ out' = out
           \/ dir # 0 /\ dir' = dir - 1 /\ out' = out /\ pc' = pc
    BY <1>1 DEF FindRoot
  <2>2. TypeOK'
    BY <1>t, <1>0, <1>s, <2>1 DEF TypeOK
  <2>. QED
    BY <1>e, <1>s, <2>1, <2>2 DEF IInv
<1>2. CASE FindFiles
  <2>1. /\ pc = "files" /\ files' = FindRustFiles(entries) /\ pc' = "scan"
        /\ UNCHANGED <<manifest, entries, dir, i, issues, worst, out>>
    BY <1>2 DEF FindFiles
  <2>2. files' \in Seq(Found) /\ Len(files') <= Len(entries)
    BY <1>e, <2>1 DEF FilesFact
  <2>3. TypeOK'
    BY <1>t, <1>0, <1>s, <2>1, <2>2 DEF TypeOK
  <2>4. ScanInv(files', 1, <<>>)
    <3>1. {k \in Flagged(files') : k < 1} = {}
      BY <2>2 DEF Flagged
    <3>. QED
      BY <3>1 DEF ScanInv
  <2>. QED
    BY <1>e, <1>s, <2>1, <2>2, <2>3, <2>4 DEF IInv
<1>3. CASE AnalyzeOne
  <2> DEFINE cur == files[i]
             new == [file |-> i, score |-> SevOf(cur)]
  <2>1. /\ pc = "scan" /\ i \in DOMAIN files /\ i' = i + 1
        /\ issues' = IF cur.kind # "dir" /\ SevOf(cur) > 0 THEN Append(issues, new) ELSE issues
        /\ UNCHANGED <<manifest, entries, dir, files, worst, out, pc>>
    BY <1>3 DEF AnalyzeOne, SevOf
  <2>2. /\ ScanInv(files, i, issues) /\ worst = <<>> /\ out = "running"
        /\ i \in 1..Len(files) /\ i <= MaxEntries /\ cur \in Found
    BY <1>0, <1>c, <2>1
  <2>3. ScanInv(files, i + 1, issues')
    <3>1. CASE cur.kind # "dir" /\ SevOf(cur) > 0
      <4>1. new \in Issue
        <5>1. SevOf(cur) \in Nat
          BY <2>2, <3>1 DEF SeverityFact, SevOf
        <5>. QED
          BY <2>2, <5>1 DEF Issue
      <4>2. /\ issues' \in Seq(Issue)
            /\ Len(issues') = Len(issues) + 1
            /\ \A r \in 1..Len(issues) : issues'[r] = issues[r]
            /\ issues'[Len(issues) + 1] = new
        BY <1>0, <2>1, <3>1, <4>1, AppendProperties
      <4>3. i \in Flagged(files)
        BY <2>2, <3>1 DEF Flagged
      <4>4. \A r \in DOMAIN issues : issues[r].file < i
        BY <2>2 DEF ScanInv
      <4>5. {issues'[r].file : r \in DOMAIN issues'} =
              {issues[r].file : r \in DOMAIN issues} \cup {i}
        <5>1. DOMAIN issues' = DOMAIN issues \cup {Len(issues) + 1}
              /\ DOMAIN issues = 1..Len(issues) /\ Len(issues) \in Nat
          BY <1>0, <4>2
        <5>. QED
          BY <4>2, <5>1
      <4>6. {issues[r].file : r \in DOMAIN issues} = {k \in Flagged(files) : k < i}
            /\ \A r1, r2 \in DOMAIN issues : r1 < r2 => issues[r1].file < issues[r2].file
            /\ \A r \in DOMAIN issues : issues[r].score = SevOf(files[issues[r].file])
        BY <2>2 DEF ScanInv
      <4>7. DOMAIN issues' = 1..(Len(issues) + 1) /\ DOMAIN issues = 1..Len(issues)
            /\ Len(issues) \in Nat
        BY <1>0, <4>2
      <4>8. \A r1, r2 \in DOMAIN issues' : r1 < r2 => issues'[r1].file < issues'[r2].file
        BY <4>2, <4>4, <4>6, <4>7
      <4>9. {issues'[r].file : r \in DOMAIN issues'} = {k \in Flagged(files) : k < i + 1}
        <5>1. i \in Nat
          BY <2>2
        <5>2. Flagged(files) \subseteq Nat
          BY <1>0 DEF Flagged
        <5>. QED
          BY <4>3, <4>5, <4>6, <5>1, <5>2
      <4>10. \A r \in DOMAIN issues' : issues'[r].score = SevOf(files[issues'[r].file])
        <5>1. issues'[Len(issues) + 1].score = SevOf(files[issues'[Len(issues) + 1].file])
          BY <4>2
        <5>2. ASSUME NEW r \in 1..Len(issues)
              PROVE  issues'[r].score = SevOf(files[issues'[r].file])
          <6>1. issues'[r] = issues[r]
            BY <4>2
          <6>2. r \in DOMAIN issues
            BY <4>7
          <6>3. issues[r].score = SevOf(files[issues[r].file])
            BY <2>2, <6>2 DEF ScanInv
          <6>. QED
            BY <6>1, <6>3
        <5>. QED
          BY <4>7, <5>1, <5>2
      <4>. QED
        BY <4>2, <4>8, <4>9, <4>10 DEF ScanInv
    <3>2. CASE ~(cur.kind # "dir" /\ SevOf(cur) > 0)
      <4>1. i \notin Flagged(files)
        BY <3>2 DEF Flagged
      <4>2. {k \in Flagged(files) : k < i + 1} = {k \in Flagged(files) : k < i}
        BY <4>1, <2>2 DEF Flagged
      <4>. QED
        BY <2>1, <2>2, <3>2, <4>2 DEF ScanInv
    <3>. QED
      BY <3>1, <3>2
  <2>4. TypeOK'
    <3>1. issues' \in Seq(Issue)
      BY <2>3 DEF ScanInv
    <3>2. i' \in 1..(MaxEntries + 1)
      BY <1>0, <2>1, <2>2
    <3>. QED
      BY <1>t, <2>1, <3>1, <3>2 DEF TypeOK
  <2>. QED
    BY <1>e, <2>1, <2>2, <2>3, <2>4 DEF IInv
<1>4. CASE Report
  <2> DEFINE lim == Min({Limit, Len(issues)})
  <2>1. /\ pc = "scan" /\ i = Len(files) + 1
        /\ worst' = SubSeq(SortByScore(issues), 1, lim)
        /\ out' = "report" /\ pc' = "done"
        /\ UNCHANGED <<manifest, entries, dir, files, i, issues>>
    BY <1>4 DEF Report
  <2>2. ScanInv(files, i, issues)
    BY <1>c, <2>1
  <2>3. lim \in 0..Len(issues)
    <3>1. Len(issues) \in Nat
      BY <1>0
    <3>2. lim = IF Limit <= Len(issues) THEN Limit ELSE Len(issues)
      BY <1>0, <3>1, MinOfTwo
    <3>. QED
      BY <1>0, <3>1, <3>2
  <2>4. worst' \in Seq(Issue)
    <3>1. SortByScore(issues) \in Seq(Issue) /\ Len(SortByScore(issues)) = Len(issues)
      BY <1>0, SortFacts
    <3>2. \A r \in 1..lim : SortByScore(issues)[r] \in Issue
      BY <2>3, <3>1
    <3>3. SubSeq(SortByScore(issues), 1, lim) \in Seq(Issue)
      BY <2>3, <3>1, PrefixType
    <3>. QED
      BY <2>1, <3>3
  <2>5. TypeOK'
    BY <1>t, <2>1, <2>4 DEF TypeOK
  <2>. QED
    BY <1>e, <2>1, <2>2, <2>5 DEF IInv
<1>5. CASE Done \/ UNCHANGED vars
  <2>1. UNCHANGED vars
    BY <1>5 DEF Done
  <2>. QED
    BY <2>1 DEF vars, IInv, TypeOK
<1>. QED
  BY <1>1, <1>2, <1>3, <1>4, <1>5 DEF Next

-----------------------------------------------------------------------------
(* From the invariant to the printed targets *)

\* A prefix of a list has the length asked for and the list's first entries.
LEMMA PrefixFacts ==
    ASSUME NEW S, NEW t \in Seq(S), NEW n \in 0..Len(t)
    PROVE  /\ SubSeq(t, 1, n) \in Seq(S)
           /\ Len(SubSeq(t, 1, n)) = n
           /\ \A j \in 1..n : SubSeq(t, 1, n)[j] = t[j]
<1>1. \A j \in 1..n : t[j] \in S
  OBVIOUS
<1>. QED
  BY <1>1, SubSeqProperties

\* Issues that the sort keeps in order: when is[j] comes before is[k],
\* the entry at j ranks above the one at k in the order the report claims.
LEMMA PrecBefore ==
    ASSUME NEW fs, NEW n, NEW is, ScanInv(fs, n, is),
           NEW j \in DOMAIN is, NEW k \in DOMAIN is, Prec(is, j, k)
    PROVE  \/ is[j].score > is[k].score
           \/ is[j].score = is[k].score /\ is[j].file < is[k].file
BY DEF ScanInv, Prec

\* file_issues lists every file with issues exactly once: it has as many
\* entries as there are such files.
LEMMA ScanCount ==
    ASSUME NEW fs \in Seq(Found), NEW is, ScanInv(fs, Len(fs) + 1, is)
    PROVE  /\ {is[r].file : r \in DOMAIN is} = Flagged(fs)
           /\ Len(is) = Cardinality(Flagged(fs))
<1> DEFINE fileOf == [r \in DOMAIN is |-> is[r].file]
<1>1. is \in Seq(Issue)
  BY DEF ScanInv
<1>2. Flagged(fs) \subseteq 1..Len(fs)
  BY DEF Flagged
<1>3. {is[r].file : r \in DOMAIN is} = Flagged(fs)
  BY <1>2 DEF ScanInv
<1>4. IsFiniteSet(Flagged(fs))
  <2>1. Len(fs) \in Nat
    OBVIOUS
  <2>2. IsFiniteSet(1..Len(fs))
    BY <2>1, FS_Interval
  <2>. QED
    BY <1>2, <2>2, FS_Subset
<1>5. \A r1, r2 \in DOMAIN is : r1 # r2 => is[r1].file # is[r2].file
  <2>1. \A r1, r2 \in DOMAIN is : r1 < r2 => is[r1].file < is[r2].file
    BY DEF ScanInv
  <2>. QED
    BY <1>1, <2>1, IssueShape
<1>6. fileOf \in Injection(DOMAIN is, Flagged(fs)) /\ fileOf \in Surjection(DOMAIN is, Flagged(fs))
  BY <1>3, <1>5 DEF Injection, Surjection, IsInjective
<1>7. Cardinality(DOMAIN is) = Cardinality(Flagged(fs))
  BY <1>4, <1>6, FS_Injection
<1>8. Cardinality(DOMAIN is) = Len(is)
  <2>1. DOMAIN is = 1..Len(is) /\ Len(is) \in Nat
    BY <1>1, IssueShape
  <2>2. Cardinality(1..Len(is)) = IF 1 > Len(is) THEN 0 ELSE Len(is) - 1 + 1
    <3>1. 1 \in Int /\ Len(is) \in Int
      BY <2>1
    <3>. QED
      BY <3>1, FS_Interval, Zenon
  <2>. QED
    BY <2>1, <2>2
<1>. QED
  BY <1>3, <1>7, <1>8

\* What the invariant says of a finished report is what TopTargets claims.
LEMMA IInvTopTargets == IInv => TopTargets
<1> SUFFICES ASSUME IInv, out = "report" PROVE TopTargets
  BY DEF TopTargets
<1> DEFINE srt == SortByScore(issues)
           lim == Min({Limit, Len(issues)})
           listed == {worst[r].file : r \in DOMAIN worst}
<1>1. /\ ScanInv(files, Len(files) + 1, issues)
      /\ worst = SubSeq(srt, 1, lim)
      /\ files \in Seq(Found) /\ issues \in Seq(Issue)
  BY DEF IInv, TypeOK
<1>2. /\ {issues[r].file : r \in DOMAIN issues} = WithIssues
      /\ Len(issues) = Cardinality(WithIssues)
  <2>1. Flagged(files) = WithIssues
    BY DEF Flagged, WithIssues, Severity, SevOf
  <2>. QED
    BY <1>1, <2>1, ScanCount
<1>3. srt \in Seq(Issue) /\ Len(srt) = Len(issues)
  BY <1>1, SortFacts
<1>4. lim \in 0..Len(issues) /\ lim = Min({Limit, Cardinality(WithIssues)})
  <2>1. Len(issues) \in Nat /\ Limit \in Nat
    BY <1>1, IssueShape, PriorityAssumption
  <2>2. lim = IF Limit <= Len(issues) THEN Limit ELSE Len(issues)
    BY <2>1, MinOfTwo
  <2>. QED
    BY <1>2, <2>1, <2>2
<1>5. /\ Len(worst) = lim /\ DOMAIN worst = 1..lim
      /\ \A r \in 1..lim : worst[r] = srt[r]
  <2>1. /\ SubSeq(srt, 1, lim) \in Seq(Issue)
        /\ Len(SubSeq(srt, 1, lim)) = lim
        /\ \A j \in 1..lim : SubSeq(srt, 1, lim)[j] = srt[j]
    BY <1>3, <1>4, PrefixFacts
  <2>2. worst \in Seq(Issue) /\ Len(worst) = lim
    BY <1>1, <2>1
  <2>3. DOMAIN worst = 1..lim
    BY <1>4, <2>2
  <2>4. \A r \in 1..lim : worst[r] = srt[r]
    BY <1>1, <2>1
  <2>. QED
    BY <2>2, <2>3, <2>4
\* Each listed place holds the issue of file_issues that the sort put there.
<1>6. \A r \in DOMAIN worst :
        \E k \in DOMAIN issues : SortPos(issues, k) = r /\ worst[r] = issues[k]
  <2> SUFFICES ASSUME NEW r \in DOMAIN worst
               PROVE  \E k \in DOMAIN issues : SortPos(issues, k) = r /\ worst[r] = issues[k]
    OBVIOUS
  <2>1. r \in DOMAIN issues /\ worst[r] = srt[r]
    BY <1>1, <1>4, <1>5, IssueShape
  <2>2. \A p \in DOMAIN issues : \E k \in DOMAIN issues : SortPos(issues, k) = p /\ srt[p] = issues[k]
    BY <1>1, SortFacts
  <2>. QED
    BY <2>1, <2>2
<1>7. \A r \in DOMAIN worst : worst[r].file \in WithIssues
                             /\ worst[r].score = Severity(worst[r].file)
  <2> SUFFICES ASSUME NEW r \in DOMAIN worst
               PROVE  worst[r].file \in WithIssues /\ worst[r].score = Severity(worst[r].file)
    OBVIOUS
  <2>1. PICK k \in DOMAIN issues : worst[r] = issues[k]
    BY <1>6
  <2>2. issues[k].score = SevOf(files[issues[k].file])
    BY <1>1 DEF ScanInv
  <2>. QED
    BY <1>2, <2>1, <2>2 DEF Severity, SevOf
\* Listed places in order hold issues in the order of Prec.
<1>8. ASSUME NEW r1 \in DOMAIN worst, NEW r2 \in DOMAIN worst, r1 < r2
      PROVE  \/ worst[r1].score > worst[r2].score
             \/ worst[r1].score = worst[r2].score /\ worst[r1].file < worst[r2].file
  <2>1. PICK k1 \in DOMAIN issues : SortPos(issues, k1) = r1 /\ worst[r1] = issues[k1]
    BY <1>6
  <2>2. PICK k2 \in DOMAIN issues : SortPos(issues, k2) = r2 /\ worst[r2] = issues[k2]
    BY <1>6
  <2>3. r1 \in Nat /\ r2 \in Nat /\ k1 # k2
    BY <1>4, <1>5, <2>1, <2>2, <1>8
  <2>4. ~Prec(issues, k2, k1)
    BY <1>1, <2>1, <2>2, <2>3, <1>8, SortPosMono
  <2>5. Prec(issues, k1, k2)
    BY <1>1, <2>3, <2>4, PrecOrder
  <2>6. \/ issues[k1].score > issues[k2].score
        \/ issues[k1].score = issues[k2].score /\ issues[k1].file < issues[k2].file
    BY <1>1, <2>5, PrecBefore
  <2>. QED
    BY <2>1, <2>2, <2>6
\* A file with issues that is not listed was placed after every listed one.
<1>9. ASSUME NEW k \in WithIssues \ listed, NEW r \in DOMAIN worst
      PROVE  \/ worst[r].score > Severity(k)
             \/ worst[r].score = Severity(k) /\ worst[r].file < k
  <2>1. PICK q \in DOMAIN issues : issues[q].file = k
    BY <1>2, <1>9
  <2>2. issues[q].score = Severity(k)
    BY <1>1, <2>1 DEF ScanInv, Severity, SevOf
  <2>3. SortPos(issues, q) \in DOMAIN issues /\ SortPos(issues, q) \in Nat
    BY <1>1, SortPosRange, IssueShape
  <2>4. SortPos(issues, q) > lim
    <3>1. SUFFICES ASSUME SortPos(issues, q) <= lim PROVE FALSE
      BY <1>4, <2>3
    <3>2. SortPos(issues, q) \in DOMAIN worst
      BY <1>4, <1>5, <2>3, <3>1
    <3>3. worst[SortPos(issues, q)] = issues[q]
      BY <1>1, <1>5, <3>2, SortFacts
    <3>. QED
      BY <1>9, <2>1, <3>2, <3>3
  <2>5. PICK kr \in DOMAIN issues : SortPos(issues, kr) = r /\ worst[r] = issues[kr]
    BY <1>6
  <2>6. r \in Nat /\ r <= lim /\ kr # q
    BY <1>4, <1>5, <2>4, <2>5
  <2>7. ~Prec(issues, q, kr)
    <3>1. SUFFICES ASSUME Prec(issues, q, kr) PROVE FALSE
      OBVIOUS
    <3>2. SortPos(issues, q) < SortPos(issues, kr)
      BY <1>1, <3>1, SortPosMono
    <3>. QED
      BY <1>4, <2>3, <2>4, <2>5, <2>6, <3>2
  <2>8. Prec(issues, kr, q)
    BY <1>1, <2>6, <2>7, PrecOrder
  <2>9. \/ issues[kr].score > issues[q].score
        \/ issues[kr].score = issues[q].score /\ issues[kr].file < issues[q].file
    BY <1>1, <2>8, PrecBefore
  <2>. QED
    BY <2>1, <2>2, <2>5, <2>9
<1>. QED
  BY <1>4, <1>5, <1>7, <1>8, <1>9 DEF TopTargets

\* Every reachable state of find_priority_targets.py is well typed, given
\* what SelectSeq and FoldLeft return.
THEOREM TypeCorrect ==
    ASSUME FilesFact, SeverityFact
    PROVE  Spec => []TypeOK
<1>1. IInv => TypeOK
  BY DEF IInv
<1>. QED
  BY InitIInv, NextIInv, <1>1, PTL DEF Spec

\* The report that find_worst_files prints is always the `limit` files with
\* the highest severity, highest first, ties in rglob order, each with its
\* own score, whatever the directory tree and the limit.
THEOREM TopTargetsHolds ==
    ASSUME FilesFact, SeverityFact
    PROVE  Spec => []TopTargets
BY InitIInv, NextIInv, IInvTopTargets, PTL DEF Spec

====
