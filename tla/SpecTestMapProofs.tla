-------------------------- MODULE SpecTestMapProofs --------------------------
(***************************************************************************)
(* Proofs about SpecTestMap: type correctness, and that the mapping the   *)
(* scanner of spec_test_map.py writes binds to each title exactly the     *)
(* tests the reference binds (MappingMatchesReference), for every set of  *)
(* files, lines, titles and function names.                                *)
(***************************************************************************)
EXTENDS SpecTestMap, SequenceTheorems, TLAPS

\* Line j of the lines c of a file is preceded by an "@spec s" line with
\* no function line in between.
AnnotatedAt(c, s, j) ==
    \E a \in 1..(j - 1) :
        /\ c[a] = [kind |-> "annot", ref |-> s]
        /\ \A b \in (a + 1)..(j - 1) : c[b].kind # "fn"

\* The tests of file f, of lines c, the reference binds to s among its
\* lines before L.
BoundUpTo(c, f, s, L) ==
    { <<f, c[j].name>> :
        j \in {j \in 1..(L - 1) : c[j].kind = "fn" /\ AnnotatedAt(c, s, j)} }

\* All the tests of file f the reference binds to s.
BoundAllOf(C, f, s) == BoundUpTo(C[f], f, s, Len(C[f]) + 1)

\* What a scan of the paths P over the contents C has bound to s when it is
\* at line l of the i-th path: the files before it in full, and the
\* current one up to line l.
Scanned(P, C, i, l, s) ==
    (UNION {BoundAllOf(C, P[k], s) : k \in 1..(i - 1)})
        \cup (IF i \in DOMAIN P THEN BoundUpTo(C[P[i]], P[i], s, l) ELSE {})

\* The inductive invariant: the scan position is within the paths and the
\* current file; every bucket holds exactly what the scan has bound so far,
\* each test once; the pending titles are those annotated since the last
\* function line of the current file; the JSON, once written, is the
\* report of the final mapping.
IInv ==
    /\ TypeOK
    /\ fi \in 1..(Len(paths) + 1)
    /\ fi \in DOMAIN paths => li \in 1..(Len(content[paths[fi]]) + 1)
    /\ \A s \in Text : /\ Range(specMap[s]) = Scanned(paths, content, fi, li, s)
                       /\ IsInjective(specMap[s])
    /\ fi \in DOMAIN paths =>
         Range(pending) = {s \in Text : AnnotatedAt(content[paths[fi]], s, li)}
    /\ out # NoFile => fi = Len(paths) + 1 /\ out = MakeMapReport(specMap)

-----------------------------------------------------------------------------
(* Lemmas about sequences and the operators of the model *)

\* A sequence of at most n elements.
LEMMA BoundedSeqLen ==
    ASSUME NEW S, NEW n \in Nat, NEW q \in BoundedSeq(S, n)
    PROVE  q \in Seq(S) /\ Len(q) <= n
<1>1. PICK k \in 0..n : q \in [1..k -> S]
  BY DEF BoundedSeq
<1>2. q \in Seq(S)
  BY <1>1
<1>. QED
  BY <1>1, <1>2

LEMMA RangeEmpty == Range(<<>>) = {} /\ IsInjective(<<>>)
BY DEF Range, IsInjective

\* Appending x adds x to the range; appending a new element keeps the
\* sequence free of repetitions.
LEMMA RangeAppend ==
    ASSUME NEW S, NEW q \in Seq(S), NEW x \in S
    PROVE  /\ Range(Append(q, x)) = Range(q) \cup {x}
           /\ IsInjective(q) /\ x \notin Range(q) => IsInjective(Append(q, x))
<1>1. /\ DOMAIN Append(q, x) = 1..(Len(q) + 1)
      /\ \A i \in 1..Len(q) : Append(q, x)[i] = q[i]
      /\ Append(q, x)[Len(q) + 1] = x
      /\ DOMAIN q = 1..Len(q)
  BY AppendProperties
<1>2. Range(Append(q, x)) = Range(q) \cup {x}
  BY <1>1 DEF Range
<1>. QED
  BY <1>1, <1>2 DEF IsInjective, Range

\* flush() adds the identifier to the bucket of every pending title, once.
LEMMA FlushBucket ==
    ASSUME NEW m \in [Text -> Seq(Ident)], NEW pend \in Seq(Text),
           NEW id \in Ident, NEW s \in Text
    PROVE  /\ Flush(m, pend, id)[s] \in Seq(Ident)
           /\ Range(Flush(m, pend, id)[s]) =
                Range(m[s]) \cup (IF s \in Range(pend) THEN {id} ELSE {})
           /\ IsInjective(m[s]) => IsInjective(Flush(m, pend, id)[s])
<1>1. CASE s \in Range(pend) /\ id \notin Range(m[s])
  BY <1>1, RangeAppend DEF Flush
<1>2. CASE ~(s \in Range(pend) /\ id \notin Range(m[s]))
  BY <1>2 DEF Flush
<1>. QED
  BY <1>1, <1>2

\* What the regexes make of a line.
LEMMA LineShape ==
    ASSUME NEW c \in Line
    PROVE  /\ c.kind \in {"annot", "fn", "other"}
           /\ c.kind = "annot" => c = [kind |-> "annot", ref |-> c.ref] /\ c.ref \in Text
           /\ c.kind = "fn" => c.name \in FnName
BY DEF Line

\* No line before the first.
LEMMA ScanFirst ==
    ASSUME NEW c, NEW f, NEW s
    PROVE  ~AnnotatedAt(c, s, 1) /\ BoundUpTo(c, f, s, 1) = {}
BY DEF AnnotatedAt, BoundUpTo

\* Line L opens an annotation for s, keeps the ones before it open when it
\* is no function line, and closes them all when it is one.
LEMMA AnnotatedStep ==
    ASSUME NEW c, NEW s, NEW L \in Nat \ {0}
    PROVE  AnnotatedAt(c, s, L + 1) <=>
             \/ c[L] = [kind |-> "annot", ref |-> s]
             \/ c[L].kind # "fn" /\ AnnotatedAt(c, s, L)
<1>1. ASSUME AnnotatedAt(c, s, L + 1)
      PROVE  \/ c[L] = [kind |-> "annot", ref |-> s]
             \/ c[L].kind # "fn" /\ AnnotatedAt(c, s, L)
  <2>1. PICK a \in 1..L : /\ c[a] = [kind |-> "annot", ref |-> s]
                          /\ \A b \in (a + 1)..L : c[b].kind # "fn"
    BY <1>1 DEF AnnotatedAt
  <2>2. CASE a = L
    BY <2>1, <2>2
  <2>3. CASE a # L
    BY <2>1, <2>3 DEF AnnotatedAt
  <2>. QED
    BY <2>2, <2>3
<1>2. ASSUME c[L] = [kind |-> "annot", ref |-> s]
      PROVE  AnnotatedAt(c, s, L + 1)
  <2>1. (L + 1)..L = {}
    OBVIOUS
  <2>. QED
    BY <1>2, <2>1 DEF AnnotatedAt
<1>3. ASSUME c[L].kind # "fn", AnnotatedAt(c, s, L)
      PROVE  AnnotatedAt(c, s, L + 1)
  <2>1. PICK a \in 1..(L - 1) : /\ c[a] = [kind |-> "annot", ref |-> s]
                                /\ \A b \in (a + 1)..(L - 1) : c[b].kind # "fn"
    BY <1>3 DEF AnnotatedAt
  <2>2. \A b \in (a + 1)..L : c[b].kind # "fn"
    BY <1>3, <2>1
  <2>. QED
    BY <2>1, <2>2 DEF AnnotatedAt
<1>. QED
  BY <1>1, <1>2, <1>3

\* The tests bound before line L + 1 are those bound before line L and the
\* function of line L when it is annotated with s.
LEMMA BoundStep ==
    ASSUME NEW c, NEW f, NEW s, NEW L \in Nat \ {0}
    PROVE  BoundUpTo(c, f, s, L + 1) =
             BoundUpTo(c, f, s, L)
               \cup (IF c[L].kind = "fn" /\ AnnotatedAt(c, s, L)
                       THEN {<<f, c[L].name>>} ELSE {})
<1>1. 1..L = 1..(L - 1) \cup {L}
  OBVIOUS
<1>. QED
  BY <1>1 DEF BoundUpTo

\* A line that is no function line binds nothing.
LEMMA BoundSkip ==
    ASSUME NEW c, NEW f, NEW s, NEW L \in Nat \ {0}, c[L].kind # "fn"
    PROVE  BoundUpTo(c, f, s, L + 1) = BoundUpTo(c, f, s, L)
<1>1. BoundUpTo(c, f, s, L + 1) =
        BoundUpTo(c, f, s, L)
          \cup (IF c[L].kind = "fn" /\ AnnotatedAt(c, s, L) THEN {<<f, c[L].name>>} ELSE {})
  BY BoundStep
<1>. QED
  BY <1>1

\* A function line annotated with s binds its test to s.
LEMMA BoundFn ==
    ASSUME NEW c, NEW f, NEW s, NEW L \in Nat \ {0}, c[L].kind = "fn", AnnotatedAt(c, s, L)
    PROVE  BoundUpTo(c, f, s, L + 1) = BoundUpTo(c, f, s, L) \cup {<<f, c[L].name>>}
<1>1. BoundUpTo(c, f, s, L + 1) =
        BoundUpTo(c, f, s, L)
          \cup (IF c[L].kind = "fn" /\ AnnotatedAt(c, s, L) THEN {<<f, c[L].name>>} ELSE {})
  BY BoundStep
<1>. QED
  BY <1>1

\* A function line that is not annotated with s binds nothing to s.
LEMMA BoundFnOff ==
    ASSUME NEW c, NEW f, NEW s, NEW L \in Nat \ {0}, ~AnnotatedAt(c, s, L)
    PROVE  BoundUpTo(c, f, s, L + 1) = BoundUpTo(c, f, s, L)
<1>1. BoundUpTo(c, f, s, L + 1) =
        BoundUpTo(c, f, s, L)
          \cup (IF c[L].kind = "fn" /\ AnnotatedAt(c, s, L) THEN {<<f, c[L].name>>} ELSE {})
  BY BoundStep
<1>. QED
  BY <1>1

\* A line that is neither an annotation nor a function line changes no
\* annotation.
LEMMA AnnotSkip ==
    ASSUME NEW c, NEW s, NEW L \in Nat \ {0}, c[L].kind \notin {"fn", "annot"}
    PROVE  AnnotatedAt(c, s, L + 1) <=> AnnotatedAt(c, s, L)
<1>1. AnnotatedAt(c, s, L + 1) <=>
        \/ c[L] = [kind |-> "annot", ref |-> s]
        \/ c[L].kind # "fn" /\ AnnotatedAt(c, s, L)
  BY AnnotatedStep
<1>2. c[L] # [kind |-> "annot", ref |-> s]
  OBVIOUS
<1>. QED
  BY <1>1, <1>2

\* An "@spec r" line annotates the next line with r, and keeps the others.
LEMMA AnnotOpen ==
    ASSUME NEW c, NEW s, NEW r, NEW L \in Nat \ {0}, c[L] = [kind |-> "annot", ref |-> r]
    PROVE  AnnotatedAt(c, s, L + 1) <=> (s = r \/ AnnotatedAt(c, s, L))
<1>1. AnnotatedAt(c, s, L + 1) <=>
        \/ c[L] = [kind |-> "annot", ref |-> s]
        \/ c[L].kind # "fn" /\ AnnotatedAt(c, s, L)
  BY AnnotatedStep
<1>2. c[L] = [kind |-> "annot", ref |-> s] <=> s = r
  OBVIOUS
<1>3. c[L].kind # "fn"
  OBVIOUS
<1>. QED
  BY <1>1, <1>2, <1>3

\* A function line closes every annotation.
LEMMA AnnotClose ==
    ASSUME NEW c, NEW s, NEW L \in Nat \ {0}, c[L].kind = "fn"
    PROVE  ~AnnotatedAt(c, s, L + 1)
<1>1. AnnotatedAt(c, s, L + 1) <=>
        \/ c[L] = [kind |-> "annot", ref |-> s]
        \/ c[L].kind # "fn" /\ AnnotatedAt(c, s, L)
  BY AnnotatedStep
<1>2. c[L] # [kind |-> "annot", ref |-> s]
  OBVIOUS
<1>. QED
  BY <1>1, <1>2

\* A file scanned to its end has bound what the reference binds in it.
LEMMA BoundAllIsBoundIn ==
    ASSUME NEW f, NEW s, content[f] \in Seq(Line)
    PROVE  BoundAllOf(content, f, s) = BoundIn(f, s)
<1> DEFINE c == content[f]
<1>1. DOMAIN c = 1..(Len(c) + 1 - 1)
  OBVIOUS
<1>2. {j \in 1..(Len(c) + 1 - 1) : c[j].kind = "fn" /\ AnnotatedAt(c, s, j)} =
      {j \in DOMAIN c :
         /\ c[j].kind = "fn"
         /\ \E a \in 1..(j - 1) :
              /\ c[a] = [kind |-> "annot", ref |-> s]
              /\ \A b \in (a + 1)..(j - 1) : c[b].kind # "fn"}
  BY <1>1 DEF AnnotatedAt
<1>3. BoundAllOf(content, f, s) =
        {<<f, c[j].name>> : j \in {j \in 1..(Len(c) + 1 - 1) : c[j].kind = "fn" /\ AnnotatedAt(c, s, j)}}
  BY DEF BoundAllOf, BoundUpTo
<1>4. BoundIn(f, s) =
        {<<f, c[j].name>> :
           j \in {j \in DOMAIN c :
                  /\ c[j].kind = "fn"
                  /\ \E a \in 1..(j - 1) :
                       /\ c[a] = [kind |-> "annot", ref |-> s]
                       /\ \A b \in (a + 1)..(j - 1) : c[b].kind # "fn"}}
  BY DEF BoundIn
<1>. QED
  BY <1>2, <1>3, <1>4

\* Moving to the next file after the last line of the current one leaves
\* what the scan has bound unchanged.
LEMMA ScannedNextFile ==
    ASSUME NEW P \in Seq(FileId), NEW C, NEW i \in 1..Len(P), NEW s
    PROVE  Scanned(P, C, i + 1, 1, s) = Scanned(P, C, i, Len(C[P[i]]) + 1, s)
<1>1. 1..i = 1..(i - 1) \cup {i}
  OBVIOUS
<1>2. UNION {BoundAllOf(C, P[k], s) : k \in 1..i} =
        (UNION {BoundAllOf(C, P[k], s) : k \in 1..(i - 1)}) \cup BoundAllOf(C, P[i], s)
  BY <1>1
<1>3. (IF i + 1 \in DOMAIN P THEN BoundUpTo(C[P[i + 1]], P[i + 1], s, 1) ELSE {}) = {}
  BY ScanFirst
<1>. QED
  BY <1>2, <1>3 DEF Scanned, BoundAllOf

-----------------------------------------------------------------------------
(* The invariant *)

\* Every file the globs yield, and every file, is a bounded sequence.
LEMMA ShapeFacts ==
    ASSUME TypeOK
    PROVE  /\ paths \in Seq(FileId) /\ Len(paths) <= MaxFiles
           /\ \A f \in FileId : content[f] \in Seq(Line) /\ Len(content[f]) <= MaxLines
BY BoundedSeqLen, MapConstantsAssumption DEF TypeOK

\* Before the scan nothing is bound and nothing is pending.
THEOREM InitIInv == Init => IInv
<1> SUFFICES ASSUME Init PROVE IInv
  OBVIOUS
<1>1. TypeOK
  <2>1. <<>> \in Seq(Text) /\ [s \in Text |-> <<>>] \in [Text -> Seq(Ident)]
    OBVIOUS
  <2>. QED
    BY <2>1, MapConstantsAssumption DEF Init, TypeOK
<1>2. paths \in Seq(FileId)
  BY <1>1, ShapeFacts
<1>3. \A s \in Text : Scanned(paths, content, fi, li, s) = {}
  BY <1>2, ScanFirst DEF Init, Scanned
<1>4. fi \in 1..(Len(paths) + 1)
  BY <1>2 DEF Init
<1>5. fi \in DOMAIN paths => li \in 1..(Len(content[paths[fi]]) + 1)
  BY <1>1, ShapeFacts DEF Init
<1>6. \A s \in Text : Range(specMap[s]) = Scanned(paths, content, fi, li, s)
                      /\ IsInjective(specMap[s])
  BY <1>3, RangeEmpty DEF Init
<1>7. Range(pending) = {s \in Text : AnnotatedAt(content[paths[fi]], s, li)}
  <2>1. \A s \in Text : ~AnnotatedAt(content[paths[fi]], s, li)
    BY ScanFirst DEF Init
  <2>. QED
    BY <2>1, RangeEmpty DEF Init
<1>. QED
  BY <1>1, <1>4, <1>5, <1>6, <1>7 DEF Init, IInv

\* Each step of the scanner keeps IInv.
THEOREM NextIInv == IInv /\ [Next]_vars => IInv'
<1> SUFFICES ASSUME IInv, [Next]_vars PROVE IInv'
  OBVIOUS
<1>t. TypeOK
  BY DEF IInv
<1>f. /\ fi \in 1..(Len(paths) + 1)
      /\ fi \in DOMAIN paths => li \in 1..(Len(content[paths[fi]]) + 1)
  BY DEF IInv
<1>r. \A s \in Text : /\ Range(specMap[s]) = Scanned(paths, content, fi, li, s)
                      /\ IsInjective(specMap[s])
  BY DEF IInv
<1>p. fi \in DOMAIN paths =>
        Range(pending) = {s \in Text : AnnotatedAt(content[paths[fi]], s, li)}
  BY DEF IInv
<1>o. out # NoFile => fi = Len(paths) + 1 /\ out = MakeMapReport(specMap)
  BY DEF IInv
<1>0. /\ paths \in Seq(FileId) /\ Len(paths) <= MaxFiles
      /\ \A f \in FileId : content[f] \in Seq(Line) /\ Len(content[f]) <= MaxLines
      /\ MaxFiles \in Nat /\ MaxLines \in Nat
  BY <1>t, ShapeFacts, MapConstantsAssumption
\* The line under the scanner, in the three line steps.
<1>a. ASSUME Scanning
      PROVE  /\ fi \in 1..Len(paths) /\ paths[fi] \in FileId
             /\ li \in 1..Len(content[paths[fi]]) /\ li \in Nat \ {0}
             /\ CurLine = content[paths[fi]][li] /\ CurLine \in Line
             /\ li + 1 \in 1..(MaxLines + 1)
             /\ out = NoFile
  BY <1>0, <1>o, <1>a DEF Scanning, CurLine
<1>1. CASE ScanAnnot
  <2> DEFINE c == CurLine
             F == content[paths[fi]]
  <2>1. Scanning /\ c.kind = "annot"
    BY <1>1 DEF ScanAnnot
  <2>2. c = [kind |-> "annot", ref |-> c.ref] /\ c.ref \in Text
    BY <1>a, <2>1, LineShape
  <2>3. /\ pending' = Append(pending, c.ref) /\ li' = li + 1
        /\ paths' = paths /\ content' = content /\ fi' = fi
        /\ specMap' = specMap /\ out' = out
    BY <1>1 DEF ScanAnnot
  <2>4. TypeOK'
    BY <1>t, <1>a, <2>1, <2>2, <2>3 DEF TypeOK
  <2>5. \A s \in Text : Range(specMap'[s]) = Scanned(paths', content', fi', li', s)
                        /\ IsInjective(specMap'[s])
    <3>0. F[li].kind # "fn" /\ li \in Nat \ {0}
      BY <1>a, <2>1
    <3>1. ASSUME NEW s \in Text
          PROVE  BoundUpTo(F, paths[fi], s, li + 1) = BoundUpTo(F, paths[fi], s, li)
      BY <3>0, BoundSkip
    <3>2. \A s \in Text : Scanned(paths, content, fi, li + 1, s) = Scanned(paths, content, fi, li, s)
      BY <1>a, <2>1, <3>1 DEF Scanned, Scanning
    <3>. QED
      BY <1>r, <2>3, <3>2
  <2>6. Range(pending') = {s \in Text : AnnotatedAt(F, s, li + 1)}
    <3>1. Range(pending') = Range(pending) \cup {c.ref}
      BY <1>t, <2>2, <2>3, RangeAppend DEF TypeOK
    <3>2. ASSUME NEW s \in Text
          PROVE  AnnotatedAt(F, s, li + 1) <=> (s = c.ref \/ AnnotatedAt(F, s, li))
      <4>1. F[li] = [kind |-> "annot", ref |-> c.ref] /\ li \in Nat \ {0}
        BY <1>a, <2>1, <2>2
      <4>. QED
        BY <4>1, AnnotOpen
    <3>. QED
      BY <1>a, <1>p, <2>1, <2>2, <3>1, <3>2 DEF Scanning
  <2>. QED
    BY <1>a, <2>1, <2>3, <2>4, <2>5, <2>6 DEF IInv
<1>2. CASE ScanFn
  <2> DEFINE c == CurLine
             F == content[paths[fi]]
             id == <<paths[fi], c.name>>
  <2>1. Scanning /\ c.kind = "fn"
    BY <1>2 DEF ScanFn
  <2>2. id \in Ident
    BY <1>a, <2>1, LineShape DEF Ident
  <2>3. /\ specMap' = Flush(specMap, pending, id) /\ pending' = <<>> /\ li' = li + 1
        /\ paths' = paths /\ content' = content /\ fi' = fi /\ out' = out
    BY <1>2 DEF ScanFn
  <2>4. \A s \in Text :
          /\ specMap'[s] \in Seq(Ident)
          /\ Range(specMap'[s]) = Range(specMap[s]) \cup
                                  (IF s \in Range(pending) THEN {id} ELSE {})
          /\ IsInjective(specMap[s]) => IsInjective(specMap'[s])
    <3>1. specMap \in [Text -> Seq(Ident)] /\ pending \in Seq(Text)
      BY <1>t DEF TypeOK
    <3>2. ASSUME NEW s \in Text
          PROVE  /\ Flush(specMap, pending, id)[s] \in Seq(Ident)
                 /\ Range(Flush(specMap, pending, id)[s]) =
                      Range(specMap[s]) \cup (IF s \in Range(pending) THEN {id} ELSE {})
                 /\ IsInjective(specMap[s]) => IsInjective(Flush(specMap, pending, id)[s])
      BY <2>2, <3>1, FlushBucket
    <3>. QED
      BY <2>3, <3>2
  <2>5. \A s \in Text : s \in Range(pending) <=> AnnotatedAt(F, s, li)
    BY <1>a, <1>p, <2>1 DEF Scanning
  <2>6. \A s \in Text : BoundUpTo(F, paths[fi], s, li + 1) =
          BoundUpTo(F, paths[fi], s, li) \cup (IF AnnotatedAt(F, s, li) THEN {id} ELSE {})
    <3>1. F[li].kind = "fn" /\ li \in Nat \ {0}
      BY <1>a, <2>1
    <3>2. ASSUME NEW s \in Text, AnnotatedAt(F, s, li)
          PROVE  BoundUpTo(F, paths[fi], s, li + 1) =
                   BoundUpTo(F, paths[fi], s, li) \cup {<<paths[fi], F[li].name>>}
      BY <3>1, <3>2, BoundFn
    <3>3. ASSUME NEW s \in Text, ~AnnotatedAt(F, s, li)
          PROVE  BoundUpTo(F, paths[fi], s, li + 1) = BoundUpTo(F, paths[fi], s, li)
      BY <3>1, <3>3, BoundFnOff
    <3>4. id = <<paths[fi], F[li].name>>
      BY <1>a, <2>1
    <3>. QED
      BY <3>2, <3>3, <3>4
  <2>7. \A s \in Text :
          Scanned(paths, content, fi, li + 1, s) =
            Scanned(paths, content, fi, li, s) \cup (IF AnnotatedAt(F, s, li) THEN {id} ELSE {})
    BY <1>a, <2>1, <2>6 DEF Scanned, Scanning
  <2>8. \A s \in Text : Range(specMap'[s]) = Scanned(paths', content', fi', li', s)
                        /\ IsInjective(specMap'[s])
    BY <1>r, <2>3, <2>4, <2>5, <2>7
  <2>9. \A s \in Text : ~AnnotatedAt(F, s, li + 1)
    <3>1. F[li].kind = "fn" /\ li \in Nat \ {0}
      BY <1>a, <2>1
    <3>2. ASSUME NEW s \in Text PROVE ~AnnotatedAt(F, s, li + 1)
      BY <3>1, AnnotClose
    <3>. QED
      BY <3>2
  <2>10. TypeOK'
    <3>1. specMap' \in [Text -> Seq(Ident)]
      BY <2>3, <2>4 DEF Flush
    <3>2. li' \in 1..(MaxLines + 1) /\ pending' \in Seq(Text)
      BY <1>a, <2>1, <2>3
    <3>. QED
      BY <1>t, <2>3, <3>1, <3>2 DEF TypeOK
  <2>. QED
    BY <1>a, <2>1, <2>3, <2>8, <2>9, <2>10, RangeEmpty DEF IInv
<1>3. CASE ScanOther
  <2> DEFINE c == CurLine
             F == content[paths[fi]]
  <2>1. Scanning /\ c.kind = "other"
    BY <1>3 DEF ScanOther
  <2>2. /\ li' = li + 1
        /\ paths' = paths /\ content' = content /\ fi' = fi
        /\ pending' = pending /\ specMap' = specMap /\ out' = out
    BY <1>3 DEF ScanOther
  <2>3. TypeOK'
    <3>1. li' \in 1..(MaxLines + 1)
      BY <1>a, <2>1, <2>2
    <3>. QED
      BY <1>t, <2>2, <3>1 DEF TypeOK
  <2>4. \A s \in Text : Scanned(paths, content, fi, li + 1, s) = Scanned(paths, content, fi, li, s)
    <3>0. F[li].kind # "fn" /\ li \in Nat \ {0}
      BY <1>a, <2>1
    <3>1. ASSUME NEW s \in Text
          PROVE  BoundUpTo(F, paths[fi], s, li + 1) = BoundUpTo(F, paths[fi], s, li)
      BY <3>0, BoundSkip
    <3>. QED
      BY <1>a, <2>1, <3>1 DEF Scanned, Scanning
  <2>5. \A s \in Text : AnnotatedAt(F, s, li + 1) <=> AnnotatedAt(F, s, li)
    <3>1. F[li].kind \notin {"fn", "annot"} /\ li \in Nat \ {0}
      BY <1>a, <2>1
    <3>2. ASSUME NEW s \in Text PROVE AnnotatedAt(F, s, li + 1) <=> AnnotatedAt(F, s, li)
      BY <3>1, AnnotSkip
    <3>. QED
      BY <3>2
  <2>. QED
    BY <1>a, <1>r, <1>p, <2>1, <2>2, <2>3, <2>4, <2>5 DEF IInv, Scanning
<1>4. CASE NextFile
  <2> DEFINE F == content[paths[fi]]
  <2>1. /\ fi \in 1..Len(paths) /\ paths[fi] \in FileId /\ li = Len(F) + 1
        /\ fi' = fi + 1 /\ li' = 1 /\ pending' = <<>>
        /\ paths' = paths /\ content' = content /\ specMap' = specMap /\ out' = out
    BY <1>0, <1>4 DEF NextFile
  <2>2. out = NoFile
    BY <1>o, <2>1
  <2>3. TypeOK'
    BY <1>t, <1>0, <2>1 DEF TypeOK
  <2>4. fi' \in 1..(Len(paths') + 1)
        /\ (fi' \in DOMAIN paths' => li' \in 1..(Len(content'[paths'[fi']]) + 1))
    BY <1>0, <2>1
  <2>5. \A s \in Text : Scanned(paths, content, fi + 1, 1, s) = Scanned(paths, content, fi, li, s)
    BY <1>0, <2>1, ScannedNextFile
  <2>6. \A s \in Text : ~AnnotatedAt(content[paths[fi + 1]], s, 1)
    BY ScanFirst
  <2>. QED
    BY <1>r, <2>1, <2>2, <2>3, <2>4, <2>5, <2>6, RangeEmpty DEF IInv
<1>5. CASE WriteMapping
  <2>1. /\ fi = Len(paths) + 1 /\ out' = MakeMapReport(specMap)
        /\ UNCHANGED <<paths, content, fi, li, pending, specMap>>
    BY <1>5 DEF WriteMapping
  <2>2. TypeOK'
    BY <1>t, <2>1 DEF TypeOK, MakeMapReport
  <2>3. fi \notin DOMAIN paths
    BY <1>0, <2>1
  <2>. QED
    BY <1>f, <1>r, <2>1, <2>2, <2>3 DEF IInv
<1>6. CASE Done \/ UNCHANGED vars
  <2>1. UNCHANGED vars
    BY <1>6 DEF Done
  <2>. QED
    BY <1>t, <1>f, <1>r, <1>p, <1>o, <2>1 DEF vars, IInv, TypeOK
<1>. QED
  BY <1>1, <1>2, <1>3, <1>4, <1>5, <1>6 DEF Next

-----------------------------------------------------------------------------
(* The theorems *)

\* Every state of scripts/spec_test_map.py has the types the code
\* gives its variables: the paths and lines it reads stay bounded and every
\* bucket of spec_map holds test identifiers.
THEOREM TypeCorrect == Spec => []TypeOK
<1>1. IInv => TypeOK
  BY DEF IInv
<1>. QED
  BY InitIInv, NextIInv, <1>1, PTL DEF Spec

\* Once the mapping is written, each title's bucket holds exactly the tests
\* the reference binds to it in the scanned files, each once: the flush on a
\* function line, the reset of pending at each new file and the membership
\* check before the append make the scanner agree with BoundIn.
THEOREM MappingMatchesReferenceHolds == Spec => []MappingMatchesReference
<1>1. IInv => MappingMatchesReference
  <2> SUFFICES ASSUME IInv, out # NoFile, NEW s \in Text
               PROVE  /\ Range(out.sections[s]) = UNION {BoundIn(paths[k], s) : k \in DOMAIN paths}
                      /\ IsInjective(out.sections[s])
    BY DEF MappingMatchesReference
  <2>1. /\ paths \in Seq(FileId)
        /\ \A f \in FileId : content[f] \in Seq(Line)
    BY ShapeFacts DEF IInv
  <2>2. fi = Len(paths) + 1 /\ out.sections = specMap
    BY DEF IInv, MakeMapReport
  <2>3. /\ Range(specMap[s]) = Scanned(paths, content, fi, li, s)
        /\ IsInjective(specMap[s])
    BY DEF IInv
  <2>4. Scanned(paths, content, fi, li, s) =
          UNION {BoundAllOf(content, paths[k], s) : k \in 1..Len(paths)}
    BY <2>1, <2>2 DEF Scanned
  <2>5. \A k \in DOMAIN paths : BoundAllOf(content, paths[k], s) = BoundIn(paths[k], s)
    BY <2>1, BoundAllIsBoundIn
  <2>6. DOMAIN paths = 1..Len(paths)
    BY <2>1
  <2>. QED
    BY <2>2, <2>3, <2>4, <2>5, <2>6
<1>. QED
  BY InitIInv, NextIInv, <1>1, PTL DEF Spec

====
