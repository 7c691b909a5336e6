------------------------- MODULE SpoolPipelineProofs ------------------------
(***************************************************************************)
(* The safety of the spool, for any number of URLs, pages, segments,       *)
(* crashes and errors, and any segment size and commit size.               *)
(***************************************************************************)
EXTENDS SpoolPipeline, FiniteSetTheorems, WellFoundedInduction, TLAPS

-----------------------------------------------------------------------------
(* Lemmas about the operators of the model *)

\* A non-empty set of naturals has a least element, which Min returns.
LEMMA MinIsLeast ==
    ASSUME NEW S, S \subseteq Nat, S # {}
    PROVE  /\ Min(S) \in S
           /\ \A x \in S : Min(S) <= x
<1> DEFINE R == {ss \in Nat \X Nat : ss[1] < ss[2]}
<1>1. IsWellFoundedOn(R, Nat)
  BY NatLessThanWellFounded DEF OpToRel
<1>2. PICK x \in S : \A y \in S : ~(<<y, x>> \in R)
  BY <1>1, WFMin
<1>3. ASSUME NEW y \in S, y < x
      PROVE  <<y, x>> \in R
  BY <1>3
<1>4. ASSUME NEW y \in S
      PROVE  x <= y
  <2> HIDE DEF R
  <2>1. ~(y < x)
    BY <1>2, <1>3
  <2> QED
    BY <2>1
<1> QED
  BY <1>4 DEF Min

\* A non-empty bounded set of naturals has a greatest element: Max returns it.
LEMMA MaxIsGreatest ==
    ASSUME NEW S, NEW b \in Nat, S \subseteq 0 .. b, S # {}
    PROVE  /\ Max(S) \in S
           /\ \A x \in S : x <= Max(S)
<1> DEFINE T == {b - x : x \in S}
<1>1. T \subseteq Nat /\ T # {}
  <2>1. \A x \in S : b - x \in Nat
    OBVIOUS
  <2> QED
    BY <2>1
<1>2. PICK m \in S : b - m = Min(T)
  BY <1>1, MinIsLeast
<1>3. \A x \in S : b - m <= b - x
  BY <1>1, <1>2, MinIsLeast
<1>4. \A x \in S : m >= x
  BY <1>3
<1> QED
  BY <1>4 DEF Max

\* Appending a frame adds its document to those of the segment.
LEMMA RangeOfAppend ==
    ASSUME NEW S, NEW s \in Seq(S), NEW d \in S
    PROVE  Range(Append(s, d)) = Range(s) \cup {d}
<1>1. DOMAIN Append(s, d) = DOMAIN s \cup {Len(s) + 1}
  OBVIOUS
<1>2. \A i \in DOMAIN s : Append(s, d)[i] = s[i]
  OBVIOUS
<1>3. Append(s, d)[Len(s) + 1] = d
  OBVIOUS
<1> QED
  BY <1>1, <1>2, <1>3 DEF Range

\* Without a crawler the highest number is that of the next file, less one.
LEMMA NextSpoolSequenceIsFresh ==
    /\ NextSpoolSequence \in Nat \ {0}
    /\ \A n \in Existing : n < NextSpoolSequence
<1> DEFINE S == Existing \cup {0}
<1>1. S \subseteq 0 .. MaxSegments /\ S # {}
  BY SpoolAssumption DEF Existing, Names
<1>2. Max(S) \in S /\ \A x \in S : x <= Max(S)
  BY <1>1, MaxIsGreatest, SpoolAssumption
<1> QED
  BY <1>1, <1>2 DEF NextSpoolSequence

-----------------------------------------------------------------------------
(* Type correctness *)

\* An empty directory and two processes that have not run.
LEMMA InitTypeOK == Init => TypeOK
<1> SUFFICES ASSUME Init PROVE TypeOK
  OBVIOUS
<1> USE SpoolAssumption, WriterAssumption, DrainAssumption
<1>1. SpoolTypeOK
  BY DEF Init, WriterInit, SpoolInit, SpoolTypeOK, Segment, NoFile
<1>2. WriterTypeOK
  BY <1>1 DEF Init, WriterInit, WriterTypeOK, Version
<1>3. DrainTypeOK
  BY <1>1 DEF Init, DrainInit, DrainTypeOK, Version
<1> QED
  BY <1>2, <1>3 DEF TypeOK

\* A page is a document, and its segment with one more frame is a segment.
LEMMA WithFrameType ==
    ASSUME TypeOK, segment # 0, pages < MaxPages, NEW u \in Url
    PROVE  /\ NewDoc(u) \in Doc
           /\ NewDoc(u).ver = pages + 1
           /\ segment \in Names
           /\ WithFrame(NewDoc(u)) =
                 [file |-> spool[segment].file,
                  docs |-> Append(spool[segment].docs, NewDoc(u)),
                  torn |-> spool[segment].torn]
           /\ WithFrame(NewDoc(u)) \in Segment
<1> USE SpoolAssumption
<1>1. NewDoc(u) \in Doc
  BY DEF TypeOK, WriterTypeOK, Version, Doc, NewDoc
<1>2. segment \in Names
  BY DEF TypeOK, WriterTypeOK, Names
<1>3. spool[segment] \in Segment
  BY <1>2 DEF TypeOK, WriterTypeOK, SpoolTypeOK
<1>4. WithFrame(NewDoc(u)) = [file |-> spool[segment].file,
                              docs |-> Append(spool[segment].docs, NewDoc(u)),
                              torn |-> spool[segment].torn]
  <2> DEFINE f == spool[segment]
  <2>1. f = [file |-> f.file, docs |-> f.docs, torn |-> f.torn]
    BY <1>3 DEF Segment
  <2>2. WithFrame(NewDoc(u)) = [f EXCEPT !.docs = Append(@, NewDoc(u))]
    BY DEF WithFrame
  <2> HIDE DEF f
  <2>3. [f EXCEPT !.docs = Append(@, NewDoc(u))]
           = [file |-> f.file, docs |-> Append(f.docs, NewDoc(u)), torn |-> f.torn]
    BY <2>1
  <2> QED
    BY <2>2, <2>3 DEF f
<1>5. Append(spool[segment].docs, NewDoc(u)) \in Seq(Doc)
  BY <1>1, <1>3 DEF Segment
<1>6. NewDoc(u).ver = pages + 1
  BY DEF NewDoc
<1> QED
  BY <1>1, <1>2, <1>3, <1>4, <1>5, <1>6 DEF Segment

\* Sealing keeps the frames.
LEMMA SealedFileType ==
    ASSUME NEW s \in Segment
    PROVE  /\ SealedFile(s) \in Segment
           /\ SealedFile(s) = [file |-> "sealed", docs |-> s.docs,
                               torn |-> s.torn]
BY DEF SealedFile, Segment

\* A step of the crawler keeps every variable in its range.
LEMMA WriterTypeStep ==
    ASSUME TypeOK, WriterNext, UNCHANGED onlyDrain
    PROVE  TypeOK'
<1> USE SpoolAssumption, WriterAssumption
<1>1. SUFFICES WriterTypeOK'
  BY <1>1 DEF TypeOK, DrainTypeOK, WriterTypeOK, onlyDrain
<1>2. WriterTypeOK
  BY DEF TypeOK
<1>3. NewFile \in Segment
  BY DEF NewFile, Segment
<1>4. CASE StartCrawl
  BY <1>2, <1>4 DEF StartCrawl, WriterTypeOK, SpoolTypeOK, Names
<1>11. CASE OpenSegment
  BY <1>2, <1>3, <1>11 DEF OpenSegment, WriterTypeOK, SpoolTypeOK, Names
<1>12. CASE OpenSegmentFails
  BY <1>2, <1>12 DEF OpenSegmentFails, WriterTypeOK, SpoolTypeOK
<1>5. ASSUME NEW u \in Url, WritePage(u) PROVE WriterTypeOK'
  <2> DEFINE s == WithFrame(NewDoc(u))
  <2>1. /\ segment \in Names
        /\ s \in Segment
        /\ SealedFile(s) \in Segment
    BY <1>5, WithFrameType, SealedFileType DEF WritePage
  <2>2. s.docs \in Seq(Doc)
    BY <2>1 DEF Segment
  <2>3. Range(s.docs) \subseteq Doc
    BY <2>2 DEF Range
  <2>4. pages' \in Version
    BY <1>2, <1>5 DEF WritePage, WriterTypeOK, Version
  <2>5. CASE Len(s.docs) >= SegmentDocs
    <3>1. /\ spool' = [spool EXCEPT ![segment] = SealedFile(s),
                                    ![segment + 1] = NewFile]
          /\ segment' = segment + 1
          /\ segment + 1 \in Names
          /\ handed' = handed \cup Range(s.docs)
          /\ UNCHANGED << starting, kills, ioErrors >>
      BY <1>5, <2>5 DEF WritePage
    <3> HIDE DEF s
    <3> QED
      BY <1>2, <1>3, <2>1, <2>3, <2>4, <3>1
      DEF WriterTypeOK, SpoolTypeOK, Names
  <2>6. CASE ~(Len(s.docs) >= SegmentDocs)
    <3>1. /\ spool' = [spool EXCEPT ![segment] = s]
          /\ UNCHANGED << segment, starting, handed, kills, ioErrors >>
      BY <1>5, <2>6 DEF WritePage
    <3> HIDE DEF s
    <3> QED
      BY <1>2, <2>1, <2>4, <3>1 DEF WriterTypeOK, SpoolTypeOK
  <2> QED
    BY <2>5, <2>6
<1>6. ASSUME NEW u \in Url, OpenNextFails(u) PROVE WriterTypeOK'
  <2> DEFINE s == WithFrame(NewDoc(u))
  <2>1. /\ segment \in Names
        /\ s \in Segment
        /\ SealedFile(s) \in Segment
    BY <1>6, WithFrameType, SealedFileType DEF OpenNextFails
  <2>2. s.docs \in Seq(Doc)
    BY <2>1 DEF Segment
  <2>3. Range(s.docs) \subseteq Doc
    BY <2>2 DEF Range
  <2>4. /\ spool' = [spool EXCEPT ![segment] = SealedFile(s)]
        /\ handed' = handed \cup Range(s.docs)
        /\ segment' = 0
        /\ pages < MaxPages
        /\ pages' = pages + 1
        /\ ioErrors < MaxIoErrors
        /\ ioErrors' = ioErrors + 1
        /\ UNCHANGED << starting, kills >>
    BY <1>6 DEF OpenNextFails
  <2> HIDE DEF s
  <2> QED
    BY <1>2, <2>1, <2>3, <2>4 DEF WriterTypeOK, SpoolTypeOK, Version
<1>7. ASSUME segment # 0
      PROVE  /\ segment \in Names
             /\ DocsIn(segment) \subseteq Doc
             /\ SealedFile(spool[segment]) \in Segment
             /\ \A p \in BOOLEAN :
                   [SealedFile(spool[segment]) EXCEPT !.torn = p] \in Segment
  <2>1. segment \in Names /\ spool[segment] \in Segment
    BY <1>2, <1>7 DEF WriterTypeOK, SpoolTypeOK, Names
  <2>2. spool[segment].docs \in Seq(Doc)
    BY <2>1 DEF Segment
  <2>3. DocsIn(segment) \subseteq Doc
    BY <2>2 DEF DocsIn, Range
  <2> QED
    BY <2>1, <2>3, SealedFileType DEF Segment
<1>8. CASE SealArchive
  BY <1>2, <1>7, <1>8 DEF SealArchive, WriterTypeOK, SpoolTypeOK
<1>9. CASE WriteFails
  BY <1>2, <1>7, <1>9 DEF WriteFails, WriterTypeOK, SpoolTypeOK
<1>10. CASE KillCrawler
  BY <1>2, <1>10 DEF KillCrawler, WriterTypeOK, SpoolTypeOK
<1> QED
  BY <1>4, <1>5, <1>6, <1>8, <1>9, <1>10, <1>11, <1>12 DEF WriterNext

\* The frame the indexer reads next is a document.
LEMMA NextFrameType ==
    ASSUME TypeOK, ListedIsOldest, pc = "read",
           pos \in DOMAIN spool[current].docs
    PROVE  spool[current].docs[pos] \in Doc
<1>1. current \in Sealed
  BY DEF ListedIsOldest, Listed, Reading
<1>2. spool[current] \in Segment
  BY <1>1 DEF TypeOK, WriterTypeOK, SpoolTypeOK, Sealed
<1> QED
  BY <1>2 DEF Segment

\* A commit leaves a version or none for each URL.
LEMMA CommittedType ==
    ASSUME NEW i \in [Url -> Version], NEW s \in [Url -> Version]
    PROVE  Committed(i, s) \in [Url -> Version]
BY DEF Committed

\* The number of documents of an index.
LEMMA DocCountType ==
    ASSUME NEW i \in [Url -> Version]
    PROVE  DocCount(i) \in Nat
<1>1. IsFiniteSet({u \in Url : i[u] # 0})
  BY SpoolAssumption, FS_Subset
<1> QED
  BY <1>1, FS_CardinalityType DEF DocCount

\* So does a step of the indexer, which reads what it has listed.
LEMMA DrainTypeStep ==
    ASSUME TypeOK, ListedIsOldest, DrainNext, UNCHANGED onlyWriter
    PROVE  TypeOK'
<1> USE SpoolAssumption, DrainAssumption
<1>1. DrainTypeOK /\ SpoolTypeOK
  BY DEF TypeOK, DrainTypeOK
<1>2. SUFFICES DrainTypeOK'
  BY <1>2 DEF TypeOK, DrainTypeOK, WriterTypeOK, onlyWriter
<1>3. NothingStaged \in [Url -> Version]
  BY DEF NothingStaged, Version
<1>4. CASE StartDrain
  BY <1>1, <1>4 DEF StartDrain, DrainTypeOK, SpoolTypeOK
<1>5. CASE ListReady
  BY <1>1, <1>3, <1>5
  DEF ListReady, Stopped, Sealed, DrainTypeOK, SpoolTypeOK
<1>6. CASE BuildAuthority
  <2>1. ReadyUrls \subseteq Url
    <3>1. ASSUME NEW n \in ready, NEW d \in DocsIn(n) PROVE d.url \in Url
      <4>1. spool[n].docs \in Seq(Doc)
        BY <1>1 DEF DrainTypeOK, SpoolTypeOK, Segment
      <4>2. d \in Doc
        BY <4>1 DEF DocsIn, Range
      <4> QED
        BY <4>2 DEF Doc
    <3> QED
      BY <3>1 DEF ReadyUrls
  <2>2. \A cut \in Cuts : cut \subseteq ReadyUrls
    BY DEF Cuts
  <2>3. counted' \subseteq Url /\ missed' \subseteq Url
    BY <1>1, <1>6, <2>1, <2>2 DEF BuildAuthority, DrainTypeOK
  <2>4. sidecarErrors' \in 0 .. MaxSidecarErrors
    BY <1>1, <1>6 DEF BuildAuthority, DrainTypeOK
  <2> QED
    BY <1>1, <1>3, <1>6, <2>3, <2>4
    DEF BuildAuthority, Stopped, DrainTypeOK, SpoolTypeOK
<1>7. CASE BeginSegment
  <2>1. CASE ready # {}
    <3>1. ready \subseteq Nat
      BY <1>1 DEF DrainTypeOK, Names
    <3>2. FirstReady \in ready
      BY <2>1, <3>1, MinIsLeast DEF FirstReady
    <3>3. /\ current' = FirstReady
          /\ ready' = ready \ {FirstReady}
          /\ pos' = 1
          /\ before' = DocCount(index)
          /\ pc' = "read"
          /\ UNCHANGED << spool, staged, pending, index, archived, history,
                          counted, missed, crashes, sidecarErrors >>
      BY <1>7, <2>1 DEF BeginSegment
    <3>4. DocCount(index) \in Nat
      BY <1>1, DocCountType DEF DrainTypeOK
    <3> QED
      BY <1>1, <3>2, <3>3, <3>4 DEF DrainTypeOK, SpoolTypeOK, Names
  <2>2. CASE ready = {}
    BY <1>1, <1>7, <2>2 DEF BeginSegment, DrainTypeOK, SpoolTypeOK
  <2> QED
    BY <2>1, <2>2
<1>8. CASE IndexDocument
  <2> DEFINE d == spool[current].docs[pos]
             s == [staged EXCEPT ![d.url] = d.ver]
  <2>1. spool[current] \in Segment
    BY <1>8 DEF IndexDocument, ListedIsOldest, Listed, Reading, Sealed, TypeOK,
                WriterTypeOK, SpoolTypeOK
  <2>2. d \in Doc
    BY <1>1, <1>8, <2>1, NextFrameType DEF IndexDocument, DrainTypeOK, Segment
  <2>3. s \in [Url -> Version]
    <3>1. d.url \in Url /\ d.ver \in Version /\ staged \in [Url -> Version]
      BY <1>1, <2>2, SMTT(20) DEF DrainTypeOK, Doc, Version
    <3> HIDE DEF d
    <3> QED
      BY <3>1
  <2>4. Committed(index, s) \in [Url -> Version]
    BY <1>1, <2>3, CommittedType DEF DrainTypeOK
  <2>5. /\ pos' = pos + 1
        /\ \/ /\ index' = Committed(index, s)
              /\ staged' = NothingStaged
              /\ pending' = 0
           \/ /\ staged' = s
              /\ pending' = pending + 1
              /\ UNCHANGED index
        /\ UNCHANGED << spool, pc, ready, current, before, archived, history,
                        counted, missed, crashes, sidecarErrors >>
    BY <1>8 DEF IndexDocument
  <2> HIDE DEF s
  <2> QED
    BY <1>1, <1>3, <2>3, <2>4, <2>5 DEF DrainTypeOK, SpoolTypeOK
<1>9. CASE CommitSegment
  BY <1>1, <1>3, <1>9, CommittedType
  DEF CommitSegment, DrainTypeOK, SpoolTypeOK
<1>10. CASE Retire
  <2>1. current \in Names /\ spool[current].docs \in Seq(Doc)
    BY <1>1, <1>10
    DEF Retire, ListedIsOldest, Listed, Reading, Sealed, SpoolTypeOK, Segment
  <2>2. NoFile \in Segment
    BY DEF NoFile, Segment
  <2>3. SpoolTypeOK'
    BY <1>1, <1>10, <2>2 DEF Retire, SpoolTypeOK
  <2>4. archived' \in [Names -> Seq(Doc)]
    BY <1>1, <1>10, <2>1 DEF Retire, DrainTypeOK
  <2> QED
    BY <1>1, <1>10, <2>3, <2>4 DEF Retire, DrainTypeOK
<1>11. CASE RecordHistory
  BY <1>1, <1>11, DocCountType
  DEF RecordHistory, Gained, SaturatingSub, DrainTypeOK, SpoolTypeOK
<1>12. CASE CrashDrain
  BY <1>1, <1>3, <1>12 DEF CrashDrain, Stopped, DrainTypeOK, SpoolTypeOK
<1> QED
  BY <1>4, <1>5, <1>6, <1>7, <1>8, <1>9, <1>10, <1>11, <1>12
  DEF DrainNext, DrainStep

-----------------------------------------------------------------------------
(* The invariant, for the steps of the crawler *)

\* What every step of the crawler does to the directory: it touches the segment
\* in progress and at most one new file above all others, adds at most one
\* frame, and hands over a segment exactly when it seals it.
WriterShape ==
    /\ pages <= pages'
    /\ \A n \in Names : n # segment /\ n # segment' => spool'[n] = spool[n]
    /\ segment' # 0 => spool'[segment'].file = "open"
    /\ segment' # 0 /\ segment' # segment =>
           /\ spool'[segment'].docs = << >>
           /\ \A n \in Existing : n < segment'
    /\ starting' # 0 =>
           /\ segment' = 0
           /\ spool' = spool
           /\ \A n \in Existing : n < starting'
    /\ segment # 0 =>
           /\ spool'[segment].file \in {"open", "sealed"}
           /\ \/ spool'[segment].docs = spool[segment].docs
              \/ \E d \in Doc :
                    /\ d.ver = pages + 1
                    /\ pages' = pages + 1
                    /\ spool'[segment].docs = Append(spool[segment].docs, d)
    /\ IF segment # 0 /\ spool'[segment].file = "sealed"
       THEN handed' = handed \cup Range(spool'[segment].docs)
       ELSE handed' = handed

\* Every step of the crawler has that shape.
LEMMA WriterStepShape ==
    ASSUME TypeOK, WritesAtTheEnd, WriterNext
    PROVE  WriterShape
<1> USE SpoolAssumption
<1>1. /\ spool \in [Names -> Segment]
      /\ segment \in 0 .. MaxSegments
      /\ pages \in Nat
  BY DEF TypeOK, WriterTypeOK, SpoolTypeOK, Version
<1>2. segment # 0 => segment \in Names /\ spool[segment] \in Segment
  BY <1>1 DEF Names
<1>3. 0 \notin Names
  BY DEF Names
<1>4. CASE StartCrawl
  BY <1>1, <1>4, NextSpoolSequenceIsFresh DEF StartCrawl, WriterShape
<1>10. CASE OpenSegment
  <2>1. /\ segment = 0
        /\ segment' \in Names
        /\ segment' = starting
        /\ spool' = [spool EXCEPT ![segment'] = NewFile]
        /\ starting' = 0
        /\ UNCHANGED << pages, handed >>
    BY <1>10 DEF OpenSegment, WritesAtTheEnd, TypeOK, WriterTypeOK, Names
  <2>2. \A n \in Existing : n < segment'
    BY <1>3, <2>1 DEF WritesAtTheEnd
  <2>3. spool'[segment'] = NewFile
    BY <1>1, <2>1
  <2> QED
    BY <1>1, <2>1, <2>2, <2>3 DEF WriterShape, NewFile
<1>11. CASE OpenSegmentFails
  BY <1>1, <1>11 DEF OpenSegmentFails, WriterShape, WritesAtTheEnd
<1>5. ASSUME NEW u \in Url, WritePage(u) PROVE WriterShape
  <2> DEFINE d == NewDoc(u)
             s == WithFrame(d)
  <2>1. /\ segment # 0 /\ pages < MaxPages /\ pages' = pages + 1
        /\ starting' = 0
    BY <1>5 DEF WritePage, WritesAtTheEnd
  <2>2. /\ d \in Doc
        /\ d.ver = pages + 1
        /\ s \in Segment
        /\ s.docs = Append(spool[segment].docs, d)
        /\ s.file = spool[segment].file
    BY <2>1, WithFrameType
  <2>3. s.file = "open"
    BY <2>1, <2>2 DEF WritesAtTheEnd
  <2>4. CASE Len(s.docs) >= SegmentDocs
    <3>1. /\ spool' = [spool EXCEPT ![segment] = SealedFile(s),
                                    ![segment + 1] = NewFile]
          /\ segment' = segment + 1
          /\ segment + 1 \in Names
          /\ handed' = handed \cup Range(s.docs)
      BY <1>5, <2>4 DEF WritePage
    <3>2. SealedFile(s).file = "sealed" /\ SealedFile(s).docs = s.docs
      BY <2>2, SealedFileType
    <3>3. spool'[segment] = SealedFile(s) /\ spool'[segment'] = NewFile
      BY <1>1, <1>2, <2>1, <3>1 DEF Names
    <3>4. \A n \in Existing : n < segment'
      BY <1>1, <2>1, <3>1 DEF WritesAtTheEnd, Existing, Names
    <3>5. \A n \in Names : n # segment /\ n # segment' => spool'[n] = spool[n]
      BY <1>1, <3>1
    <3>6. handed' = handed \cup Range(spool'[segment].docs)
      BY <3>1, <3>2, <3>3
    <3>7. /\ spool'[segment'].file = "open"
          /\ spool'[segment'].docs = << >>
          /\ spool'[segment].file = "sealed"
          /\ spool'[segment].docs = Append(spool[segment].docs, d)
      BY <2>2, <3>2, <3>3 DEF NewFile
    <3> HIDE DEF s, d
    <3> QED
      BY <1>1, <2>1, <2>2, <3>4, <3>5, <3>6, <3>7 DEF WriterShape
  <2>5. CASE ~(Len(s.docs) >= SegmentDocs)
    <3>1. /\ spool' = [spool EXCEPT ![segment] = s]
          /\ UNCHANGED << segment, handed >>
      BY <1>5, <2>5 DEF WritePage
    <3> HIDE DEF s, d
    <3>2. spool'[segment] = s
      BY <1>1, <1>2, <2>1, <3>1
    <3> QED
      BY <1>1, <2>1, <2>2, <2>3, <3>1, <3>2 DEF WriterShape
  <2> QED
    BY <2>4, <2>5
<1>6. ASSUME NEW u \in Url, OpenNextFails(u) PROVE WriterShape
  <2> DEFINE d == NewDoc(u)
             s == WithFrame(d)
  <2>1. /\ segment # 0
        /\ pages < MaxPages
        /\ pages' = pages + 1
        /\ spool' = [spool EXCEPT ![segment] = SealedFile(s)]
        /\ handed' = handed \cup Range(s.docs)
        /\ segment' = 0
        /\ starting' = 0
    BY <1>6 DEF OpenNextFails, WritesAtTheEnd
  <2>2. /\ d \in Doc
        /\ d.ver = pages + 1
        /\ s \in Segment
        /\ s.docs = Append(spool[segment].docs, d)
    BY <2>1, WithFrameType
  <2>3. SealedFile(s).file = "sealed" /\ SealedFile(s).docs = s.docs
    BY <2>2, SealedFileType
  <2>4. spool'[segment] = SealedFile(s)
    BY <1>1, <1>2, <2>1
  <2>5. handed' = handed \cup Range(spool'[segment].docs)
    BY <2>1, <2>3, <2>4
  <2> HIDE DEF s, d
  <2> QED
    BY <1>1, <2>1, <2>2, <2>3, <2>4, <2>5 DEF WriterShape
<1>7. CASE SealArchive
  <2>1. /\ segment \in Names
        /\ spool' = [spool EXCEPT ![segment] = SealedFile(spool[segment])]
        /\ segment' = 0
        /\ handed' = handed \cup Range(spool[segment].docs)
        /\ pages' = pages
        /\ starting' = 0
    BY <1>2, <1>7 DEF SealArchive, DocsIn, WritesAtTheEnd
  <2>2. spool'[segment] = SealedFile(spool[segment])
    BY <1>1, <2>1
  <2>3. /\ spool'[segment].file = "sealed"
        /\ spool'[segment].docs = spool[segment].docs
    BY <1>2, <1>3, <2>1, <2>2, SealedFileType
  <2> QED
    BY <1>1, <2>1, <2>3 DEF WriterShape
<1>8. CASE WriteFails
  <2>1. CASE UNCHANGED << spool, handed >>
    BY <1>1, <1>8, <2>1 DEF WriteFails, WriterShape, WritesAtTheEnd
  <2>2. ASSUME NEW p \in BOOLEAN,
               spool' = [spool EXCEPT ![segment] =
                            [SealedFile(spool[segment]) EXCEPT !.torn = p]],
               handed' = handed \cup Range(spool[segment].docs)
        PROVE  WriterShape
    <3> DEFINE f == SealedFile(spool[segment])
    <3>1. segment \in Names /\ segment' = 0 /\ pages' = pages /\ starting' = 0
      BY <1>2, <1>8 DEF WriteFails, WritesAtTheEnd
    <3>2. f = [file |-> "sealed", docs |-> spool[segment].docs,
               torn |-> spool[segment].torn]
      BY <1>2, <1>3, <3>1, SealedFileType
    <3>3. spool'[segment] = [f EXCEPT !.torn = p]
      BY <1>1, <2>2, <3>1
    <3> HIDE DEF f
    <3>4. [f EXCEPT !.torn = p].file = "sealed"
          /\ [f EXCEPT !.torn = p].docs = spool[segment].docs
      BY <3>2
    <3>5. /\ spool'[segment].file = "sealed"
          /\ spool'[segment].docs = spool[segment].docs
      BY <3>3, <3>4
    <3>6. \A n \in Names : n # segment => spool'[n] = spool[n]
      BY <1>1, <2>2
    <3>7. handed' = handed \cup Range(spool'[segment].docs)
      BY <2>2, <3>5
    <3> QED
      BY <1>1, <1>3, <3>1, <3>5, <3>6, <3>7 DEF WriterShape
  <2> QED
    BY <1>8, <2>1, <2>2 DEF WriteFails, DocsIn
<1>9. CASE KillCrawler
  BY <1>1, <1>9 DEF KillCrawler, WriterShape, WritesAtTheEnd
<1> QED
  BY <1>4, <1>5, <1>6, <1>7, <1>8, <1>9, <1>10, <1>11 DEF WriterNext

\* The files after a step of the crawler: those of before, and perhaps an empty
\* one above them; only the segment in progress has changed.
LEMMA WriterFiles ==
    ASSUME TypeOK, TypeOK', WritesAtTheEnd, WriterShape
    PROVE  /\ Existing \subseteq Existing'
           /\ \A n \in Existing' \ Existing :
                 /\ n = segment' /\ segment' # segment
                 /\ spool'[n].docs = << >>
                 /\ \A m \in Existing : m < n
           /\ segment # 0 => segment \in Existing
           /\ \A n \in Existing : n # segment => spool'[n] = spool[n]
           /\ \A n \in Sealed : n # segment /\ spool'[n] = spool[n]
           /\ \A n \in Sealed' \ Sealed : n = segment
<1>1. /\ spool \in [Names -> Segment] /\ spool' \in [Names -> Segment]
      /\ segment \in 0 .. MaxSegments /\ segment' \in 0 .. MaxSegments
      /\ Names = 1 .. MaxSegments /\ MaxSegments \in Nat
  BY SpoolAssumption DEF TypeOK, WriterTypeOK, SpoolTypeOK, Names
<1>2. segment # 0 => segment \in Existing /\ segment \notin Sealed
  BY <1>1 DEF WritesAtTheEnd, Existing, Sealed
<1>3. ASSUME NEW n \in Existing, n # segment PROVE spool'[n] = spool[n]
  <2>1. n # segment'
    <3>1. n \in Names
      BY DEF Existing
    <3> QED
      BY <1>1, <1>3, <3>1 DEF WriterShape
  <2> QED
    BY <1>3, <2>1 DEF WriterShape, Existing
<1>4. Existing \subseteq Existing'
  <2>1. ASSUME NEW n \in Existing PROVE n \in Existing'
    <3>1. CASE n = segment
      BY <1>1, <3>1 DEF Existing, WriterShape
    <3>2. CASE n # segment
      BY <1>3, <3>2 DEF Existing
    <3> QED
      BY <3>1, <3>2
  <2> QED
    BY <2>1
<1>5. ASSUME NEW n \in Existing' \ Existing
      PROVE  /\ n = segment' /\ segment' # segment
             /\ spool'[n].docs = << >>
             /\ \A m \in Existing : m < n
  <2>1. n \in Names /\ spool'[n] # spool[n] /\ n # segment
    BY <1>1, <1>2 DEF Existing
  <2>2. n = segment'
    BY <2>1 DEF WriterShape
  <2> QED
    BY <1>1, <2>1, <2>2 DEF WriterShape
<1>6. \A n \in Sealed : n \in Existing /\ n # segment
  BY <1>1, <1>2 DEF Sealed, Existing
<1>7. ASSUME NEW n \in Sealed' \ Sealed PROVE n = segment
  <2>1. n \in Names /\ spool'[n] # spool[n] /\ spool'[n].file = "sealed"
    BY DEF Sealed
  <2>2. n # segment'
    BY <1>1, <2>1 DEF WriterShape
  <2> QED
    BY <2>1, <2>2 DEF WriterShape
<1> QED
  BY <1>2, <1>3, <1>4, <1>5, <1>6, <1>7

\* The documents of a file after the step are those of before, or the page just
\* written to the segment in progress.
LEMMA WriterDocs ==
    ASSUME TypeOK, TypeOK', WritesAtTheEnd, WriterShape, NEW n \in Existing',
           NEW d \in Range(spool'[n].docs)
    PROVE  /\ n \in Existing
           /\ \/ d \in DocsIn(n)
              \/ n = segment /\ segment # 0 /\ d.ver = pages + 1 /\ pages' = pages + 1
<1>1. n \in Existing
  BY WriterFiles DEF Range
<1>2. CASE n # segment
  BY <1>1, <1>2, WriterFiles DEF DocsIn
<1>3. CASE n = segment
  <2>1. segment # 0 /\ spool[segment].docs \in Seq(Doc)
    BY <1>1, <1>3, SpoolAssumption
    DEF TypeOK, WriterTypeOK, SpoolTypeOK, Segment, Existing, Names
  <2>2. CASE spool'[segment].docs = spool[segment].docs
    BY <1>1, <1>3, <2>2 DEF DocsIn
  <2>3. ASSUME NEW e \in Doc, e.ver = pages + 1, pages' = pages + 1,
               spool'[segment].docs = Append(spool[segment].docs, e)
        PROVE  d \in DocsIn(n) \/ (d.ver = pages + 1 /\ pages' = pages + 1)
    <3>1. Range(spool'[segment].docs) = DocsIn(segment) \cup {e}
      BY <2>1, <2>3, RangeOfAppend DEF DocsIn
    <3> QED
      BY <1>3, <2>3, <3>1
  <2> QED
    BY <1>1, <1>3, <2>1, <2>2, <2>3 DEF WriterShape
<1> QED
  BY <1>1, <1>2, <1>3

\* The crawler writes at the end of the directory: crawl order is kept.
LEMMA WriterKeepsOrder ==
    ASSUME TypeOK, TypeOK', WriterShape, WritesAtTheEnd, VersionsSoFar,
           OrderedInSegments, OrderedAcrossSegments
    PROVE  /\ WritesAtTheEnd'
           /\ VersionsSoFar'
           /\ OrderedInSegments'
           /\ OrderedAcrossSegments'
<1>1. /\ pages \in Nat /\ pages' \in Nat /\ pages <= pages'
      /\ segment \in Nat /\ segment' \in Nat
      /\ Existing \subseteq Nat
      /\ spool \in [Names -> Segment]
      /\ spool' \in [Names -> Segment]
      /\ handed \subseteq Doc
      /\ \A d \in Doc : d.ver \in Nat
  BY SpoolAssumption
  DEF TypeOK, WriterTypeOK, SpoolTypeOK, Version, Existing, Names, WriterShape, Doc
<1>2. ASSUME NEW n \in Existing
      PROVE  /\ spool[n].docs \in Seq(Doc)
             /\ DocsIn(n) \subseteq Doc
  <2>1. spool[n].docs \in Seq(Doc)
    BY <1>1 DEF Existing, Segment
  <2> QED
    BY <2>1 DEF DocsIn, Range
<1>3. ASSUME NEW n \in Existing' PROVE DocsIn(n)' = Range(spool'[n].docs)
  BY DEF DocsIn
<1>4. WritesAtTheEnd'
  <2>1. ASSUME segment' # 0, NEW n \in Existing' PROVE n <= segment'
    <3>1. CASE n \in Existing /\ segment' = segment
      BY <1>1, <2>1, <3>1 DEF WritesAtTheEnd
    <3>2. CASE n \in Existing /\ segment' # segment
      <4>1. n < segment'
        BY <2>1, <3>2 DEF WriterShape
      <4>2. n \in Nat
        BY <1>1, <3>2
      <4> QED
        BY <1>1, <4>1, <4>2
    <3>3. CASE n \notin Existing
      BY <1>1, <2>1, <3>3, WriterFiles
    <3> QED
      BY <3>1, <3>2, <3>3
  <2>2. starting' # 0 => segment' = 0 /\ \A n \in Existing' : n < starting'
    BY DEF WriterShape, Existing
  <2> QED
    BY <2>1, <2>2 DEF WritesAtTheEnd, WriterShape
<1>5. VersionsSoFar'
  <2>1. ASSUME NEW n \in Existing', NEW d \in DocsIn(n)' PROVE d.ver <= pages'
    <3>1. n \in Existing /\ (d \in DocsIn(n) \/ d.ver = pages')
      BY <1>3, <2>1, WriterDocs
    <3> QED
      BY <1>1, <1>2, <3>1 DEF VersionsSoFar
  <2>2. ASSUME NEW d \in handed' PROVE d.ver <= pages'
    <3>1. CASE d \in handed
      BY <1>1, <3>1 DEF VersionsSoFar
    <3>2. CASE d \notin handed
      <4>1. segment # 0 /\ d \in Range(spool'[segment].docs)
        BY <3>2 DEF WriterShape
      <4>2. segment \in Existing'
        BY <4>1, WriterFiles
      <4> QED
        BY <1>3, <2>1, <4>1, <4>2
    <3> QED
      BY <3>1, <3>2
  <2> QED
    BY <2>1, <2>2 DEF VersionsSoFar
<1>6. OrderedInSegments'
  <2>1. SUFFICES ASSUME NEW n \in Existing',
                        NEW i \in DOMAIN spool'[n].docs,
                        NEW j \in DOMAIN spool'[n].docs, i < j
                 PROVE  spool'[n].docs[i].ver < spool'[n].docs[j].ver
    BY DEF OrderedInSegments
  <2>2. n \in Existing
    BY WriterFiles
  <2>3. CASE spool'[n].docs = spool[n].docs
    BY <2>1, <2>2, <2>3 DEF OrderedInSegments
  <2>4. CASE spool'[n].docs # spool[n].docs
    <3>1. n = segment /\ segment # 0
      <4>1. n = segment
        BY <2>2, <2>4, WriterFiles
      <4>2. n # 0
        BY <2>2 DEF Existing, Names
      <4> QED
        BY <4>1, <4>2
    <3>2. PICK d \in Doc : /\ d.ver = pages + 1
                           /\ spool'[n].docs = Append(spool[n].docs, d)
      BY <2>4, <3>1 DEF WriterShape
    <3>3. /\ DOMAIN spool[n].docs = 1 .. Len(spool[n].docs)
          /\ Len(spool[n].docs) \in Nat
          /\ DOMAIN spool'[n].docs = 1 .. (Len(spool[n].docs) + 1)
          /\ i \in DOMAIN spool[n].docs
          /\ spool'[n].docs[i] = spool[n].docs[i]
      BY <1>2, <2>1, <2>2, <3>2
    <3>4. CASE j \in DOMAIN spool[n].docs
      <4>1. spool'[n].docs[j] = spool[n].docs[j]
        BY <1>2, <2>2, <3>2, <3>4
      <4> QED
        BY <2>1, <2>2, <3>3, <3>4, <4>1 DEF OrderedInSegments
    <3>5. CASE j \notin DOMAIN spool[n].docs
      <4>1. spool'[n].docs[j] = d
        BY <1>2, <2>2, <3>2, <3>3, <3>5
      <4>2. spool[n].docs[i] \in DocsIn(n)
        BY <3>3 DEF DocsIn, Range
      <4>3. spool[n].docs[i].ver <= pages
        BY <2>2, <4>2 DEF VersionsSoFar
      <4> QED
        BY <1>1, <1>2, <2>2, <3>2, <3>3, <4>1, <4>2, <4>3
    <3> QED
      BY <3>4, <3>5
  <2> QED
    BY <2>3, <2>4
<1>7. OrderedAcrossSegments'
  <2>1. SUFFICES ASSUME NEW m \in Existing', NEW n \in Existing', m < n,
                        NEW d \in Range(spool'[m].docs),
                        NEW e \in Range(spool'[n].docs)
                 PROVE  d.ver < e.ver
    BY <1>3 DEF OrderedAcrossSegments
  <2>2. m \in Existing /\ n \in Existing
    BY WriterDocs
  <2>3. d \in DocsIn(m)
    BY <1>1, <2>1, <2>2, WriterDocs DEF WritesAtTheEnd
  <2>4. CASE e \in DocsIn(n)
    BY <2>1, <2>2, <2>3, <2>4 DEF OrderedAcrossSegments
  <2>5. CASE e.ver = pages + 1
    BY <1>1, <1>2, <2>2, <2>3, <2>5 DEF VersionsSoFar
  <2> QED
    BY <2>4, <2>5, WriterDocs
<1> QED
  BY <1>4, <1>5, <1>6, <1>7

\* What the indexer could read before the step it can read after it, and what
\* is newly handed over is there to read.
LEMMA WriterSpooled ==
    ASSUME TypeOK, TypeOK', WritesAtTheEnd, WriterShape
    PROVE  /\ Sealed \subseteq Sealed'
           /\ Spooled \subseteq Spooled'
           /\ handed' \ Spooled' \subseteq handed \ Spooled
<1>1. ASSUME NEW n \in Sealed PROVE n \in Sealed' /\ DocsIn(n)' = DocsIn(n)
  BY WriterFiles DEF Sealed, DocsIn
<1>2. Spooled \subseteq Spooled'
  BY <1>1 DEF Spooled
<1>3. ASSUME NEW d \in handed' \ handed PROVE d \in Spooled'
  <2>1. /\ segment # 0
        /\ spool'[segment].file = "sealed"
        /\ d \in Range(spool'[segment].docs)
    BY <1>3 DEF WriterShape
  <2>2. segment \in Sealed'
    BY <2>1 DEF Sealed, TypeOK, WriterTypeOK, Names
  <2> QED
    BY <2>1, <2>2 DEF Spooled, DocsIn
<1> QED
  BY <1>1, <1>2, <1>3

\* What it writes is newer than everything retired.
LEMMA WriterKeepsRetiredOlder ==
    ASSUME TypeOK, TypeOK', WritesAtTheEnd, VersionsSoFar, WriterShape,
           RetiredIsOlder
    PROVE  RetiredIsOlder'
<1>1. SUFFICES ASSUME NEW d \in handed' \ Spooled', NEW n \in Live',
                      NEW e \in Range(spool'[n].docs)
               PROVE  d.ver < e.ver
  BY DEF RetiredIsOlder, DocsIn
<1>2. d \in handed \ Spooled
  BY WriterSpooled
<1>3. n \in Existing'
  <2>1. CASE n \in Sealed'
    BY <2>1 DEF Sealed, Existing
  <2>2. CASE n = segment' /\ segment' # 0
    BY <2>2 DEF Existing, WriterShape, TypeOK, WriterTypeOK, Names
  <2> QED
    BY <2>1, <2>2 DEF Live
<1>4. n \in Existing /\ (e \in DocsIn(n) \/ e.ver = pages + 1)
  BY <1>3, WriterDocs
<1>5. n \in Live
  <2>1. CASE n \in Sealed'
    BY <2>1, <1>4, WriterFiles DEF Live, Existing, Names
  <2>2. CASE n = segment' /\ segment' # 0
    <3>1. segment' = segment
      <4>1. segment' # segment => n < n
        BY <1>4, <2>2 DEF WriterShape
      <4>2. n \in Nat
        BY <2>2 DEF TypeOK, WriterTypeOK
      <4> QED
        BY <4>1, <4>2
    <3> QED
      BY <2>2, <3>1 DEF Live
  <2> QED
    BY <2>1, <2>2 DEF Live
<1>6. CASE e \in DocsIn(n)
  BY <1>2, <1>5, <1>6 DEF RetiredIsOlder
<1>7. CASE e.ver = pages + 1
  <2>1. d.ver <= pages /\ d.ver \in Nat /\ pages \in Nat
    BY <1>2, SpoolAssumption
    DEF VersionsSoFar, TypeOK, WriterTypeOK, Version, Doc
  <2> QED
    BY <1>7, <2>1
<1> QED
  BY <1>4, <1>6, <1>7

\* It leaves the segments the indexer has listed alone.
LEMMA WriterKeepsDrain ==
    ASSUME TypeOK, TypeOK', WritesAtTheEnd, WriterShape, UNCHANGED onlyDrain,
           ListedIsOldest, StagedIsReading, ReadIsCovered, NothingHandedIsLost
    PROVE  /\ ListedIsOldest'
           /\ StagedIsReading'
           /\ ReadIsCovered'
           /\ NothingHandedIsLost'
<1>1. /\ pc' = pc /\ ready' = ready /\ current' = current /\ pos' = pos
      /\ staged' = staged /\ index' = index
      /\ Listed' = Listed /\ Reading' = Reading
  BY DEF onlyDrain, Listed, Reading
<1>2. pc \in {"read", "retire"} =>
         current \in Sealed /\ spool'[current] = spool[current]
  <2>1. pc \in {"read", "retire"} => current \in Sealed
    BY DEF ListedIsOldest, Listed, Reading
  <2> QED
    BY <2>1, WriterFiles
<1>3. ListedIsOldest'
  <2>1. Listed' \subseteq Sealed'
    BY <1>1, WriterSpooled DEF ListedIsOldest
  <2>2. ASSUME NEW n \in Listed', NEW m \in Sealed' \ Listed' PROVE n < m
    <3>1. n \in Listed /\ n \in Sealed
      BY <1>1 DEF ListedIsOldest
    <3>2. CASE m \in Sealed
      BY <1>1, <3>1, <3>2 DEF ListedIsOldest
    <3>3. CASE m \notin Sealed
      <4>1. m = segment /\ n # segment
        BY <3>1, <3>3, WriterFiles
      <4>2. n \in Nat /\ segment \in Nat /\ segment # 0 /\ n \in Existing
        BY <3>1, <4>1 DEF Sealed, Existing, Names
      <4>3. n <= segment
        BY <4>2 DEF WritesAtTheEnd
      <4> QED
        BY <4>1, <4>2, <4>3
    <3> QED
      BY <3>2, <3>3
  <2>3. \A c \in Reading', n \in ready' : c < n
    BY <1>1 DEF ListedIsOldest
  <2> QED
    BY <2>1, <2>2, <2>3 DEF ListedIsOldest
<1>4. StagedIsReading'
  BY <1>1, <1>2 DEF StagedIsReading, DocsIn
<1>5. ReadIsCovered'
  BY <1>1, <1>2 DEF ReadIsCovered, DocsIn, Committed
<1>6. NothingHandedIsLost'
  BY <1>1, WriterSpooled DEF NothingHandedIsLost
<1> QED
  BY <1>3, <1>4, <1>5, <1>6

\* A step of the crawler keeps the invariant.
LEMMA WriterStep ==
    ASSUME IInv, WriterNext, UNCHANGED onlyDrain
    PROVE  IInv'
<1>1. TypeOK'
  BY WriterTypeStep DEF IInv
<1>2. WriterShape
  BY WriterStepShape DEF IInv
<1> QED
  BY <1>1, <1>2, WriterKeepsOrder, WriterKeepsRetiredOlder, WriterKeepsDrain
  DEF IInv

-----------------------------------------------------------------------------
(* The invariant, for the steps of the indexer *)

\* Committing copies of spooled documents takes no retired document from view:
\* whatever they replace, they are newer.
LEMMA CommitKeepsRetired ==
    ASSUME TypeOK, RetiredIsOlder, NothingHandedIsLost,
           NEW s \in [Url -> Version],
           \A u \in Url : s[u] # 0 => \E e \in Spooled : e.url = u /\ e.ver = s[u],
           NEW d \in handed, d \notin Spooled
    PROVE  Committed(index, s)[d.url] >= d.ver
<1>1. /\ d.url \in Url /\ d.ver \in Nat
      /\ index[d.url] \in Nat /\ s[d.url] \in Nat
  BY SpoolAssumption DEF TypeOK, WriterTypeOK, DrainTypeOK, Doc, Version
<1>2. CASE s[d.url] = 0
  BY <1>1, <1>2 DEF Committed, NothingHandedIsLost
<1>3. CASE s[d.url] # 0
  <2>1. PICK e \in Spooled : e.ver = s[d.url]
    BY <1>1, <1>3
  <2>2. PICK n \in Sealed : e \in DocsIn(n)
    BY DEF Spooled
  <2>3. d.ver < e.ver
    BY <2>2 DEF RetiredIsOlder, Live
  <2> QED
    BY <1>1, <1>3, <2>1, <2>3 DEF Committed
<1> QED
  BY <1>2, <1>3

\* The segment being read or retired is sealed, and its frames are documents
\* that the indexer can still read.
LEMMA ReadingIsSealed ==
    ASSUME TypeOK, ListedIsOldest, pc \in {"read", "retire"}
    PROVE  /\ current \in Sealed
           /\ current \in Existing
           /\ spool[current].docs \in Seq(Doc)
           /\ \A i \in DOMAIN spool[current].docs :
                 /\ spool[current].docs[i] \in Doc
                 /\ spool[current].docs[i] \in DocsIn(current)
           /\ DocsIn(current) \subseteq Doc
           /\ DocsIn(current) \subseteq Spooled
<1>1. current \in Sealed
  BY DEF ListedIsOldest, Listed, Reading
<1>2. spool[current] \in Segment
  BY <1>1 DEF TypeOK, WriterTypeOK, SpoolTypeOK, Sealed
<1>3. spool[current].docs \in Seq(Doc)
  BY <1>2 DEF Segment
<1>4. \A i \in DOMAIN spool[current].docs : spool[current].docs[i] \in Doc
  BY <1>3
<1> QED
  BY <1>1, <1>3, <1>4 DEF DocsIn, Range, Spooled, Sealed, Existing

\* It is the oldest there is.
LEMMA CurrentIsOldest ==
    ASSUME TypeOK, ListedIsOldest, pc \in {"read", "retire"},
           NEW n \in Sealed, n # current
    PROVE  current < n
<1>1. current \in Reading /\ current \in Listed
  BY DEF Listed, Reading
<1>2. CASE n \in ready
  BY <1>1, <1>2 DEF ListedIsOldest
<1>3. CASE n \notin ready
  <2>1. n \notin Listed
    BY <1>3 DEF Listed, Reading
  <2> QED
    BY <1>1, <2>1 DEF ListedIsOldest
<1> QED
  BY <1>2, <1>3

\* What is staged is a copy of a document in the directory.
LEMMA StagedIsSpooled ==
    ASSUME TypeOK, ListedIsOldest, StagedIsReading
    PROVE  \A u \in Url :
              staged[u] # 0 => \E e \in Spooled : e.url = u /\ e.ver = staged[u]
BY ReadingIsSealed DEF StagedIsReading

\* When the process ends only the durable state is left.
LEMMA StoppedKeeps ==
    ASSUME Stopped, UNCHANGED << spool, handed, index >>, NothingHandedIsLost
    PROVE  /\ ListedIsOldest'
           /\ StagedIsReading'
           /\ ReadIsCovered'
           /\ NothingHandedIsLost'
<1>1. ListedIsOldest'
  BY DEF Stopped, ListedIsOldest, Listed, Reading
<1>2. StagedIsReading'
  BY DEF Stopped, StagedIsReading, NothingStaged
<1>3. ReadIsCovered'
  BY DEF Stopped, ReadIsCovered
<1>4. NothingHandedIsLost'
  BY DEF NothingHandedIsLost, Spooled, Sealed, DocsIn
<1> QED
  BY <1>1, <1>2, <1>3, <1>4

\* One frame: it is newer than those read before it, so what a commit would
\* publish covers them all, and a commit in the middle of the segment loses
\* nothing that was retired.
LEMMA IndexDocumentStep ==
    ASSUME IInv, IndexDocument, UNCHANGED onlyWriter
    PROVE  /\ ListedIsOldest'
           /\ StagedIsReading'
           /\ ReadIsCovered'
           /\ NothingHandedIsLost'
<1> DEFINE docs == spool[current].docs
           d    == docs[pos]
           s    == [staged EXCEPT ![d.url] = d.ver]
<1>1. /\ pc = "read" /\ pc' = "read"
      /\ pos \in DOMAIN docs
      /\ pos' = pos + 1
      /\ \/ /\ index' = Committed(index, s)
            /\ staged' = NothingStaged
         \/ /\ staged' = s
            /\ index' = index
      /\ spool' = spool /\ ready' = ready /\ current' = current
      /\ handed' = handed
  <2>1. docs \in Seq(Doc) /\ pos \in Nat \ {0}
    BY ReadingIsSealed DEF IInv, IndexDocument, TypeOK, DrainTypeOK
  <2> QED
    BY <2>1 DEF IndexDocument, onlyWriter
<1>2. /\ current \in Existing
      /\ d \in Doc /\ d \in DocsIn(current)
      /\ docs \in Seq(Doc)
      /\ \A i \in DOMAIN docs : docs[i] \in Doc
      /\ DocsIn(current) \subseteq Spooled
  BY <1>1, ReadingIsSealed DEF IInv
<1>3. /\ d.url \in Url /\ d.ver \in Nat \ {0}
      /\ staged \in [Url -> Version] /\ index \in [Url -> Version]
      /\ s \in [Url -> Version]
      /\ Version \subseteq Nat
  <2>1. d.url \in Url /\ d.ver \in Nat \ {0} /\ d.ver \in Version
    BY <1>2, SpoolAssumption DEF Doc, Version
  <2>2. staged \in [Url -> Version] /\ index \in [Url -> Version]
    BY DEF IInv, TypeOK, DrainTypeOK
  <2> HIDE DEF d
  <2>3. s \in [Url -> Version]
    BY <2>1, <2>2
  <2> QED
    BY <2>1, <2>2, <2>3, SpoolAssumption DEF Version
<1>4. ASSUME NEW u \in Url, s[u] # 0
      PROVE  \E e \in DocsIn(current) : e.url = u /\ e.ver = s[u]
  <2>1. CASE u = d.url
    BY <1>2, <1>3, <2>1
  <2>2. CASE u # d.url
    BY <1>3, <1>4, <2>2 DEF IInv, StagedIsReading
  <2> QED
    BY <2>1, <2>2
<1>5. ListedIsOldest'
  <2>1. Listed' = Listed /\ Reading' = Reading /\ Sealed' = Sealed
    BY <1>1 DEF Listed, Reading, Sealed
  <2> QED
    BY <1>1, <2>1 DEF IInv, ListedIsOldest
<1>6. StagedIsReading'
  <2>1. DocsIn(current)' = DocsIn(current)
    BY <1>1 DEF DocsIn
  <2>2. CASE staged' = NothingStaged
    BY <2>2 DEF StagedIsReading, NothingStaged
  <2>3. CASE staged' = s
    BY <1>1, <1>4, <2>1, <2>3 DEF StagedIsReading
  <2> QED
    BY <1>1, <2>2, <2>3
<1>7. \A u \in Url : Committed(index', staged')[u] = Committed(index, s)[u]
  BY <1>1, <1>3 DEF Committed, NothingStaged
<1>8. ASSUME NEW i \in DOMAIN docs, i < pos + 1
      PROVE  Committed(index, s)[docs[i].url] >= docs[i].ver
  <2>1. docs[i].url \in Url /\ docs[i].ver \in Nat
    BY <1>2 DEF Doc
  <2>2. CASE docs[i].url = d.url
    <3>1. Committed(index, s)[d.url] = d.ver
      BY <1>3 DEF Committed
    <3>2. i \in Nat /\ pos \in Nat /\ (i = pos \/ i < pos)
      BY <1>1, <1>2, <1>8
    <3>3. docs[i].ver <= d.ver
      BY <1>1, <1>2, <1>3, <2>1, <3>2 DEF IInv, OrderedInSegments
    <3> QED
      BY <1>3, <2>1, <2>2, <3>1, <3>3
  <2>3. CASE docs[i].url # d.url
    <3>1. Committed(index, s)[docs[i].url] = Committed(index, staged)[docs[i].url]
      BY <1>3, <2>1, <2>3 DEF Committed
    <3>2. i \in Nat /\ pos \in Nat /\ i # pos
      BY <1>1, <1>2, <2>3
    <3>3. i < pos
      BY <1>8, <3>2
    <3> QED
      BY <1>1, <3>1, <3>3 DEF IInv, ReadIsCovered
  <2> QED
    BY <2>2, <2>3
<1>9. ReadIsCovered'
  <2>1. \A i \in DOMAIN docs : docs[i].url \in Url
    BY <1>2 DEF Doc
  <2> QED
    BY <1>1, <1>7, <1>8, <2>1 DEF ReadIsCovered
<1>10. NothingHandedIsLost'
  <2>1. Spooled' = Spooled
    BY <1>1 DEF Spooled, Sealed, DocsIn
  <2>2. CASE index' = index
    BY <1>1, <2>1, <2>2 DEF IInv, NothingHandedIsLost
  <2>3. CASE index' = Committed(index, s)
    <3>1. \A u \in Url : s[u] # 0 => \E e \in Spooled : e.url = u /\ e.ver = s[u]
      BY <1>2, <1>4
    <3>2. \A x \in handed : x \notin Spooled => Committed(index, s)[x.url] >= x.ver
      <4> HIDE DEF s
      <4> QED
        BY <1>3, <3>1, CommitKeepsRetired DEF IInv
    <3> QED
      BY <1>1, <2>1, <2>3, <3>2 DEF NothingHandedIsLost
  <2> QED
    BY <1>1, <2>2, <2>3
<1> QED
  BY <1>5, <1>6, <1>9, <1>10

\* The end of a segment: what was staged is committed, and only then is the
\* segment ready to be retired.
LEMMA CommitSegmentStep ==
    ASSUME IInv, CommitSegment, UNCHANGED onlyWriter
    PROVE  /\ ListedIsOldest'
           /\ StagedIsReading'
           /\ ReadIsCovered'
           /\ NothingHandedIsLost'
<1>1. /\ pc = "read" /\ pc' = "retire"
      /\ pos > Len(spool[current].docs)
      /\ index' = Committed(index, staged)
      /\ staged' = NothingStaged
      /\ spool' = spool /\ ready' = ready /\ current' = current
      /\ handed' = handed
  BY DEF CommitSegment, AllFramesRead, onlyWriter
<1>2. /\ Spooled' = Spooled /\ Sealed' = Sealed
      /\ Listed' = Listed /\ Reading' = Reading
      /\ DocsIn(current)' = DocsIn(current)
  BY <1>1 DEF Spooled, Sealed, DocsIn, Listed, Reading
<1>3. ListedIsOldest'
  BY <1>1, <1>2 DEF IInv, ListedIsOldest
<1>4. StagedIsReading'
  BY <1>1 DEF StagedIsReading, NothingStaged
<1>5. ReadIsCovered'
  <2>1. ASSUME NEW d \in DocsIn(current)
        PROVE  Committed(index, staged)[d.url] >= d.ver
    <3>1. PICK i \in DOMAIN spool[current].docs : d = spool[current].docs[i]
      BY DEF DocsIn, Range
    <3>2. i < pos
      <4>1. spool[current].docs \in Seq(Doc) /\ pos \in Nat
        BY <1>1, ReadingIsSealed DEF IInv, TypeOK, DrainTypeOK
      <4> QED
        BY <1>1, <3>1, <4>1
    <3> QED
      BY <1>1, <3>1, <3>2 DEF IInv, ReadIsCovered
  <2> QED
    BY <1>1, <1>2, <2>1 DEF ReadIsCovered
<1>6. NothingHandedIsLost'
  <2>1. \A d \in handed : d \notin Spooled => Committed(index, staged)[d.url] >= d.ver
    <3>1. staged \in [Url -> Version]
      BY DEF IInv, TypeOK, DrainTypeOK
    <3>2. \A u \in Url :
             staged[u] # 0 => \E e \in Spooled : e.url = u /\ e.ver = staged[u]
      BY StagedIsSpooled DEF IInv
    <3> QED
      BY <3>1, <3>2, CommitKeepsRetired DEF IInv
  <2> QED
    BY <1>1, <1>2, <2>1 DEF NothingHandedIsLost
<1> QED
  BY <1>3, <1>4, <1>5, <1>6

\* The oldest segment leaves the directory, and every document of it shows.
LEMMA RetireStep ==
    ASSUME IInv, Retire, UNCHANGED onlyWriter
    PROVE  /\ WritesAtTheEnd'
           /\ VersionsSoFar'
           /\ OrderedInSegments'
           /\ OrderedAcrossSegments'
           /\ RetiredIsOlder'
           /\ ListedIsOldest'
           /\ StagedIsReading'
           /\ ReadIsCovered'
           /\ NothingHandedIsLost'
<1>1. /\ pc = "retire" /\ pc' = "record"
      /\ spool' = [spool EXCEPT ![current] = NoFile]
      /\ index' = index /\ staged' = staged /\ ready' = ready
      /\ segment' = segment /\ pages' = pages /\ handed' = handed
  BY DEF Retire, onlyWriter
<1>2. /\ current \in Sealed /\ current \in Existing
      /\ DocsIn(current) \subseteq Doc
  BY <1>1, ReadingIsSealed DEF IInv
<1>3. spool \in [Names -> Segment] /\ Existing \subseteq Names /\ Names \subseteq Nat
  BY DEF IInv, TypeOK, WriterTypeOK, SpoolTypeOK, Existing, Names
<1>4. /\ \A n \in Existing : n # current => spool'[n] = spool[n]
      /\ Existing' = Existing \ {current}
      /\ Sealed' = Sealed \ {current}
  BY <1>1, <1>2, <1>3 DEF Existing, Sealed, NoFile
<1>5. \A n \in Existing' : DocsIn(n)' = DocsIn(n) /\ spool'[n] = spool[n]
  BY <1>4 DEF DocsIn
<1>6. Sealed \subseteq Existing
  BY DEF Sealed, Existing
<1>7. WritesAtTheEnd'
  <2>1. segment # 0 => segment # current /\ segment \in Existing
    <3>1. segment # 0 => segment \in Names
      BY DEF IInv, TypeOK, WriterTypeOK, Names
    <3> QED
      BY <1>2, <3>1 DEF IInv, WritesAtTheEnd, Sealed, Existing
  <2> QED
    BY <1>1, <1>4, <2>1 DEF IInv, WritesAtTheEnd, onlyWriter
<1>8. VersionsSoFar'
  BY <1>1, <1>4, <1>5 DEF IInv, VersionsSoFar
<1>9. OrderedInSegments'
  BY <1>4, <1>5 DEF IInv, OrderedInSegments
<1>10. OrderedAcrossSegments'
  BY <1>4, <1>5 DEF IInv, OrderedAcrossSegments
<1>11. /\ Spooled \subseteq Spooled' \cup DocsIn(current)
       /\ Spooled' \subseteq Spooled
  BY <1>4, <1>5, <1>6 DEF Spooled
<1>12. \A n \in Sealed : n # current => current < n
  BY <1>1, CurrentIsOldest DEF IInv
<1>13. RetiredIsOlder'
  <2>1. SUFFICES ASSUME NEW d \in handed, d \notin Spooled',
                        NEW n \in Live', NEW e \in DocsIn(n)'
                 PROVE  d.ver < e.ver
    BY <1>1 DEF RetiredIsOlder
  <2>2. n \in Live /\ n \in Existing /\ n # current
    <3>1. CASE n \in Sealed'
      BY <1>4, <1>6, <3>1 DEF Live
    <3>2. CASE n = segment /\ segment # 0
      <4>1. segment \in Names
        BY <3>2 DEF IInv, TypeOK, WriterTypeOK, Names
      <4> QED
        BY <1>2, <3>2, <4>1 DEF IInv, WritesAtTheEnd, Live, Sealed, Existing
    <3> QED
      BY <1>1, <3>1, <3>2 DEF Live
  <2>3. e \in DocsIn(n)
    BY <1>4, <1>5, <2>2
  <2>4. CASE d \notin Spooled
    BY <2>2, <2>3, <2>4 DEF IInv, RetiredIsOlder
  <2>5. CASE d \in Spooled
    <3>1. d \in DocsIn(current)
      BY <1>11, <2>1, <2>5
    <3>2. current < n
      <4>1. CASE n \in Sealed
        BY <1>12, <2>2, <4>1
      <4>2. CASE n = segment /\ segment # 0
        BY <1>2, <1>3, <2>2, <4>2 DEF IInv, WritesAtTheEnd
      <4> QED
        BY <2>2, <4>1, <4>2 DEF Live
    <3> QED
      BY <1>2, <2>2, <2>3, <3>1, <3>2 DEF IInv, OrderedAcrossSegments
  <2> QED
    BY <2>4, <2>5
<1>14. ListedIsOldest'
  <2>1. Reading' = {} /\ Listed' = ready /\ ready' = ready
    BY <1>1 DEF Reading, Listed
  <2>2. current \notin ready /\ current \in Reading
    <3>1. current \in Reading
      BY <1>1 DEF Reading
    <3>2. current \in ready => current < current
      BY <3>1 DEF IInv, ListedIsOldest
    <3> QED
      BY <1>2, <1>3, <3>1, <3>2
  <2>3. Listed' \subseteq Sealed'
    BY <1>4, <2>1, <2>2 DEF IInv, ListedIsOldest, Listed
  <2>4. ASSUME NEW n \in Listed', NEW m \in Sealed' \ Listed' PROVE n < m
    <3>1. n \in Listed /\ m \in Sealed \ Listed
      BY <1>1, <1>4, <2>1, <2>4 DEF Listed, Reading
    <3> QED
      BY <3>1 DEF IInv, ListedIsOldest
  <2> QED
    BY <2>1, <2>3, <2>4 DEF ListedIsOldest
<1>15. StagedIsReading'
  BY <1>1 DEF IInv, StagedIsReading
<1>16. ReadIsCovered'
  BY <1>1 DEF ReadIsCovered
<1>17. NothingHandedIsLost'
  BY <1>1, <1>11 DEF IInv, NothingHandedIsLost, ReadIsCovered
<1> QED
  BY <1>7, <1>8, <1>9, <1>10, <1>13, <1>14, <1>15, <1>16, <1>17

\* The steps that read no frame and leave the directory and the index alone.
LEMMA QuietDrainStep ==
    ASSUME IInv, UNCHANGED onlyWriter,
           \/ StartDrain \/ ListReady \/ BuildAuthority \/ BeginSegment
           \/ RecordHistory \/ CrashDrain
    PROVE  /\ ListedIsOldest'
           /\ StagedIsReading'
           /\ ReadIsCovered'
           /\ NothingHandedIsLost'
<1>1. spool' = spool /\ index' = index /\ handed' = handed
  BY DEF StartDrain, ListReady, BuildAuthority, BeginSegment, RecordHistory,
         CrashDrain, onlyWriter
<1>2. Sealed' = Sealed /\ Spooled' = Spooled
  BY <1>1 DEF Sealed, Spooled, DocsIn
<1>3. NothingHandedIsLost'
  BY <1>1, <1>2 DEF IInv, NothingHandedIsLost
<1>4. Sealed \subseteq Nat /\ ready \subseteq Nat
  BY DEF Sealed, Names, IInv, TypeOK, DrainTypeOK
<1>5. CASE Stopped
  BY <1>1, <1>5, StoppedKeeps DEF IInv
<1>6. ASSUME pc # "read", staged' = staged PROVE StagedIsReading'
  BY <1>6 DEF IInv, StagedIsReading
<1>7. CASE StartDrain
  BY <1>1, <1>2, <1>3, <1>6, <1>7
  DEF StartDrain, IInv, ListedIsOldest, Listed, Reading, ReadIsCovered
<1>8. CASE ListReady /\ ~Stopped
  <2>1. /\ pc = "list" /\ pc' = "authority"
        /\ ready' = Sealed /\ staged' = staged
    BY <1>8 DEF ListReady
  <2>2. Reading' = {} /\ Listed' = Sealed
    BY <2>1 DEF Reading, Listed
  <2>3. ListedIsOldest'
    BY <1>2, <2>2 DEF ListedIsOldest
  <2> QED
    BY <1>3, <1>6, <2>1, <2>3 DEF ReadIsCovered
<1>9. CASE BuildAuthority /\ ~Stopped
  <2>1. /\ pc = "authority" /\ pc' = "next"
        /\ ready' = ready /\ staged' = staged
    BY <1>9 DEF BuildAuthority
  <2>2. Reading' = {} /\ Reading = {} /\ Listed' = Listed
    BY <2>1 DEF Reading, Listed
  <2>3. ListedIsOldest'
    BY <1>2, <2>2 DEF IInv, ListedIsOldest
  <2> QED
    BY <1>3, <1>6, <2>1, <2>3 DEF ReadIsCovered
<1>10. CASE BeginSegment /\ ready # {}
  <2>1. /\ pc = "next" /\ pc' = "read"
        /\ current' = FirstReady
        /\ ready' = ready \ {FirstReady}
        /\ pos' = 1 /\ staged' = staged
    BY <1>10 DEF BeginSegment
  <2>2. FirstReady \in ready /\ \A n \in ready : FirstReady <= n
    BY <1>4, <1>10, MinIsLeast DEF FirstReady
  <2>3. Reading' = {FirstReady} /\ Listed' = Listed /\ Listed = ready
    BY <2>1, <2>2 DEF Reading, Listed
  <2>4. \A c \in Reading', n \in ready' : c < n
    BY <1>4, <2>1, <2>2, <2>3
  <2>5. ListedIsOldest'
    BY <1>2, <2>3, <2>4 DEF IInv, ListedIsOldest
  <2>6. ReadIsCovered'
    <3>1. FirstReady \in Sealed
      BY <2>2, <2>3 DEF IInv, ListedIsOldest
    <3>2. \A i \in DOMAIN spool[FirstReady].docs : ~(i < 1)
      <4>1. spool[FirstReady].docs \in Seq(Doc)
        BY <3>1
        DEF Sealed, IInv, TypeOK, WriterTypeOK, SpoolTypeOK, Segment
      <4> QED
        BY <4>1
    <3> QED
      BY <1>1, <2>1, <3>2 DEF ReadIsCovered
  <2> QED
    BY <1>3, <1>6, <2>1, <2>5, <2>6
<1>11. CASE BeginSegment /\ ready = {}
  <2>1. pc = "next" /\ pc' = "list" /\ ready' = {} /\ staged' = staged
    BY <1>11 DEF BeginSegment
  <2>2. Reading' = {} /\ Listed' = {}
    BY <2>1 DEF Reading, Listed
  <2> QED
    BY <1>3, <1>6, <2>1, <2>2 DEF ListedIsOldest, ReadIsCovered
<1>12. CASE RecordHistory
  <2>1. pc = "record" /\ pc' = "next" /\ ready' = ready /\ staged' = staged
    BY <1>12 DEF RecordHistory
  <2>2. Reading' = {} /\ Reading = {} /\ Listed' = Listed
    BY <2>1 DEF Reading, Listed
  <2>3. ListedIsOldest'
    BY <1>2, <2>2 DEF IInv, ListedIsOldest
  <2> QED
    BY <1>3, <1>6, <2>1, <2>3 DEF ReadIsCovered
<1>13. CASE CrashDrain
  BY <1>5, <1>13 DEF CrashDrain
<1> QED
  BY <1>5, <1>7, <1>8, <1>9, <1>10, <1>11, <1>12, <1>13

\* The indexer changes nothing of the crawler's, and only retire the directory.
LEMMA SpoolUnchanged ==
    ASSUME IInv, UNCHANGED << spool, onlyWriter >>
    PROVE  /\ WritesAtTheEnd'
           /\ VersionsSoFar'
           /\ OrderedInSegments'
           /\ OrderedAcrossSegments'
           /\ RetiredIsOlder'
BY DEF onlyWriter, IInv, WritesAtTheEnd, VersionsSoFar, OrderedInSegments,
       OrderedAcrossSegments, RetiredIsOlder, Existing, Sealed, Spooled, Live,
       DocsIn

\* So does a step of the indexer.
LEMMA DrainNextStep ==
    ASSUME IInv, DrainNext, UNCHANGED onlyWriter
    PROVE  IInv'
<1>1. TypeOK'
  BY DrainTypeStep DEF IInv
<1>2. CASE Retire
  BY <1>1, <1>2, RetireStep DEF IInv
<1>3. CASE ~Retire
  <2>1. UNCHANGED spool
    BY <1>3 DEF DrainNext, DrainStep, StartDrain, ListReady, BuildAuthority,
                BeginSegment, IndexDocument, CommitSegment, RecordHistory,
                CrashDrain
  <2>2. /\ ListedIsOldest'
        /\ StagedIsReading'
        /\ ReadIsCovered'
        /\ NothingHandedIsLost'
    BY <1>3, QuietDrainStep, IndexDocumentStep, CommitSegmentStep
    DEF DrainNext, DrainStep
  <2> QED
    BY <1>1, <2>1, <2>2, SpoolUnchanged DEF IInv
<1> QED
  BY <1>2, <1>3

-----------------------------------------------------------------------------
(* The theorems *)

\* Nothing has been written, so nothing is out of place.
LEMMA InitIInv == Init => IInv
<1> SUFFICES ASSUME Init PROVE IInv
  OBVIOUS
<1>1. TypeOK
  BY InitTypeOK
<1>2. Existing = {} /\ Sealed = {} /\ Spooled = {}
  BY DEF Init, WriterInit, SpoolInit, Existing, Sealed, Spooled, NoFile
<1>3. segment = 0 /\ handed = {} /\ pc = "down" /\ ready = {}
      /\ staged = [u \in Url |-> 0]
  BY DEF Init, WriterInit, DrainInit
<1> QED
  BY <1>1, <1>2, <1>3
  DEF IInv, WritesAtTheEnd, VersionsSoFar, OrderedInSegments,
      OrderedAcrossSegments, RetiredIsOlder, ListedIsOldest, Listed, Reading,
      StagedIsReading, ReadIsCovered, NothingHandedIsLost

\* Every step of either process keeps the invariant.
LEMMA NextIInv == IInv /\ [Next]_vars => IInv'
<1> SUFFICES ASSUME IInv, [Next]_vars PROVE IInv'
  OBVIOUS
<1>1. CASE WriterNext /\ UNCHANGED onlyDrain
  BY <1>1, WriterStep
<1>2. CASE DrainNext /\ UNCHANGED onlyWriter
  BY <1>2, DrainNextStep
<1>3. CASE UNCHANGED vars
  <2>1. UNCHANGED << spool, onlyWriter, onlyDrain >>
    BY <1>3 DEF vars, onlyWriter, onlyDrain
  <2>2. TypeOK'
    BY <2>1 DEF IInv, TypeOK, WriterTypeOK, DrainTypeOK, SpoolTypeOK,
                onlyWriter, onlyDrain
  <2>3. /\ ListedIsOldest'
        /\ StagedIsReading'
        /\ ReadIsCovered'
        /\ NothingHandedIsLost'
    BY <2>1
    DEF IInv, ListedIsOldest, Listed, Reading, StagedIsReading, ReadIsCovered,
        NothingHandedIsLost, Sealed, Spooled, DocsIn, Committed, onlyWriter,
        onlyDrain
  <2> QED
    BY <2>1, <2>2, <2>3, SpoolUnchanged DEF IInv
<1> QED
  BY <1>1, <1>2, <1>3 DEF Next

\* The inductive invariant holds in every reachable state: whatever both
\* processes do, the directory stays in crawl order and the indexer works on
\* its oldest segments.
THEOREM SpecIInv == Spec => []IInv
<1> QED
  BY InitIInv, NextIInv, PTL DEF Spec

\* Every variable keeps its type: no step of either process leaves the values
\* the code can hold.
THEOREM SpecTypeOK == Spec => []TypeOK
<1>1. IInv => TypeOK
  BY DEF IInv
<1> QED
  BY <1>1, SpecIInv, PTL

\* drain.rs, "The ordering that must not be relaxed": whatever is killed or
\* fails, a document that was handed over is in the spool or shows in the index.
THEOREM SpecNothingHandedIsLost == Spec => []NothingHandedIsLost
<1>1. IInv => NothingHandedIsLost
  BY DEF IInv
<1> QED
  BY <1>1, SpecIInv, PTL

\* Segment numbers follow crawl order and the indexer drains oldest first:
\* what is left in the spool is newer than all that was retired.
THEOREM SpecSpoolInCrawlOrder == Spec => []SpoolInCrawlOrder
<1>1. IInv => SpoolInCrawlOrder
  <2> SUFFICES ASSUME IInv PROVE SpoolInCrawlOrder
    OBVIOUS
  <2>1. \A d \in handed \ Spooled, e \in Spooled : d.ver < e.ver
    BY DEF IInv, RetiredIsOlder, Live, Spooled
  <2> QED
    BY <2>1 DEF IInv, OrderedAcrossSegments, SpoolInCrawlOrder
<1> QED
  BY <1>1, SpecIInv, PTL

\* A sealed file is never written again and its name never given to another
\* while it is there: not by a restarted crawler, not by the indexer.
THEOREM SpecSealedFilesAreFinal == Spec => SealedFilesAreFinal
<1>1. IInv /\ IInv' /\ [Next]_vars
         => [\A n \in Sealed : spool'[n] \in {spool[n], NoFile}]_vars
  <2> SUFFICES ASSUME IInv, IInv', Next, NEW n \in Sealed
               PROVE  spool'[n] \in {spool[n], NoFile}
    OBVIOUS
  <2>1. CASE WriterNext
    BY <2>1, WriterStepShape, WriterFiles DEF IInv
  <2>2. CASE Retire
    BY <2>2 DEF Retire, IInv, TypeOK, WriterTypeOK, SpoolTypeOK, Sealed
  <2>3. CASE DrainNext /\ ~Retire
    BY <2>3 DEF DrainNext, DrainStep, StartDrain, ListReady, BuildAuthority,
                BeginSegment, IndexDocument, CommitSegment, RecordHistory,
                CrashDrain
  <2> QED
    BY <2>1, <2>2, <2>3 DEF Next
<1> QED
  BY <1>1, SpecIInv, PTL DEF Spec, SealedFilesAreFinal

-----------------------------------------------------------------------------
(* The spool implements the abstract queue *)

\* What the crawler has not handed over yet is newer than all it handed over.
LEMMA HandedIsOlder ==
    ASSUME IInv, segment # 0, NEW d \in handed, NEW e \in DocsIn(segment)
    PROVE  d.ver < e.ver
<1>1. segment \in Existing /\ segment \in Live
  BY DEF IInv, TypeOK, WriterTypeOK, WritesAtTheEnd, Existing, Names, Live
<1>2. CASE d \notin Spooled
  BY <1>1, <1>2 DEF IInv, RetiredIsOlder
<1>3. CASE d \in Spooled
  <2>1. PICK n \in Sealed : d \in DocsIn(n)
    BY <1>3 DEF Spooled
  <2>2. n \in Existing /\ n # segment /\ n \in Nat /\ segment \in Nat
    BY DEF Sealed, Existing, Names, IInv, WritesAtTheEnd, TypeOK, WriterTypeOK
  <2>3. n < segment
    BY <2>2 DEF IInv, WritesAtTheEnd
  <2> QED
    BY <1>1, <2>1, <2>2, <2>3 DEF IInv, OrderedAcrossSegments
<1> QED
  BY <1>2, <1>3

\* A step of the crawler hands over a batch newer than any before it, or none.
LEMMA WriterHands ==
    ASSUME IInv, IInv', WriterNext, UNCHANGED onlyDrain
    PROVE  Handoff!Hand
<1>1. WriterShape
  BY WriterStepShape DEF IInv
<1>2. index' = index
  BY DEF onlyDrain
<1>3. handed \subseteq handed'
  BY <1>1 DEF WriterShape
<1>4. ASSUME NEW e \in handed' \ handed, NEW d \in handed PROVE d.ver < e.ver
  <2>1. segment # 0 /\ e \in Range(spool'[segment].docs)
    BY <1>1, <1>4 DEF WriterShape
  <2>2. segment \in Existing'
    BY <1>1, <2>1, WriterFiles DEF IInv
  <2>3. e \in DocsIn(segment) \/ e.ver = pages + 1
    BY <1>1, <2>1, <2>2, WriterDocs DEF IInv
  <2>4. CASE e \in DocsIn(segment)
    BY <2>1, <2>4, HandedIsOlder
  <2>5. CASE e.ver = pages + 1
    <3>1. d.ver <= pages /\ d.ver \in Nat /\ pages \in Nat
      BY SpoolAssumption
      DEF IInv, VersionsSoFar, TypeOK, WriterTypeOK, Version, Doc
    <3> QED
      BY <2>5, <3>1
  <2> QED
    BY <2>3, <2>4, <2>5
<1>5. Spooled' = Spooled \cup (handed' \ handed)
  <2>1. Spooled \cup (handed' \ handed) \subseteq Spooled'
    BY <1>1, WriterSpooled DEF IInv
  <2>2. ASSUME NEW e \in Spooled', e \notin Spooled PROVE e \in handed' \ handed
    <3>1. PICK n \in Sealed' : e \in Range(spool'[n].docs)
      BY DEF Spooled, DocsIn
    <3>2. n \notin Sealed
      BY <1>1, <2>2, <3>1, WriterFiles DEF IInv, Spooled, DocsIn
    <3>3. n = segment /\ segment # 0 /\ spool'[segment].file = "sealed"
      BY <1>1, <3>2, WriterFiles DEF IInv, Sealed, Names
    <3>4. e \in handed'
      BY <1>1, <3>1, <3>3 DEF WriterShape
    <3>5. e \notin handed
      <4>1. segment \in Existing'
        BY <1>1, <3>3, WriterFiles DEF IInv
      <4>2. e \in DocsIn(segment) \/ e.ver = pages + 1
        BY <1>1, <3>1, <3>3, <4>1, WriterDocs DEF IInv
      <4>3. ASSUME e \in handed PROVE FALSE
        <5>1. e.ver <= pages /\ e.ver \in Nat /\ pages \in Nat
          BY <4>3, SpoolAssumption
          DEF IInv, VersionsSoFar, TypeOK, WriterTypeOK, Version, Doc
        <5>2. e \in DocsIn(segment) => e.ver < e.ver
          BY <3>3, <4>3, HandedIsOlder
        <5> QED
          BY <4>2, <5>1, <5>2
      <4> QED
        BY <4>3
    <3> QED
      BY <3>4, <3>5
  <2> QED
    BY <2>1, <2>2
<1> QED
  BY <1>2, <1>3, <1>4, <1>5 DEF Handoff!Hand

\* A commit shows copies that are still queued.
LEMMA CommitPublishes ==
    ASSUME IInv, NEW s \in [Url -> Version],
           \A u \in Url : s[u] # 0 => \E e \in Spooled : e.url = u /\ e.ver = s[u],
           index' = Committed(index, s), UNCHANGED << spool, handed >>
    PROVE  Handoff!Publish
<1>1. index \in [Url -> Version]
  BY DEF IInv, TypeOK, DrainTypeOK
<1>2. index' \in [Url -> 0 .. MaxPages]
  BY <1>1, CommittedType DEF Version
<1>3. Spooled' = Spooled
  BY DEF Spooled, Sealed, DocsIn
<1>4. Spooled \subseteq Doc
  <2>1. \A n \in Sealed : spool[n].docs \in Seq(Doc)
    BY DEF IInv, TypeOK, WriterTypeOK, SpoolTypeOK, Segment, Sealed
  <2> QED
    BY <2>1 DEF Spooled, DocsIn, Range
<1>5. ASSUME NEW u \in Url, index'[u] # index[u]
      PROVE  [url |-> u, ver |-> index'[u]] \in Spooled
  <2>1. s[u] # 0 /\ index'[u] = s[u]
    BY <1>5 DEF Committed
  <2>2. PICK e \in Spooled : e.url = u /\ e.ver = s[u]
    BY <2>1
  <2>3. e = [url |-> u, ver |-> index'[u]]
    BY <1>4, <2>1, <2>2 DEF Doc
  <2> QED
    BY <2>2, <2>3
<1> QED
  BY <1>2, <1>3, <1>5 DEF Handoff!Publish

\* Retiring acknowledges the oldest documents, all of which show.
LEMMA RetireAcknowledges ==
    ASSUME IInv, IInv', Retire, UNCHANGED onlyWriter
    PROVE  Handoff!Acknowledge
<1>1. /\ pc = "retire" /\ index' = index /\ handed' = handed
      /\ spool' = [spool EXCEPT ![current] = NoFile]
  BY DEF Retire, onlyWriter
<1>2. /\ current \in Sealed /\ current \in Existing
      /\ spool \in [Names -> Segment]
  BY <1>1, ReadingIsSealed DEF IInv, TypeOK, WriterTypeOK, SpoolTypeOK
<1>3. /\ Sealed' = Sealed \ {current}
      /\ \A n \in Sealed' : DocsIn(n)' = DocsIn(n) /\ n \in Existing
  BY <1>1, <1>2 DEF Sealed, Existing, DocsIn, NoFile
<1>4. Spooled' \subseteq Spooled
  BY <1>3 DEF Spooled
<1>5. ASSUME NEW d \in Spooled \ Spooled'
      PROVE  /\ index[d.url] >= d.ver
             /\ \A e \in Spooled' : e.ver > d.ver
  <2>1. d \in DocsIn(current)
    BY <1>3 DEF Spooled
  <2>2. index[d.url] >= d.ver
    BY <1>1, <2>1 DEF IInv, ReadIsCovered
  <2>3. ASSUME NEW n \in Sealed' PROVE current < n
    BY <1>1, <1>3, CurrentIsOldest DEF IInv
  <2>4. \A e \in Spooled' : d.ver < e.ver
    BY <1>2, <1>3, <2>1, <2>3 DEF IInv, OrderedAcrossSegments, Spooled
  <2>5. d.ver \in Nat /\ \A e \in Spooled' : e.ver \in Nat
    <3>1. \A n \in Sealed : spool[n].docs \in Seq(Doc)
      BY <1>2 DEF Segment, Sealed
    <3>2. Spooled \subseteq Doc
      BY <3>1 DEF Spooled, DocsIn, Range
    <3> QED
      BY <1>4, <3>2 DEF Doc
  <2> QED
    BY <2>2, <2>4, <2>5
<1> QED
  BY <1>1, <1>4, <1>5 DEF Handoff!Acknowledge

\* Every step of the two processes is a step of the queue or none.
LEMMA NextImplementsHandoff ==
    IInv /\ IInv' /\ [Next]_vars => [Handoff!Next]_Handoff!vars
<1> SUFFICES ASSUME IInv, IInv', [Next]_vars
             PROVE  [Handoff!Next]_Handoff!vars
  OBVIOUS
<1>1. CASE WriterNext /\ UNCHANGED onlyDrain
  BY <1>1, WriterHands DEF Handoff!Next
<1>2. CASE IndexDocument /\ UNCHANGED onlyWriter
  <2> DEFINE d == spool[current].docs[pos]
             s == [staged EXCEPT ![d.url] = d.ver]
  <2>1. /\ pc = "read"
        /\ pos \in DOMAIN spool[current].docs
        /\ UNCHANGED << spool, handed >>
        /\ index' = index \/ index' = Committed(index, s)
    <3>1. spool[current].docs \in Seq(Doc) /\ pos \in Nat \ {0}
      BY <1>2, ReadingIsSealed DEF IInv, IndexDocument, TypeOK, DrainTypeOK
    <3> QED
      BY <1>2, <3>1 DEF IndexDocument, onlyWriter
  <2>2. CASE index' = index
    BY <2>1, <2>2 DEF Handoff!vars, Spooled, Sealed, DocsIn
  <2>3. CASE index' = Committed(index, s)
    <3>1. d \in Doc /\ d \in Spooled
      BY <2>1, ReadingIsSealed DEF IInv
    <3>2. d.url \in Url /\ d.ver \in Version
      BY <3>1, SpoolAssumption DEF Doc, Version
    <3>3. staged \in [Url -> Version]
      BY DEF IInv, TypeOK, DrainTypeOK
    <3> HIDE DEF d
    <3>4. s \in [Url -> Version]
      BY <3>2, <3>3
    <3>5. \A u \in Url : s[u] # 0 => \E e \in Spooled : e.url = u /\ e.ver = s[u]
      BY <3>1, <3>2, <3>3, StagedIsSpooled DEF IInv
    <3> HIDE DEF s
    <3> QED
      BY <2>1, <2>3, <3>4, <3>5, CommitPublishes DEF Handoff!Next
  <2> QED
    BY <2>1, <2>2, <2>3
<1>3. CASE CommitSegment /\ UNCHANGED onlyWriter
  <2>1. index' = Committed(index, staged) /\ UNCHANGED << spool, handed >>
    BY <1>3 DEF CommitSegment, onlyWriter
  <2>2. staged \in [Url -> Version]
    BY DEF IInv, TypeOK, DrainTypeOK
  <2> QED
    BY <2>1, <2>2, StagedIsSpooled, CommitPublishes DEF IInv, Handoff!Next
<1>4. CASE Retire /\ UNCHANGED onlyWriter
  BY <1>4, RetireAcknowledges DEF Handoff!Next
<1>5. CASE UNCHANGED << spool, handed, index >>
  BY <1>5 DEF Handoff!vars, Spooled, Sealed, DocsIn
<1>6. CASE /\ UNCHANGED onlyWriter
           /\ \/ StartDrain \/ ListReady \/ BuildAuthority \/ BeginSegment
              \/ RecordHistory \/ CrashDrain
  <2>1. UNCHANGED << spool, handed, index >>
    BY <1>6 DEF StartDrain, ListReady, BuildAuthority, BeginSegment,
                RecordHistory, CrashDrain, onlyWriter
  <2> QED
    BY <1>5, <2>1
<1>7. CASE UNCHANGED vars
  <2>1. UNCHANGED << spool, handed, index >>
    BY <1>7 DEF vars
  <2> QED
    BY <1>5, <2>1
<1> QED
  BY <1>1, <1>2, <1>3, <1>4, <1>6, <1>7 DEF Next, DrainNext, DrainStep

\* The two processes over the directory are an at-least-once queue in crawl
\* order: whatever is killed or fails, a document leaves it only once it shows.
THEOREM SpecImplementsHandoff == Spec => ImplementsHandoff
<1>1. Init => Handoff!Init
  <2> SUFFICES ASSUME Init PROVE Handoff!Init
    OBVIOUS
  <2>1. Spooled = {}
    BY DEF Init, WriterInit, SpoolInit, Spooled, Sealed, NoFile
  <2> QED
    BY <2>1 DEF Init, WriterInit, DrainInit, Handoff!Init
<1> QED
  BY <1>1, SpecIInv, NextImplementsHandoff, PTL
  DEF Spec, ImplementsHandoff, Handoff!Spec

-----------------------------------------------------------------------------
(* The index when the spool is drained *)

\* The abstract queue never holds or shows a document nobody handed over.
LEMMA QueueMakesNothingUp ==
    ASSUME Handoff!NothingIsMadeUp, [Handoff!Next]_Handoff!vars
    PROVE  Handoff!NothingIsMadeUp'
<1>1. CASE Handoff!Hand
  BY <1>1 DEF Handoff!Hand, Handoff!NothingIsMadeUp
<1>2. CASE Handoff!Publish
  BY <1>2 DEF Handoff!Publish, Handoff!NothingIsMadeUp
<1>3. CASE Handoff!Acknowledge
  BY <1>3 DEF Handoff!Acknowledge, Handoff!NothingIsMadeUp
<1>4. CASE UNCHANGED Handoff!vars
  BY <1>4 DEF Handoff!vars, Handoff!NothingIsMadeUp
<1> QED
  BY <1>1, <1>2, <1>3, <1>4 DEF Handoff!Next

\* Neither does the spool: what is sealed or visible was handed over.
LEMMA SpecNothingIsMadeUp == Spec => []Handoff!NothingIsMadeUp
<1>1. Init => Handoff!NothingIsMadeUp
  <2> SUFFICES ASSUME Init PROVE Handoff!NothingIsMadeUp
    OBVIOUS
  <2>1. Spooled = {}
    BY DEF Init, WriterInit, SpoolInit, Spooled, Sealed, NoFile
  <2> QED
    BY <2>1 DEF Init, WriterInit, DrainInit, Handoff!NothingIsMadeUp
<1>2. Handoff!NothingIsMadeUp /\ IInv /\ IInv' /\ [Next]_vars
         => Handoff!NothingIsMadeUp'
  BY NextImplementsHandoff, QueueMakesNothingUp
<1> QED
  BY <1>1, <1>2, SpecIInv, PTL DEF Spec

\* With no sealed segment left, the index shows the newest copy handed over of
\* every URL, and nothing of a URL that was never handed over.
THEOREM SpecDrainedIndexIsCurrent == Spec => []DrainedIndexIsCurrent
<1>1. IInv /\ Handoff!NothingIsMadeUp => DrainedIndexIsCurrent
  <2> SUFFICES ASSUME IInv, Handoff!NothingIsMadeUp, Sealed = {}, NEW u \in Url
               PROVE  index[u] = Max({d.ver : d \in {e \in handed : e.url = u}}
                                         \cup {0})
    BY DEF DrainedIndexIsCurrent
  <2> DEFINE Copies == {d.ver : d \in {e \in handed : e.url = u}} \cup {0}
  <2>1. handed \subseteq Doc /\ index[u] \in 0 .. MaxPages /\ MaxPages \in Nat
    BY SpoolAssumption DEF IInv, TypeOK, WriterTypeOK, DrainTypeOK, Version
  <2>2. Copies \subseteq 0 .. MaxPages /\ Copies # {}
    BY <2>1 DEF Doc
  <2>3. Max(Copies) \in Copies /\ \A v \in Copies : v <= Max(Copies)
    BY <2>1, <2>2, MaxIsGreatest
  <2>4. index[u] \in Copies
    <3>1. CASE index[u] # 0
      <4> DEFINE e == [url |-> u, ver |-> index[u]]
      <4>1. e \in handed /\ e.url = u /\ e.ver = index[u]
        BY <3>1 DEF Handoff!NothingIsMadeUp
      <4> HIDE DEF e
      <4> QED
        BY <4>1
    <3> QED
      BY <3>1
  <2>5. Spooled = {}
    BY DEF Spooled
  <2>6. \A v \in Copies : index[u] >= v
    BY <2>1, <2>5 DEF IInv, NothingHandedIsLost
  <2>7. Max(Copies) \in 0 .. MaxPages
    BY <2>2, <2>3
  <2> HIDE DEF Copies
  <2>8. index[u] = Max(Copies)
    BY <2>1, <2>3, <2>4, <2>6, <2>7
  <2> QED
    BY <2>8 DEF Copies
<1> QED
  BY <1>1, SpecIInv, SpecNothingIsMadeUp, PTL

-----------------------------------------------------------------------------
(* The growth timeline *)

\* A commit only adds URLs to the index, so its size never shrinks.
LEMMA DocCountGrows ==
    ASSUME NEW i \in [Url -> Version], NEW s \in [Url -> Version]
    PROVE  DocCount(i) <= DocCount(Committed(i, s))
<1> DEFINE A == {u \in Url : i[u] # 0}
           B == {u \in Url : Committed(i, s)[u] # 0}
<1>1. A \subseteq B
  BY DEF Committed
<1>2. IsFiniteSet(B)
  BY SpoolAssumption, FS_Subset
<1> HIDE DEF A, B
<1>3. Cardinality(A) <= Cardinality(B)
  BY <1>1, <1>2, FS_Subset
<1> QED
  BY <1>3 DEF DocCount, A, B

\* What each step of the indexer does to the index.
LEMMA DrainIndexStep ==
    ASSUME IInv, DrainNext
    PROVE  \/ index' = index
           \/ /\ pc = "read"
              /\ \E s \in [Url -> Version] :
                    /\ index' = Committed(index, s)
                    /\ \A u \in Url : s[u] # 0 =>
                          \E d \in DocsIn(current) : d.url = u /\ d.ver = s[u]
<1>1. CASE IndexDocument
  <2> DEFINE d == spool[current].docs[pos]
             s == [staged EXCEPT ![d.url] = d.ver]
  <2>1. /\ pc = "read"
        /\ pos \in DOMAIN spool[current].docs
        /\ index' = index \/ index' = Committed(index, s)
    <3>1. spool[current].docs \in Seq(Doc) /\ pos \in Nat \ {0}
      BY <1>1, ReadingIsSealed DEF IInv, IndexDocument, TypeOK, DrainTypeOK
    <3> QED
      BY <1>1, <3>1 DEF IndexDocument
  <2>2. d \in Doc /\ d \in DocsIn(current)
    BY <2>1, ReadingIsSealed DEF IInv
  <2>3. d.url \in Url /\ d.ver \in Version
    BY <2>2, SpoolAssumption DEF Doc, Version
  <2>4. staged \in [Url -> Version]
    BY DEF IInv, TypeOK, DrainTypeOK
  <2>5. \A u \in Url : staged[u] # 0 =>
           \E e \in DocsIn(current) : e.url = u /\ e.ver = staged[u]
    BY DEF IInv, StagedIsReading
  <2> HIDE DEF d
  <2>6. s \in [Url -> Version]
    BY <2>3, <2>4
  <2>7. \A u \in Url : s[u] # 0 =>
           \E e \in DocsIn(current) : e.url = u /\ e.ver = s[u]
    BY <2>2, <2>3, <2>4, <2>5
  <2> HIDE DEF s
  <2> QED
    BY <2>1, <2>6, <2>7
<1>2. CASE CommitSegment
  <2>1. pc = "read" /\ index' = Committed(index, staged)
    BY <1>2 DEF CommitSegment
  <2>2. staged \in [Url -> Version]
    BY DEF IInv, TypeOK, DrainTypeOK
  <2>3. \A u \in Url : staged[u] # 0 =>
           \E e \in DocsIn(current) : e.url = u /\ e.ver = staged[u]
    BY DEF IInv, StagedIsReading
  <2> QED
    BY <2>1, <2>2, <2>3
<1>3. CASE ~IndexDocument /\ ~CommitSegment
  BY <1>3 DEF DrainNext, DrainStep, StartDrain, ListReady, BuildAuthority,
              BeginSegment, Retire, RecordHistory, CrashDrain
<1> QED
  BY <1>1, <1>2, <1>3

\* The totals are written after the commit they count, so they stay behind.
LEMMA TimelineStep ==
    ASSUME IInv, IInv', TimelineIsBehind, [Next]_vars
    PROVE  TimelineIsBehind'
<1>1. /\ index \in [Url -> Version] /\ index' \in [Url -> Version]
      /\ before \in Nat
      /\ history \in [gained : Nat, total : Nat]
  BY DEF IInv, TypeOK, DrainTypeOK
<1>2. DocCount(index) \in Nat /\ DocCount(index') \in Nat
  BY <1>1, DocCountType
<1>3. ASSUME DrainNext PROVE DocCount(index) <= DocCount(index')
  <2>1. CASE index' = index
    BY <1>2, <2>1
  <2>2. CASE \E s \in [Url -> Version] : index' = Committed(index, s)
    BY <1>1, <2>2, DocCountGrows
  <2> QED
    BY <1>3, <2>1, <2>2, DrainIndexStep
<1>4. history.gained \in Nat /\ history.total \in Nat
  BY <1>1
<1>5. TimelineIsBehind' <=>
         /\ history'.total <= DocCount(index')
         /\ IF pc' \in {"read", "retire", "record"}
            THEN history'.gained <= before' /\ before' <= DocCount(index')
            ELSE history'.gained <= DocCount(index')
  BY DEF TimelineIsBehind, DocCount
<1>6. CASE UNCHANGED << pc, before, index, history >>
  BY <1>5, <1>6 DEF TimelineIsBehind
<1>7. CASE BeginSegment /\ ready # {}
  <2>1. pc' = "read" /\ before' = DocCount(index) /\ index' = index
        /\ history' = history /\ pc = "next"
    BY <1>7 DEF BeginSegment
  <2> QED
    BY <1>2, <1>4, <1>5, <2>1 DEF TimelineIsBehind
<1>8. CASE RecordHistory
  <2>1. pc = "record" /\ pc' = "next" /\ index' = index
    BY <1>8 DEF RecordHistory
  <2>2. CASE history' = history
    BY <1>2, <1>4, <1>1, <1>5, <2>1, <2>2 DEF TimelineIsBehind
  <2>3. CASE /\ history'.gained = history.gained + Gained(DocCount(index))
             /\ history'.total = DocCount(index)
    BY <1>1, <1>2, <1>4, <1>5, <2>1, <2>3
    DEF TimelineIsBehind, Gained, SaturatingSub
  <2> QED
    BY <1>8, <2>2, <2>3 DEF RecordHistory
<1>9. CASE /\ IndexDocument \/ CommitSegment \/ Retire
  <2>1. /\ pc \in {"read", "retire"} /\ pc' \in {"read", "retire", "record"}
        /\ before' = before /\ history' = history
    BY <1>9 DEF IndexDocument, CommitSegment, Retire
  <2>2. DocCount(index) <= DocCount(index')
    BY <1>3, <1>9 DEF DrainNext, DrainStep
  <2> QED
    BY <1>1, <1>2, <1>4, <1>5, <2>1, <2>2 DEF TimelineIsBehind
<1>10. CASE /\ \/ StartDrain \/ ListReady \/ BuildAuthority \/ CrashDrain
               \/ BeginSegment /\ ready = {}
  <2>1. /\ pc' \notin {"read", "retire", "record"}
        /\ index' = index /\ history' = history
    BY <1>10 DEF StartDrain, ListReady, BuildAuthority, CrashDrain,
                 BeginSegment, Stopped
  <2>2. history.gained <= DocCount(index)
    BY <1>1, <1>2, <1>4 DEF TimelineIsBehind
  <2> QED
    BY <1>5, <2>1, <2>2 DEF TimelineIsBehind
<1> QED
  BY <1>6, <1>7, <1>8, <1>9, <1>10
  DEF Next, DrainNext, DrainStep, onlyDrain, vars

\* history.rs, "What a bucket counts": however often a segment is replayed and
\* whatever write fails, the timeline claims no more documents than there are.
THEOREM SpecTimelineNeverOvercounts == Spec => []TimelineNeverOvercounts
<1>1. Init => TimelineIsBehind
  <2> SUFFICES ASSUME Init PROVE TimelineIsBehind
    OBVIOUS
  <2>1. index \in [Url -> Version]
    BY InitTypeOK DEF TypeOK, DrainTypeOK
  <2>2. DocCount(index) \in Nat
    BY <2>1, DocCountType
  <2> QED
    BY <2>2 DEF Init, DrainInit, TimelineIsBehind
<1>2. TimelineIsBehind /\ IInv /\ IInv' /\ [Next]_vars => TimelineIsBehind'
  BY TimelineStep
<1>3. IInv /\ TimelineIsBehind => TimelineNeverOvercounts
  <2> SUFFICES ASSUME IInv, TimelineIsBehind PROVE TimelineNeverOvercounts
    OBVIOUS
  <2>1. index \in [Url -> Version] /\ before \in Nat
        /\ history \in [gained : Nat, total : Nat]
    BY DEF IInv, TypeOK, DrainTypeOK
  <2>2. DocCount(index) \in Nat
    BY <2>1, DocCountType
  <2> QED
    BY <2>1, <2>2 DEF TimelineIsBehind, TimelineNeverOvercounts
<1> QED
  BY <1>1, <1>2, <1>3, SpecIInv, PTL DEF Spec

-----------------------------------------------------------------------------
(* The link counts *)

\* The link counts are saved before the first document of their batch is committed.
LEMMA CountedStep ==
    ASSUME IInv, IInv', ListedIsCounted, [Next]_vars
    PROVE  ListedIsCounted'
<1> DEFINE Known == counted \cup missed
<1>1. SUFFICES /\ \A u \in Url : index'[u] # 0 => u \in Known'
               /\ pc' \in {"next", "read", "retire", "record"} =>
                     \A n \in Listed' : \A d \in Range(spool'[n].docs) :
                         d.url \in Known'
  BY DEF ListedIsCounted, CountedBeforeVisible, DocsIn
<1>2. /\ \A u \in Url : index[u] # 0 => u \in Known
      /\ pc \in {"next", "read", "retire", "record"} =>
            \A n \in Listed : \A d \in DocsIn(n) : d.url \in Known
  BY DEF ListedIsCounted, CountedBeforeVisible
<1>3. \A n \in Sealed : DocsIn(n) \subseteq Doc
  <2>1. \A n \in Sealed : spool[n].docs \in Seq(Doc)
    BY DEF IInv, TypeOK, WriterTypeOK, SpoolTypeOK, Segment, Sealed
  <2> QED
    BY <2>1 DEF DocsIn, Range
<1>4. Listed \subseteq Sealed /\ ready \subseteq Sealed
  BY DEF IInv, ListedIsOldest, Listed
<1>5. CASE WriterNext /\ UNCHANGED onlyDrain
  <2>1. \A n \in Sealed : spool'[n] = spool[n]
    BY <1>5, WriterStepShape, WriterFiles DEF IInv
  <2>2. Listed' = Listed
    BY <1>5 DEF Listed, Reading, onlyDrain
  <2>3. Known' = Known /\ index' = index /\ pc' = pc
    BY <1>5 DEF onlyDrain
  <2> HIDE DEF Known
  <2> QED
    BY <1>1, <1>2, <1>4, <2>1, <2>2, <2>3 DEF DocsIn
<1>6. CASE UNCHANGED vars
  <2>1. Known' = Known /\ index' = index /\ pc' = pc /\ Listed' = Listed
        /\ spool' = spool
    BY <1>6 DEF vars, Listed, Reading
  <2> HIDE DEF Known
  <2> QED
    BY <1>1, <1>2, <2>1 DEF DocsIn
<1>7. CASE BuildAuthority
  <2>1. CASE pc' = "down"
    <3>1. Known' = Known /\ index' = index
      BY <1>7, <2>1 DEF BuildAuthority
    <3> HIDE DEF Known
    <3> QED
      BY <1>1, <1>2, <2>1, <3>1
  <2>2. CASE pc' = "next"
    <3>1. UNCHANGED << spool, index, ready >>
      BY <1>7, <2>2 DEF BuildAuthority, Stopped
    <3>2. Known \cup ReadyUrls \subseteq Known'
      BY <1>7, <2>2 DEF BuildAuthority, Stopped
    <3>3. Listed' = ready
      BY <2>2, <3>1 DEF Listed, Reading
    <3>4. \A n \in ready : \A d \in DocsIn(n) : d.url \in ReadyUrls
      BY DEF ReadyUrls
    <3> HIDE DEF Known
    <3> QED
      BY <1>1, <1>2, <3>1, <3>2, <3>3, <3>4 DEF DocsIn
  <2> QED
    BY <1>7, <2>1, <2>2 DEF BuildAuthority, Stopped
<1>8. CASE DrainNext /\ ~BuildAuthority
  <2>1. counted' = counted /\ missed' = missed
    BY <1>8 DEF DrainNext, DrainStep, StartDrain, ListReady, BeginSegment,
                IndexDocument, CommitSegment, Retire, RecordHistory, CrashDrain
  <2>2. Known' = Known
    BY <2>1
  <2> HIDE DEF Known
  <2>3. ASSUME NEW u \in Url, index'[u] # 0 PROVE u \in Known
    <3>1. CASE index' = index
      BY <1>2, <2>3, <3>1
    <3>2. ASSUME pc = "read", NEW s \in [Url -> Version],
                 index' = Committed(index, s),
                 \A x \in Url : s[x] # 0 =>
                    \E d \in DocsIn(current) : d.url = x /\ d.ver = s[x]
          PROVE  u \in Known
      <4>1. CASE s[u] = 0
        BY <1>2, <2>3, <3>2, <4>1 DEF Committed
      <4>2. CASE s[u] # 0
        <5>1. PICK d \in DocsIn(current) : d.url = u
          BY <3>2, <4>2
        <5>2. current \in Listed
          BY <3>2 DEF Listed, Reading
        <5> QED
          BY <1>2, <3>2, <5>1, <5>2
      <4> QED
        BY <4>1, <4>2
    <3> QED
      BY <1>8, <3>1, <3>2, DrainIndexStep
  <2>4. ASSUME pc' \in {"next", "read", "retire", "record"}
        PROVE  /\ pc \in {"next", "read", "retire", "record"}
               /\ \A n \in Listed' : n \in Listed /\ spool'[n] = spool[n]
    <3>1. CASE Retire
      <4>1. /\ pc = "retire" /\ ready' = ready /\ Listed' = ready
            /\ spool' = [spool EXCEPT ![current] = NoFile]
        BY <3>1 DEF Retire, Listed, Reading
      <4>2. current \notin ready /\ ready \subseteq Names
            /\ spool \in [Names -> Segment]
        <5>1. \A n \in ready : current < n
          BY <4>1 DEF IInv, ListedIsOldest, Reading
        <5>2. /\ ready \subseteq Names /\ current \in 0 .. MaxSegments
              /\ spool \in [Names -> Segment]
          BY DEF IInv, TypeOK, WriterTypeOK, SpoolTypeOK, DrainTypeOK
        <5>3. ~(current < current)
          BY <5>2
        <5> QED
          BY <5>1, <5>2, <5>3
      <4> QED
        BY <4>1, <4>2 DEF Listed
    <3>2. CASE BeginSegment
      <4>1. CASE ready # {}
        <5>1. ready \subseteq Nat
          BY DEF IInv, TypeOK, DrainTypeOK, Names
        <5>2. FirstReady \in ready
          BY <4>1, <5>1, MinIsLeast DEF FirstReady
        <5>3. /\ pc = "next" /\ pc' = "read" /\ spool' = spool
              /\ ready' = ready \ {FirstReady} /\ current' = FirstReady
          BY <3>2, <4>1 DEF BeginSegment
        <5>4. Listed' = ready
          BY <5>2, <5>3 DEF Listed, Reading
        <5> QED
          BY <5>3, <5>4 DEF Listed
      <4>2. CASE ready = {}
        BY <2>4, <3>2, <4>2 DEF BeginSegment
      <4> QED
        BY <4>1, <4>2
    <3>3. CASE ~Retire /\ ~BeginSegment
      <4>1. /\ pc \in {"next", "read", "retire", "record"}
            /\ ready' = ready /\ spool' = spool
            /\ Reading' \subseteq Reading
        BY <1>8, <2>4, <3>3
        DEF DrainNext, DrainStep, StartDrain, ListReady, IndexDocument,
            CommitSegment, RecordHistory, CrashDrain, Stopped, Reading
      <4> QED
        BY <4>1 DEF Listed
    <3> QED
      BY <3>1, <3>2, <3>3
  <2> QED
    BY <1>1, <1>2, <2>2, <2>3, <2>4 DEF DocsIn
<1> QED
  BY <1>5, <1>6, <1>7, <1>8 DEF Next

\* drain.rs: the counts are saved before the first commit, so a document that
\* is visible has all its links counted, or a pass that held its URL logged that
\* links were lost: the graph was full, or the counts could not be saved.
THEOREM SpecCountedBeforeVisible == Spec => []CountedBeforeVisible
<1>1. Init => ListedIsCounted
  BY DEF Init, DrainInit, ListedIsCounted, CountedBeforeVisible
<1>2. ListedIsCounted /\ IInv /\ IInv' /\ [Next]_vars => ListedIsCounted'
  BY CountedStep
<1>3. ListedIsCounted => CountedBeforeVisible
  BY DEF ListedIsCounted
<1> QED
  BY <1>1, <1>2, <1>3, SpecIInv, PTL DEF Spec

-----------------------------------------------------------------------------
(* One commit for each segment *)

\* A segment is sealed before it holds more than its share of documents.
LEMMA SegmentsStaySmall ==
    ASSUME IInv, IInv', SegmentsAreSmall, [Next]_vars
    PROVE  SegmentsAreSmall'
<1> USE SpoolAssumption, WriterAssumption
<1>1. /\ spool \in [Names -> Segment] /\ spool' \in [Names -> Segment]
      /\ segment \in 0 .. MaxSegments /\ segment' \in 0 .. MaxSegments
      /\ SegmentDocs \in Nat \ {0}
  BY DEF IInv, TypeOK, WriterTypeOK, SpoolTypeOK
<1>2. \A n \in Names : Len(spool[n].docs) \in Nat /\ Len(spool'[n].docs) \in Nat
  BY <1>1 DEF Segment
<1>3. segment # 0 => segment \in Names
  BY <1>1 DEF Names
<1>4. Len(NewFile.docs) = 0 /\ Len(NoFile.docs) = 0 /\ NewFile \in Segment
  BY DEF NewFile, NoFile, Segment
<1>5. ASSUME NEW u \in Url, segment # 0, pages < MaxPages
      PROVE  LET s == WithFrame(NewDoc(u))
             IN  /\ s \in Segment
                 /\ Len(s.docs) = Len(spool[segment].docs) + 1
                 /\ Len(SealedFile(s).docs) = Len(s.docs)
                 /\ Len(s.docs) <= SegmentDocs
  <2> DEFINE s == WithFrame(NewDoc(u))
  <2>1. /\ s \in Segment
        /\ s.docs = Append(spool[segment].docs, NewDoc(u))
        /\ NewDoc(u) \in Doc
    BY <1>5, WithFrameType DEF IInv
  <2>2. spool[segment].docs \in Seq(Doc)
    BY <1>1, <1>3, <1>5 DEF Segment
  <2>3. Len(s.docs) = Len(spool[segment].docs) + 1
    BY <2>1, <2>2
  <2>4. SealedFile(s).docs = s.docs
    BY <2>1, SealedFileType
  <2>5. Len(spool[segment].docs) < SegmentDocs
    BY <1>5 DEF SegmentsAreSmall
  <2> QED
    BY <1>2, <1>3, <1>5, <2>1, <2>3, <2>4, <2>5
<1>6. segment # 0 => SealedFile(spool[segment]).docs = spool[segment].docs
  BY <1>1, <1>3, SealedFileType
<1>7. CASE UNCHANGED << spool, segment >>
  BY <1>7 DEF SegmentsAreSmall
<1>8. CASE OpenSegment
  BY <1>1, <1>4, <1>8
  DEF OpenSegment, WritesAtTheEnd, IInv, TypeOK, WriterTypeOK, SegmentsAreSmall
<1>16. CASE StartCrawl \/ OpenSegmentFails
  BY <1>7, <1>16 DEF StartCrawl, OpenSegmentFails
<1>9. ASSUME NEW u \in Url, WritePage(u) PROVE SegmentsAreSmall'
  <2> DEFINE s == WithFrame(NewDoc(u))
  <2>1. segment # 0 /\ pages < MaxPages
    BY <1>9 DEF WritePage
  <2>2. /\ s \in Segment
        /\ Len(SealedFile(s).docs) = Len(s.docs)
        /\ Len(s.docs) <= SegmentDocs /\ Len(s.docs) \in Nat
    BY <1>5, <1>2, <1>3, <2>1
  <2>3. CASE Len(s.docs) >= SegmentDocs
    <3>1. /\ spool' = [spool EXCEPT ![segment] = SealedFile(s),
                                    ![segment + 1] = NewFile]
          /\ segment' = segment + 1 /\ segment + 1 \in Names
      BY <1>9, <2>3 DEF WritePage
    <3> HIDE DEF s
    <3>2. /\ spool'[segment] = SealedFile(s)
          /\ spool'[segment + 1] = NewFile
          /\ \A n \in Names : n \notin {segment, segment + 1} => spool'[n] = spool[n]
      BY <1>1, <1>3, <2>1, <3>1
    <3> QED
      BY <1>1, <1>4, <2>2, <3>1, <3>2 DEF SegmentsAreSmall
  <2>4. CASE ~(Len(s.docs) >= SegmentDocs)
    <3>1. spool' = [spool EXCEPT ![segment] = s] /\ segment' = segment
      BY <1>9, <2>4 DEF WritePage
    <3> HIDE DEF s
    <3>2. /\ spool'[segment] = s
          /\ \A n \in Names : n # segment => spool'[n] = spool[n]
      BY <1>1, <1>3, <2>1, <3>1
    <3> QED
      BY <1>1, <2>2, <2>4, <3>1, <3>2 DEF SegmentsAreSmall
  <2> QED
    BY <2>3, <2>4
<1>10. ASSUME NEW u \in Url, OpenNextFails(u) PROVE SegmentsAreSmall'
  <2> DEFINE s == WithFrame(NewDoc(u))
  <2>1. /\ segment # 0 /\ pages < MaxPages /\ segment' = 0
        /\ spool' = [spool EXCEPT ![segment] = SealedFile(s)]
    BY <1>10 DEF OpenNextFails
  <2>2. /\ Len(SealedFile(s).docs) = Len(s.docs)
        /\ Len(s.docs) <= SegmentDocs
    BY <1>5, <2>1
  <2> HIDE DEF s
  <2>3. /\ spool'[segment] = SealedFile(s)
        /\ \A n \in Names : n # segment => spool'[n] = spool[n]
    BY <1>1, <1>3, <2>1
  <2> QED
    BY <2>1, <2>2, <2>3 DEF SegmentsAreSmall
<1>11. CASE segment # 0 /\ segment' = 0 /\
            \E f \in Segment : /\ spool' = [spool EXCEPT ![segment] = f]
                               /\ f.docs = spool[segment].docs
  BY <1>1, <1>3, <1>11 DEF SegmentsAreSmall
<1>12. CASE SealArchive \/ WriteFails
  <2>1. segment # 0 /\ segment' = 0
    BY <1>12 DEF SealArchive, WriteFails
  <2>2. /\ SealedFile(spool[segment]) \in Segment
        /\ \A p \in BOOLEAN :
              /\ [SealedFile(spool[segment]) EXCEPT !.torn = p] \in Segment
              /\ [SealedFile(spool[segment]) EXCEPT !.torn = p].docs
                    = spool[segment].docs
    <3> DEFINE f == SealedFile(spool[segment])
    <3>1. f \in Segment /\ f.docs = spool[segment].docs
      BY <1>1, <1>3, <1>6, <2>1, SealedFileType
    <3> HIDE DEF f
    <3>2. \A p \in BOOLEAN : /\ [f EXCEPT !.torn = p] \in Segment
                             /\ [f EXCEPT !.torn = p].docs = f.docs
      BY <3>1 DEF Segment
    <3> QED
      BY <3>1, <3>2 DEF f
  <2>3. CASE spool' = spool
    BY <2>1, <2>3 DEF SegmentsAreSmall
  <2>4. CASE \E f \in Segment : /\ spool' = [spool EXCEPT ![segment] = f]
                                /\ f.docs = spool[segment].docs
    BY <1>11, <2>1, <2>4
  <2> QED
    BY <1>6, <1>12, <2>1, <2>2, <2>3, <2>4 DEF SealArchive, WriteFails
<1>13. CASE KillCrawler
  BY <1>13 DEF KillCrawler, SegmentsAreSmall
<1>14. CASE Retire /\ UNCHANGED onlyWriter
  BY <1>1, <1>4, <1>14 DEF Retire, onlyWriter, SegmentsAreSmall, IInv,
     WritesAtTheEnd, ListedIsOldest, Listed, Reading, Sealed
<1>15. CASE DrainNext /\ ~Retire /\ UNCHANGED onlyWriter
  BY <1>7, <1>15 DEF DrainNext, DrainStep, StartDrain, ListReady, BuildAuthority,
     BeginSegment, IndexDocument, CommitSegment, RecordHistory, CrashDrain,
     onlyWriter
<1> QED
  BY <1>7, <1>8, <1>9, <1>10, <1>12, <1>13, <1>14, <1>15, <1>16
  DEF Next, WriterNext, vars

\* With the frame at pos, what is staged covers every frame up to it.
LEMMA StagedCoversRead ==
    ASSUME IInv, SegmentsAreSmall, StagedUntilTheEnd, pc = "read",
           pos \in DOMAIN spool[current].docs
    PROVE  LET d == spool[current].docs[pos]
               s == [staged EXCEPT ![d.url] = d.ver]
           IN  /\ pending = pos - 1
               /\ pos <= SegmentDocs
               /\ \A i \in DOMAIN spool[current].docs :
                     i < pos + 1 => s[spool[current].docs[i].url]
                                       >= spool[current].docs[i].ver
<1> DEFINE docs == spool[current].docs
           d    == docs[pos]
           s    == [staged EXCEPT ![d.url] = d.ver]
<1>1. /\ current \in Names /\ current \in Existing
      /\ docs \in Seq(Doc)
      /\ \A i \in DOMAIN docs : docs[i] \in Doc
  BY ReadingIsSealed DEF IInv, Existing
<1>2. pos <= Len(docs) /\ pos \in Nat
  BY <1>1
<1>3. /\ pending = pos - 1
      /\ \A i \in DOMAIN docs : i < pos => staged[docs[i].url] >= docs[i].ver
  BY <1>1, <1>2 DEF StagedUntilTheEnd
<1>4. Len(docs) <= SegmentDocs
  BY <1>1 DEF SegmentsAreSmall
<1>5. \A i \in DOMAIN docs : i < pos => docs[i].ver < d.ver
  BY <1>1 DEF IInv, OrderedInSegments
<1>6. staged \in [Url -> Version] /\ d.url \in Url
  BY <1>1 DEF IInv, TypeOK, DrainTypeOK, Doc
<1>7. \A i \in DOMAIN docs : docs[i].url \in Url /\ docs[i].ver \in Nat
  BY <1>1 DEF Doc
<1>8. ASSUME NEW i \in DOMAIN docs, i < pos + 1
      PROVE  s[docs[i].url] >= docs[i].ver
  <2>1. i \in Nat
    BY <1>1
  <2>2. CASE i = pos
    BY <1>6, <1>7, <2>2
  <2>3. CASE i < pos
    <3>1. docs[i].ver < d.ver /\ staged[docs[i].url] >= docs[i].ver
      BY <1>3, <1>5, <2>3
    <3>2. docs[i].ver \in Nat /\ d.ver \in Nat /\ docs[i].url \in Url
      BY <1>7
    <3>3. s[docs[i].url] = IF docs[i].url = d.url THEN d.ver ELSE staged[docs[i].url]
      BY <1>6, <3>2
    <3> QED
      BY <3>1, <3>2, <3>3
  <2> QED
    BY <1>2, <1>8, <2>1, <2>2, <2>3
<1> QED
  BY <1>1, <1>2, <1>3, <1>4, <1>8, WriterAssumption

\* With one commit per segment, what is staged waits for the end of its segment.
LEMMA StagedStep ==
    ASSUME SegmentDocs <= CommitDocs, IInv, IInv', SegmentsAreSmall,
           StagedUntilTheEnd, [Next]_vars
    PROVE  StagedUntilTheEnd'
<1> USE WriterAssumption, DrainAssumption
<1>1. CASE WriterNext /\ UNCHANGED onlyDrain
  <2>1. \A n \in Sealed : spool'[n] = spool[n]
    BY <1>1, WriterStepShape, WriterFiles DEF IInv
  <2>2. pc = "read" => spool'[current] = spool[current]
    BY <2>1, ReadingIsSealed DEF IInv
  <2> QED
    BY <1>1, <2>2 DEF onlyDrain, StagedUntilTheEnd
<1>2. CASE UNCHANGED vars
  BY <1>2 DEF vars, StagedUntilTheEnd
<1>3. CASE IndexDocument
  <2> DEFINE docs == spool[current].docs
             d    == docs[pos]
             s    == [staged EXCEPT ![d.url] = d.ver]
  <2>1. /\ pc = "read" /\ pc' = "read" /\ pos' = pos + 1
        /\ pos \in DOMAIN docs /\ docs \in Seq(Doc)
        /\ spool' = spool /\ current' = current
    <3>1. docs \in Seq(Doc) /\ pos \in Nat \ {0}
      BY <1>3, ReadingIsSealed DEF IInv, IndexDocument, TypeOK, DrainTypeOK
    <3> QED
      BY <1>3, <3>1 DEF IndexDocument
  <2>2. /\ pending = pos - 1
        /\ pos <= SegmentDocs /\ pos \in Nat /\ pos <= Len(docs)
        /\ Len(docs) <= SegmentDocs
        /\ \A i \in DOMAIN docs : i < pos + 1 => s[docs[i].url] >= docs[i].ver
    BY <2>1, StagedCoversRead, ReadingIsSealed
    DEF SegmentsAreSmall, IInv, Sealed
  <2>3. CASE pending + 1 >= CommitDocs
    <3>1. staged' = NothingStaged
      BY <1>3, <2>3 DEF IndexDocument
    <3>2. pos' > Len(docs)
      BY <2>1, <2>2, <2>3
    <3> QED
      BY <2>1, <3>1, <3>2 DEF StagedUntilTheEnd, NothingStaged
  <2>4. CASE ~(pending + 1 >= CommitDocs)
    <3>1. staged' = s /\ pending' = pending + 1
      BY <1>3, <2>4 DEF IndexDocument
    <3>2. pending' = pos' - 1
      BY <2>1, <2>2, <3>1
    <3> HIDE DEF s
    <3> QED
      BY <2>1, <2>2, <3>1, <3>2 DEF StagedUntilTheEnd
  <2> QED
    BY <2>3, <2>4
<1>4. CASE BeginSegment /\ ready # {}
  <2>1. /\ pc = "next" /\ pc' = "read" /\ pos' = 1 /\ pending' = pending
        /\ spool' = spool
    BY <1>4 DEF BeginSegment
  <2>2. pending' = pos' - 1
    BY <2>1 DEF StagedUntilTheEnd
  <2>3. current' \in Sealed' /\ spool'[current'].docs \in Seq(Doc)
    BY <2>1 DEF IInv, ListedIsOldest, Listed, Reading, TypeOK, WriterTypeOK,
                SpoolTypeOK, Segment, Sealed
  <2>4. \A i \in DOMAIN spool'[current'].docs : ~(i < pos')
    BY <2>1, <2>3
  <2> QED
    BY <2>1, <2>2, <2>4 DEF StagedUntilTheEnd
<1>5. CASE /\ UNCHANGED onlyWriter
           /\ \/ CommitSegment \/ Retire \/ RecordHistory \/ CrashDrain
              \/ StartDrain \/ ListReady \/ BuildAuthority
              \/ BeginSegment /\ ready = {}
  <2>1. pc' # "read" /\ pending' = 0
    BY <1>5 DEF CommitSegment, Retire, RecordHistory, CrashDrain, StartDrain,
                ListReady, BuildAuthority, BeginSegment, Stopped,
                StagedUntilTheEnd
  <2> QED
    BY <2>1 DEF StagedUntilTheEnd
<1> QED
  BY <1>1, <1>2, <1>3, <1>4, <1>5 DEF Next, DrainNext, DrainStep

\* What is sealed and was not is newer than what the index shows; a commit
\* shows the newest copy of the segment being read.
LEMMA NotAheadStep ==
    ASSUME IInv, IInv', Handoff!NothingIsMadeUp, IndexIsNotAhead, [Next]_vars
    PROVE  IndexIsNotAhead'
<1>1. SUFFICES ASSUME NEW n \in Sealed', NEW d \in Range(spool'[n].docs)
               PROVE  \E e \in Range(spool'[n].docs) :
                          e.url = d.url /\ e.ver >= index'[d.url]
  BY DEF IndexIsNotAhead, DocsIn
<1>2. /\ index \in [Url -> Version] /\ index' \in [Url -> Version]
      /\ Version \subseteq Nat
  BY SpoolAssumption DEF IInv, TypeOK, DrainTypeOK, Version
<1>3. d \in Doc /\ d.url \in Url /\ d.ver \in Nat
  <2>1. spool'[n].docs \in Seq(Doc)
    BY DEF IInv, TypeOK, WriterTypeOK, SpoolTypeOK, Segment, Sealed
  <2>2. d \in Doc
    BY <2>1 DEF Range
  <2> QED
    BY <2>2 DEF Doc
<1>4. CASE n \in Sealed /\ spool'[n] = spool[n] /\ index' = index
  BY <1>4 DEF IndexIsNotAhead, DocsIn
<1>5. CASE WriterNext /\ UNCHANGED onlyDrain
  <2>1. CASE n \in Sealed
    BY <1>4, <1>5, <2>1, WriterStepShape, WriterFiles DEF IInv, onlyDrain
  <2>2. CASE n \notin Sealed
    <3>1. WriterShape
      BY <1>5, WriterStepShape DEF IInv
    <3>2. n = segment /\ segment # 0 /\ n \in Existing'
      BY <2>2, <3>1, WriterFiles DEF IInv, Sealed, Existing, Names
    <3>3. d \in DocsIn(segment) \/ d.ver = pages + 1
      BY <3>1, <3>2, WriterDocs DEF IInv
    <3>4. index' = index
      BY <1>5 DEF onlyDrain
    <3>5. CASE index[d.url] = 0
      BY <1>3, <3>4, <3>5
    <3>6. CASE index[d.url] # 0
      <4> DEFINE h == [url |-> d.url, ver |-> index[d.url]]
      <4>1. h \in handed /\ h.ver = index[d.url]
        BY <1>3, <3>6 DEF Handoff!NothingIsMadeUp
      <4>2. h.ver <= pages /\ pages \in Nat /\ h.ver \in Nat
        BY <1>2, <1>3, <4>1, SpoolAssumption
        DEF IInv, VersionsSoFar, TypeOK, WriterTypeOK, Version
      <4>3. d \in DocsIn(segment) => h.ver < d.ver
        BY <3>2, <4>1, HandedIsOlder
      <4> HIDE DEF h
      <4>4. index[d.url] <= d.ver
        BY <1>3, <3>3, <4>1, <4>2, <4>3
      <4> QED
        BY <1>3, <1>2, <3>4, <4>4
    <3> QED
      BY <3>5, <3>6
  <2> QED
    BY <2>1, <2>2
<1>6. CASE UNCHANGED vars
  BY <1>4, <1>6 DEF vars, Sealed
<1>7. CASE Retire /\ UNCHANGED onlyWriter
  <2>1. /\ spool' = [spool EXCEPT ![current] = NoFile] /\ index' = index
        /\ spool \in [Names -> Segment] /\ n \in Names
    BY <1>7 DEF Retire, IInv, TypeOK, WriterTypeOK, SpoolTypeOK, Sealed
  <2>2. n \in Sealed /\ spool'[n] = spool[n]
    BY <2>1 DEF Sealed, NoFile
  <2> QED
    BY <1>4, <2>1, <2>2
<1>8. CASE DrainNext /\ ~Retire /\ UNCHANGED onlyWriter
  <2>1. spool' = spool /\ n \in Sealed
    BY <1>8 DEF DrainNext, DrainStep, StartDrain, ListReady, BuildAuthority,
       BeginSegment, IndexDocument, CommitSegment, RecordHistory, CrashDrain,
       Sealed
  <2>2. ASSUME pc = "read", NEW s \in [Url -> Version],
               index' = Committed(index, s),
               \A x \in Url : s[x] # 0 =>
                  \E e \in DocsIn(current) : e.url = x /\ e.ver = s[x]
        PROVE  \E e \in Range(spool'[n].docs) :
                   e.url = d.url /\ e.ver >= index'[d.url]
    <3>1. CASE s[d.url] = 0
      <4>1. index'[d.url] = index[d.url]
        BY <1>3, <2>2, <3>1 DEF Committed
      <4> QED
        BY <2>1, <4>1 DEF IndexIsNotAhead, DocsIn
    <3>2. CASE s[d.url] # 0
      <4>1. index'[d.url] = s[d.url]
        BY <1>3, <2>2, <3>2 DEF Committed
      <4>2. PICK e \in DocsIn(current) : e.url = d.url /\ e.ver = s[d.url]
        BY <1>3, <2>2, <3>2
      <4>0. index'[d.url] \in Nat /\ e.ver = index'[d.url]
        BY <1>2, <1>3, <4>1, <4>2
      <4>3. CASE n = current
        <5>1. e \in Range(spool'[n].docs) /\ e.ver >= index'[d.url]
          BY <2>1, <4>0, <4>2, <4>3 DEF DocsIn
        <5> QED
          BY <4>2, <5>1
      <4>4. CASE n # current
        <5>1. current < n
          BY <2>1, <2>2, <4>4, CurrentIsOldest DEF IInv
        <5>2. current \in Existing /\ n \in Existing
          BY <2>1, <2>2, ReadingIsSealed DEF IInv, Sealed, Existing
        <5>3. e.ver < d.ver
          BY <2>1, <4>2, <5>1, <5>2 DEF IInv, OrderedAcrossSegments, DocsIn
        <5>4. index'[d.url] <= d.ver
          BY <1>3, <4>0, <5>3
        <5> QED
          BY <1>2, <1>3, <5>4
      <4> QED
        BY <4>3, <4>4
    <3> QED
      BY <3>1, <3>2
  <2>3. CASE index' = index
    BY <1>4, <2>1, <2>3
  <2> QED
    BY <1>8, <2>2, <2>3, DrainIndexStep
<1> QED
  BY <1>5, <1>6, <1>7, <1>8 DEF Next

\* The documents staged for a commit are the newest of the segment, which is
\* not behind the index.
LEMMA CommitNeverRegresses ==
    ASSUME IInv, IndexIsNotAhead, pc = "read", NEW s \in [Url -> Version],
           \/ s = NothingStaged
           \/ \A i \in DOMAIN spool[current].docs :
                 s[spool[current].docs[i].url] >= spool[current].docs[i].ver,
           \A u \in Url : s[u] # 0 =>
              \E e \in DocsIn(current) : e.url = u /\ e.ver = s[u],
           NEW u \in Url
    PROVE  Committed(index, s)[u] >= index[u]
<1>1. /\ current \in Sealed /\ spool[current].docs \in Seq(Doc)
      /\ DocsIn(current) \subseteq Doc
  BY ReadingIsSealed DEF IInv
<1>2. index[u] \in Nat /\ s[u] \in Nat
  BY SpoolAssumption DEF IInv, TypeOK, DrainTypeOK, Version
<1>3. CASE s[u] = 0
  BY <1>2, <1>3 DEF Committed
<1>4. CASE s[u] # 0
  <2>1. PICK d \in DocsIn(current) : d.url = u
    BY <1>4
  <2>2. PICK e \in DocsIn(current) : e.url = u /\ e.ver >= index[u]
    BY <1>1, <2>1 DEF IndexIsNotAhead
  <2>3. PICK i \in DOMAIN spool[current].docs : spool[current].docs[i] = e
    BY <2>2 DEF DocsIn, Range
  <2>4. s[u] >= e.ver
    BY <1>4, <2>2, <2>3 DEF NothingStaged
  <2>5. e.ver \in Nat
    BY <1>1, <2>2 DEF Doc
  <2> QED
    BY <1>2, <1>4, <2>2, <2>4, <2>5 DEF Committed
<1> QED
  BY <1>3, <1>4

\* When a segment fits in one commit, no replay, crash or restart makes the
\* indexer show an older copy of a URL after a newer one.
THEOREM SpecVisibleNeverRegresses ==
    ASSUME SegmentDocs <= CommitDocs
    PROVE  Spec => VisibleNeverRegresses
<1> USE SpoolAssumption, WriterAssumption, DrainAssumption
<1>1. Init => OneCommitIInv
  <2> SUFFICES ASSUME Init PROVE OneCommitIInv
    OBVIOUS
  <2>1. \A n \in Names : spool[n].docs = << >> /\ n \notin Sealed
    BY DEF Init, WriterInit, SpoolInit, NoFile, Sealed
  <2> QED
    BY <2>1 DEF Init, WriterInit, DrainInit, OneCommitIInv, SegmentsAreSmall,
                StagedUntilTheEnd, IndexIsNotAhead, Sealed
<1>2. OneCommitIInv /\ IInv /\ IInv' /\ Handoff!NothingIsMadeUp /\ [Next]_vars
         => OneCommitIInv'
  <2> SUFFICES ASSUME OneCommitIInv, IInv, IInv', Handoff!NothingIsMadeUp,
                      [Next]_vars
               PROVE  OneCommitIInv'
    OBVIOUS
  <2>1. SegmentsAreSmall'
    BY SegmentsStaySmall DEF OneCommitIInv
  <2>2. StagedUntilTheEnd'
    BY StagedStep DEF OneCommitIInv
  <2>3. IndexIsNotAhead'
    BY NotAheadStep DEF OneCommitIInv
  <2> QED
    BY <2>1, <2>2, <2>3 DEF OneCommitIInv
<1>3. OneCommitIInv /\ IInv /\ [Next]_vars
         => [\A u \in Url : index'[u] >= index[u]]_vars
  <2> SUFFICES ASSUME OneCommitIInv, IInv, Next, NEW u \in Url
               PROVE  index'[u] >= index[u]
    OBVIOUS
  <2>1. index[u] \in Nat
    BY DEF IInv, TypeOK, DrainTypeOK, Version
  <2>2. CASE index' = index
    BY <2>1, <2>2
  <2>3. CASE IndexDocument
    <3> DEFINE d == spool[current].docs[pos]
               s == [staged EXCEPT ![d.url] = d.ver]
    <3>1. /\ pc = "read" /\ pos \in DOMAIN spool[current].docs
          /\ spool[current].docs \in Seq(Doc)
          /\ \/ index' = index
             \/ pending + 1 >= CommitDocs /\ index' = Committed(index, s)
      <4>1. spool[current].docs \in Seq(Doc) /\ pos \in Nat \ {0}
        BY <2>3, ReadingIsSealed DEF IInv, IndexDocument, TypeOK, DrainTypeOK
      <4> QED
        BY <2>3, <4>1 DEF IndexDocument
    <3>2. /\ pending = pos - 1
          /\ pos <= SegmentDocs
          /\ \A i \in DOMAIN spool[current].docs :
                i < pos + 1 => s[spool[current].docs[i].url]
                                  >= spool[current].docs[i].ver
      BY <3>1, StagedCoversRead DEF OneCommitIInv
    <3>3. /\ d \in Doc /\ d \in DocsIn(current)
          /\ staged \in [Url -> Version]
          /\ \A x \in Url : staged[x] # 0 =>
                \E e \in DocsIn(current) : e.url = x /\ e.ver = staged[x]
      BY <3>1, ReadingIsSealed DEF IInv, StagedIsReading, TypeOK, DrainTypeOK
    <3>4. d.url \in Url /\ d.ver \in Version
      BY <3>3 DEF Doc, Version
    <3> HIDE DEF d
    <3>5. s \in [Url -> Version]
      BY <3>3, <3>4
    <3>6. \A x \in Url : s[x] # 0 =>
             \E e \in DocsIn(current) : e.url = x /\ e.ver = s[x]
      BY <3>3, <3>4
    <3> HIDE DEF s
    <3>7. CASE pending + 1 >= CommitDocs /\ index' = Committed(index, s)
      <4>1. Len(spool[current].docs) <= SegmentDocs
        BY <3>1, ReadingIsSealed
        DEF OneCommitIInv, SegmentsAreSmall, IInv, Sealed
      <4>2. \A i \in DOMAIN spool[current].docs : i < pos + 1
        BY <3>1, <3>2, <3>7, <4>1
      <4> QED
        BY <3>1, <3>2, <3>5, <3>6, <3>7, <4>2, CommitNeverRegresses
        DEF OneCommitIInv
    <3> QED
      BY <2>2, <3>1, <3>7 DEF s
  <2>4. CASE CommitSegment
    <3>1. /\ pc = "read" /\ pos > Len(spool[current].docs)
          /\ index' = Committed(index, staged)
      BY <2>4 DEF CommitSegment, AllFramesRead
    <3>2. /\ spool[current].docs \in Seq(Doc) /\ pos \in Nat
          /\ staged \in [Url -> Version]
          /\ \A x \in Url : staged[x] # 0 =>
                \E e \in DocsIn(current) : e.url = x /\ e.ver = staged[x]
      BY <3>1, ReadingIsSealed DEF IInv, StagedIsReading, TypeOK, DrainTypeOK
    <3>3. \A i \in DOMAIN spool[current].docs : i < pos
      BY <3>1, <3>2
    <3> QED
      BY <3>1, <3>2, <3>3, CommitNeverRegresses
      DEF OneCommitIInv, StagedUntilTheEnd
  <2>5. CASE ~IndexDocument /\ ~CommitSegment
    <3>1. index' = index \/ WriterNext
      BY <2>5 DEF Next, DrainNext, DrainStep, StartDrain, ListReady,
         BuildAuthority, BeginSegment, Retire, RecordHistory, CrashDrain
    <3> QED
      BY <2>2, <2>5, <3>1 DEF Next, onlyDrain, DrainNext, DrainStep, StartDrain,
         ListReady, BuildAuthority, BeginSegment, Retire, RecordHistory, CrashDrain
  <2> QED
    BY <2>3, <2>4, <2>5
<1> QED
  BY <1>1, <1>2, <1>3, SpecIInv, SpecNothingIsMadeUp, PTL
  DEF Spec, VisibleNeverRegresses

=============================================================================
