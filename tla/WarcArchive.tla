---------------------------- MODULE WarcArchive -----------------------------
(***************************************************************************)
(* The WARC half of the archive writer (storage.rs) and its order with the *)
(* spool half, which ArchiveWriter models in full: here a segment is only  *)
(* the pages it holds.  A page is a number in order of arrival; its record *)
(* has one of a few sizes.  zstd and the file buffer hold records back, so *)
(* a killed process loses any suffix of the file it was writing.           *)
(***************************************************************************)
EXTENDS Naturals, Sequences, FiniteSets

CONSTANTS
    RecordSizes,     \* units a page's record can take
    HeaderSize,      \* units of the warcinfo record a file begins with
    WarcMax,         \* warc_max_bytes
    SegmentPages,    \* pages that fill a spool segment
    MaxPages, MaxFiles, MaxStops   \* bounds: pages, files, kills and errors

ASSUME WarcAssumption ==
    /\ RecordSizes \subseteq Nat \ {0} /\ IsFiniteSet(RecordSizes)
    /\ {HeaderSize, WarcMax, SegmentPages, MaxPages, MaxFiles, MaxStops} \subseteq Nat
    /\ SegmentPages > 0

VARIABLES
    files,      \* number -> [bytes, pages, state], state in "open", "finished", "cut"
    current,    \* self.warc: the file being written, 0 for none
    written,    \* stats.warc_bytes
    unsealed,   \* pages in the open spool segment
    handed,     \* pages in sealed segments
    arrived,    \* pages given to write_page
    stops       \* kills and failed writes so far

warcVars == <<files, current, written, unsealed, handed, arrived, stops>>

NoFiles == [n \in {} |-> 0]
Started == [bytes |-> HeaderSize, pages |-> << >>, state |-> "open"]
PagesIn(fs) == UNION {{fs[n].pages[i] : i \in DOMAIN fs[n].pages} : n \in DOMAIN fs}

\* (mutant: the highest number is taken again)
LastWarcSequence == CHOOSE n \in DOMAIN files \cup {1} : \A m \in DOMAIN files : m <= n

NextWarcSequence ==
    1 + (CHOOSE n \in DOMAIN files \cup {0} : \A m \in DOMAIN files : m <= n)

\* File::create truncates whatever has the name.
WithFile(fs, n) == [m \in DOMAIN fs \cup {n} |-> IF m = n THEN Started ELSE fs[m]]

Finished(fs, n) == [fs EXCEPT ![n].state = "finished"]

\* A file that is not finished keeps some of its records, from the first on.
CutAt(fs, n, kept) ==
    [fs EXCEPT ![n] =
        [bytes |-> @.bytes, pages |-> SubSeq(@.pages, 1, kept), state |-> "cut"]]

CutFiles(fs, n) == {CutAt(fs, n, kept) : kept \in 0 .. Len(fs[n].pages)}

\* finish_warc, where a failure is nowhere seen again: the whole file, or a part.
Closings(fs, n) == {Finished(fs, n)} \cup CutFiles(fs, n)

\* ArchiveWriter::open: numbering goes on, a file begins; counters start at zero.
Open ==
    /\ current = 0
    /\ NextWarcSequence <= MaxFiles
    /\ files' = WithFile(files, NextWarcSequence)
    /\ current' = NextWarcSequence
    /\ written' = HeaderSize
    /\ unsealed' = << >>
    /\ UNCHANGED <<handed, arrived, stops>>

\* Its header or the first segment fails: an empty file is left, the process ends.
OpenFails ==
    /\ current = 0 /\ stops < MaxStops
    /\ NextWarcSequence <= MaxFiles
    /\ stops' = stops + 1
    /\ files' \in Closings(WithFile(files, NextWarcSequence), NextWarcSequence)
    /\ UNCHANGED <<current, written, unsealed, handed, arrived>>

-----------------------------------------------------------------------------
WithRecord(fs, page, size) ==
    [fs EXCEPT ![current] =
        [bytes |-> @.bytes + size, pages |-> Append(@.pages, page), state |-> @.state]]

\* The running total of the process is compared, not the size of the file.
Rolls(size) == written + size >= WarcMax

\* write_warc_record: the record; then finish_warc and open_warc if it is time.
Recorded(page, size) ==
    LET fs == WithRecord(files, page, size)
    IN  IF Rolls(size) THEN WithFile(Finished(fs, current), current + 1) ELSE fs

FileAfter(size) == IF Rolls(size) THEN current + 1 ELSE current

SetOf(s) == {s[i] : i \in DOMAIN s}

\* The frame of the page fills the segment.
Fills == Len(unsealed) + 1 >= SegmentPages

Framed(page) == handed \cup SetOf(unsealed) \cup {page}

\* The frame after the record; a full segment is sealed and the next opened.
WriteFrame(page) ==
    IF Fills
    THEN handed' = Framed(page) /\ unsealed' = << >>
    ELSE unsealed' = Append(unsealed, page) /\ UNCHANGED handed

Write(size) ==
    /\ current # 0 /\ arrived < MaxPages
    /\ FileAfter(size) <= MaxFiles
    /\ arrived' = arrived + 1
    /\ files' = Recorded(arrived + 1, size)
    /\ current' = FileAfter(size)
    /\ written' = written + size + (IF Rolls(size) THEN HeaderSize ELSE 0)
    /\ WriteFrame(arrived + 1)
    /\ UNCHANGED stops

-----------------------------------------------------------------------------
(***************************************************************************)
(* Errors.  write_page returns where it fails, the owner loop ends, and    *)
(* Drop seals the segment and finishes the file; each may fail there too,  *)
(* and no one is told.  A segment that is not sealed is an orphan.         *)
(***************************************************************************)
\* (mutant: the segment gets the frame of a page whose record failed)
FailAfterFrame(page) == handed' = Framed(page)
SealOnDrop(page) == handed' \in {handed, handed \cup SetOf(unsealed)}

Stop ==
    /\ current # 0 /\ stops < MaxStops
    /\ stops' = stops + 1
    /\ current' = 0 /\ unsealed' = << >>
    /\ UNCHANGED written

PageStops ==
    /\ Stop
    /\ arrived < MaxPages /\ arrived' = arrived + 1

\* The record does not reach the file whole.
WriteFails ==
    /\ PageStops
    /\ files' \in Closings(files, current)
    /\ SealOnDrop(arrived + 1)

\* The record is in; its file cannot be finished, or the next not be created,
\* or the next gets no header.
RollFails(size) ==
    /\ PageStops
    /\ Rolls(size)
    /\ LET fs == WithRecord(files, arrived + 1, size)
           next == WithFile(Finished(fs, current), current + 1)
       IN  \/ files' \in Closings(fs, current)
           \/ current < MaxFiles /\ files' \in CutFiles(next, current + 1)
    /\ SealOnDrop(arrived + 1)

\* The record is in; its frame fails, or the sealing of the segment that it
\* fills; or that is sealed and the next cannot be opened.
FrameFails(size) ==
    /\ PageStops
    /\ FileAfter(size) <= MaxFiles
    /\ files' \in Closings(Recorded(arrived + 1, size), FileAfter(size))
    /\ \/ SealOnDrop(arrived + 1)
       \/ Fills /\ handed' = Framed(arrived + 1)

\* The orderly end: the segment first, then the file.
SealArchive ==
    /\ current # 0
    /\ handed' = handed \cup SetOf(unsealed)
    /\ unsealed' = << >>
    /\ files' = Finished(files, current)
    /\ current' = 0
    /\ UNCHANGED <<written, arrived, stops>>

\* seal stops at its first error and Drop goes on with what is left.
SealFails ==
    /\ Stop
    /\ files' \in Closings(files, current)
    /\ SealOnDrop(arrived)
    /\ UNCHANGED arrived

\* Killed: the file keeps some of its records, the open segment is orphaned.
Kill ==
    /\ Stop
    /\ files' \in CutFiles(files, current)
    /\ UNCHANGED <<handed, arrived>>

WarcInit ==
    /\ files = NoFiles /\ current = 0 /\ written = 0
    /\ unsealed = << >> /\ handed = {} /\ arrived = 0 /\ stops = 0

WarcNext ==
    \/ Open \/ OpenFails \/ SealArchive \/ Kill \/ SealFails \/ WriteFails
    \/ \E size \in RecordSizes : Write(size) \/ RollFails(size) \/ FrameFails(size)

WarcSpec == WarcInit /\ [][WarcNext]_warcVars

-----------------------------------------------------------------------------
(***************************************************************************)
(* What the indexer gets can be rebuilt from the archive: a page of a      *)
(* sealed segment that has no record was in the last part of a file whose  *)
(* writer was killed or failed; it is lost from nowhere else.  The files   *)
(* hold the pages in the order they came, each once.                       *)
(***************************************************************************)
LostFrom(fs, n, page) ==
    /\ fs[n].state = "cut"
    /\ \A m \in DOMAIN fs : \A q \in SetOf(fs[m].pages) :
          IF m <= n THEN q < page ELSE q > page

LossesAreCut(fs, given) ==
    \A page \in given \ PagesIn(fs) : \E n \in DOMAIN fs : LostFrom(fs, n, page)

InOrder(fs) ==
    \A m, n \in DOMAIN fs : \A i \in DOMAIN fs[m].pages, j \in DOMAIN fs[n].pages :
        m < n \/ (m = n /\ i < j) => fs[m].pages[i] < fs[n].pages[j]

ArchiveCoversSpool == LossesAreCut(files, handed) /\ InOrder(files)

(***************************************************************************)
(* "Roll to a new WARC file once the current one exceeds this size"        *)
(* (storage.rs:41): a file that another of the same process follows is     *)
(* full.                                                                   *)
(***************************************************************************)
RolledFilesAreFull ==
    [][\A n \in DOMAIN files : current = n /\ current' = n + 1 =>
          files'[n].bytes >= WarcMax]_warcVars

-----------------------------------------------------------------------------
(***************************************************************************)
(* The inductive invariant behind ArchiveCoversSpool: the pages that may   *)
(* still be handed over count as well, and nothing is younger than the     *)
(* last page that arrived.                                                 *)
(***************************************************************************)
WarcFile == [bytes : Nat, pages : Seq(Nat), state : {"open", "finished", "cut"}]

WarcTypeOK ==
    /\ \E last \in Nat : files \in [1 .. last -> WarcFile]
    /\ current \in Nat /\ written \in Nat /\ arrived \in Nat /\ stops \in Nat
    /\ unsealed \in Seq(Nat) /\ handed \in SUBSET Nat

\* The file being written is the last, and the only one that is open.
LastIsOpen ==
    /\ current # 0 => current \in DOMAIN files
    /\ \A n \in DOMAIN files :
          IF n = current THEN files[n].state = "open" /\ \A m \in DOMAIN files : m <= n
          ELSE files[n].state \in {"finished", "cut"}
    /\ current = 0 => unsealed = << >>

\* Files whose pages came no later than the last, and what was given to a segment.
FilesSound(fs, last, given) ==
    /\ \A page \in given \cup PagesIn(fs) : page <= last
    /\ InOrder(fs)
    /\ LossesAreCut(fs, given)

Given == handed \cup SetOf(unsealed)

WarcIInv == WarcTypeOK /\ LastIsOpen /\ FilesSound(files, arrived, Given)
=============================================================================
