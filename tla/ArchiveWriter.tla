---------------------------- MODULE ArchiveWriter ---------------------------
(***************************************************************************)
(* The crawler's side of the spool: ArchiveWriter and SpoolSegment in      *)
(* crates/crawler/src/storage.rs, driven by the owner task of              *)
(* crates/crawler/src/main.rs.  One crawler process at a time runs, which  *)
(* the lock RocksDB holds on its directory enforces before the archive is  *)
(* opened; it may end at its page budget, by an I/O error, or be killed.   *)
(***************************************************************************)
EXTENDS SpoolDir

CONSTANTS
    SegmentDocs,  \* documents that make a segment reach segment_bytes
    MaxKills,     \* bound: crawler processes killed without running Drop
    MaxIoErrors   \* bound: writes that fail (a full disk)

ASSUME WriterAssumption ==
    /\ SegmentDocs \in Nat \ {0}
    /\ MaxKills \in Nat
    /\ MaxIoErrors \in Nat

VARIABLES
    segment,      \* segment being appended to; 0 when none is
    starting,     \* what next_spool_sequence returned, until that file is there
    pages,        \* pages written so far: the version of the newest document
    handed,       \* history: every document of a segment that was sealed
    kills, ioErrors

writerVars == << spool, segment, starting, pages, handed, kills, ioErrors >>

WriterTypeOK ==
    /\ SpoolTypeOK
    /\ segment \in 0 .. MaxSegments
    /\ starting \in 0 .. MaxSegments
    /\ pages \in Version
    /\ handed \in SUBSET Doc
    /\ kills \in 0 .. MaxKills
    /\ ioErrors \in 0 .. MaxIoErrors

WriterInit ==
    /\ SpoolInit
    /\ segment = 0
    /\ starting = 0
    /\ pages = 0
    /\ handed = {}
    /\ kills = 0
    /\ ioErrors = 0

-----------------------------------------------------------------------------

\* (mutant: the files are counted, not their numbers read)
NextSpoolSequenceByCount == Cardinality(Existing) + 1

\* One more than the highest number any file of the directory carries, sealed
\* or open, so that a restart passes over an orphaned `.open` file.
NextSpoolSequence == Max(Existing \cup {0}) + 1

\* The file a segment leaves when it is flushed, synced and renamed.
SealedFile(s) == [s EXCEPT !.file = "sealed"]

\* The segment in progress with one more frame.
WithFrame(d) == [spool[segment] EXCEPT !.docs = Append(@, d)]

\* (mutant: off by one, the version of the page before)
NewDocStale(u) == [url |-> u, ver |-> pages]

NewDoc(u) == [url |-> u, ver |-> pages + 1]

\* The crawler starts: the directory is listed for the number to resume at.
\* The indexer may remove files between this and the creation of the first one.
StartCrawl ==
    /\ segment = 0
    /\ starting = 0
    /\ NextSpoolSequence \in Names
    /\ starting' = NextSpoolSequence
    /\ UNCHANGED << spool, segment, pages, handed, kills, ioErrors >>

\* Its first file is created, empty and `.open`.
OpenSegment ==
    /\ starting # 0
    /\ segment' = starting
    /\ spool' = [spool EXCEPT ![starting] = NewFile]
    /\ starting' = 0
    /\ UNCHANGED << pages, handed, kills, ioErrors >>

\* It cannot be created: ArchiveWriter::open returns the error.
OpenSegmentFails ==
    /\ starting # 0
    /\ ioErrors < MaxIoErrors
    /\ ioErrors' = ioErrors + 1
    /\ starting' = 0
    /\ UNCHANGED << spool, segment, pages, handed, kills >>

(***************************************************************************)
(* write_page: the frame is appended; a segment that reached its size is   *)
(* sealed and the next one opened before the call returns.                 *)
(***************************************************************************)
WritePage(u) ==
    LET s    == WithFrame(NewDoc(u))
        full == Len(s.docs) >= SegmentDocs
    IN  /\ segment # 0
        /\ pages < MaxPages
        /\ full => segment + 1 \in Names
        /\ pages' = pages + 1
        /\ IF full
           THEN /\ spool' = [spool EXCEPT ![segment] = SealedFile(s),
                                          ![segment + 1] = NewFile]
                /\ segment' = segment + 1
                /\ handed' = handed \cup Range(s.docs)
           ELSE /\ spool' = [spool EXCEPT ![segment] = s]
                /\ UNCHANGED << segment, handed >>
        /\ UNCHANGED << starting, kills, ioErrors >>

\* The run ends at its budget, drained or interrupted: the segment is sealed,
\* even when it is empty.
SealArchive ==
    /\ segment # 0
    /\ spool' = [spool EXCEPT ![segment] = SealedFile(@)]
    /\ handed' = handed \cup DocsIn(segment)
    /\ segment' = 0
    /\ UNCHANGED << starting, pages, kills, ioErrors >>

(***************************************************************************)
(* A write fails, run() returns the error and Drop seals what it can.  The *)
(* page being written is not in the segment.  When the failure was in the  *)
(* flush or the rename the `.open` file stays; when it was before the      *)
(* frame the seal leaves a clean segment; when part of the frame reached   *)
(* the file, Drop seals that part too.                                     *)
(***************************************************************************)
WriteFails ==
    /\ segment # 0
    /\ ioErrors < MaxIoErrors
    /\ ioErrors' = ioErrors + 1
    /\ segment' = 0
    /\ \/ UNCHANGED << spool, handed >>
       \/ \E partial \in BOOLEAN :
            /\ spool' = [spool EXCEPT ![segment] =
                            [SealedFile(@) EXCEPT !.torn = partial]]
            /\ handed' = handed \cup DocsIn(segment)
    /\ UNCHANGED << starting, pages, kills >>

\* The page filled its segment, which was sealed, and then the next one could
\* not be created: run() ends with nothing left for Drop to seal.
OpenNextFails(u) ==
    LET s == WithFrame(NewDoc(u))
    IN  /\ segment # 0
        /\ pages < MaxPages
        /\ Len(s.docs) >= SegmentDocs
        /\ ioErrors < MaxIoErrors
        /\ ioErrors' = ioErrors + 1
        /\ pages' = pages + 1
        /\ spool' = [spool EXCEPT ![segment] = SealedFile(s)]
        /\ handed' = handed \cup Range(s.docs)
        /\ segment' = 0
        /\ UNCHANGED << starting, kills >>

\* The process is killed: the `.open` file stays as it is.
KillCrawler ==
    /\ segment # 0 \/ starting # 0
    /\ kills < MaxKills
    /\ kills' = kills + 1
    /\ segment' = 0
    /\ starting' = 0
    /\ UNCHANGED << spool, pages, handed, ioErrors >>

WriterNext ==
    \/ StartCrawl
    \/ OpenSegment
    \/ OpenSegmentFails
    \/ \E u \in Url : WritePage(u)
    \/ \E u \in Url : OpenNextFails(u)
    \/ SealArchive
    \/ WriteFails
    \/ KillCrawler

=============================================================================
