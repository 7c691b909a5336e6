---------------------------- MODULE SpoolPipeline ---------------------------
(***************************************************************************)
(* The crawler's ArchiveWriter and the indexer's drain loop over one spool *)
(* directory: two processes that share nothing but its files, may run at   *)
(* the same time (OVERLAP_DRAIN in scripts/crawl_official.sh, `manage.py   *)
(* start --crawl`) and may each be killed at any point.                    *)
(***************************************************************************)
EXTENDS ArchiveWriter, IndexDrain

vars == << spool, segment, starting, pages, handed, kills, ioErrors, pc, ready,
           current, pos, staged, pending, before, index, archived, history,
           counted, missed, crashes, sidecarErrors >>

onlyWriter == << segment, starting, pages, handed, kills, ioErrors >>

onlyDrain == << pc, ready, current, pos, staged, pending, before, index,
                archived, history, counted, missed, crashes, sidecarErrors >>

TypeOK == WriterTypeOK /\ DrainTypeOK

Init == WriterInit /\ DrainInit

Next ==
    \/ WriterNext /\ UNCHANGED onlyDrain
    \/ DrainNext /\ UNCHANGED onlyWriter

Spec == Init /\ [][Next]_vars

(***************************************************************************)
(* The indexer keeps running and is started again when it ends: its loop   *)
(* never waits for anything but a file, the crawl script runs `indexer     *)
(* --once` after every slice and round, and the unit of the crawl restarts *)
(* always.  Nothing is assumed of the crawler.                             *)
(***************************************************************************)
FairSpec == Spec /\ WF_vars(DrainStep /\ UNCHANGED onlyWriter)

-----------------------------------------------------------------------------
(* Safety *)

\* A document of a sealed segment is still in a sealed segment, or the index
\* shows it or a newer copy of its URL: whatever crashes, retire never gets
\* ahead of commit (drain.rs, "The ordering that must not be relaxed").
NothingHandedIsLost ==
    \A d \in handed : d \in Spooled \/ index[d.url] >= d.ver

\* Segment numbers follow crawl order, and all that is left in the spool is
\* newer than all that was retired, across restarts of both processes, so
\* draining by number never puts an old copy over a new one.
SpoolInCrawlOrder ==
    /\ \A m, n \in Existing :
          m < n => \A d \in DocsIn(m), e \in DocsIn(n) : d.ver < e.ver
    /\ \A d \in handed \ Spooled, e \in Spooled : d.ver < e.ver

\* With nothing sealed, the index shows the newest copy of every URL that was
\* handed over, not just some copy.
DrainedIndexIsCurrent ==
    Sealed = {} =>
        \A u \in Url : index[u] = Max({d.ver : d \in {e \in handed : e.url = u}}
                                      \cup {0})

\* The growth timeline never claims more documents than the index holds
\* (history.rs, "What a bucket counts"), whatever is replayed.
TimelineNeverOvercounts ==
    /\ history.gained <= DocCount(index)
    /\ history.total <= DocCount(index)

\* A document is visible only once all the links of its URL were counted, as
\* the counts are saved before the first commit; or a pass that held the URL
\* said it lost links, its graph full (graph.rs:113-123) or its counts unsaved.
CountedBeforeVisible ==
    \A u \in Url : index[u] # 0 => u \in counted \cup missed

\* A sealed file never changes, and no step gives its name to another file:
\* a restarted crawler does not number into the spool (next_spool_sequence).
SealedFilesAreFinal ==
    [][\A n \in Sealed : spool'[n] \in {spool[n], NoFile}]_vars

\* The indexer never shows an older copy of a URL after a newer one, as long
\* as a segment is one commit.
VisibleNeverRegresses == [][\A u \in Url : index'[u] >= index[u]]_vars

\* The spool implements the abstract queue.
Handoff == INSTANCE SpoolHandoff WITH queue <- Spooled, visible <- index

ImplementsHandoff == Handoff!Spec

-----------------------------------------------------------------------------
(* The inductive invariant behind the safety properties *)

\* The crawler writes to the highest file of the directory, which is open, and
\* the number it starts with is still above every file when it creates its own.
WritesAtTheEnd ==
    /\ segment # 0 => /\ spool[segment].file = "open"
                      /\ \A n \in Existing : n <= segment
    /\ starting # 0 => segment = 0 /\ \A n \in Existing : n < starting

\* Everything written so far carries a version up to the newest page.
VersionsSoFar ==
    /\ \A d \in handed : d.ver <= pages
    /\ \A n \in Existing : \A d \in DocsIn(n) : d.ver <= pages

\* Versions increase within a segment and from one segment to the next.
OrderedInSegments ==
    \A n \in Existing : \A i, j \in DOMAIN spool[n].docs :
        i < j => spool[n].docs[i].ver < spool[n].docs[j].ver

OrderedAcrossSegments ==
    \A m, n \in Existing :
        m < n => \A d \in DocsIn(m), e \in DocsIn(n) : d.ver < e.ver

\* The segments that are or will be sealed: orphans are neither.
Live == Sealed \cup ({segment} \ {0})

\* What was retired is older than all that is to come.
RetiredIsOlder ==
    \A d \in handed \ Spooled, n \in Live : \A e \in DocsIn(n) : d.ver < e.ver

\* The segments the indexer has yet to retire, in the list it works on.
Reading == IF pc \in {"read", "retire"} THEN {current} ELSE {}
Listed  == ready \cup Reading

\* That list is what was sealed first, and the segment being read is its first.
ListedIsOldest ==
    /\ Listed \subseteq Sealed
    /\ \A n \in Listed, m \in Sealed \ Listed : n < m
    /\ \A c \in Reading, n \in ready : c < n

\* Nothing is staged but documents of the segment being read.
StagedIsReading ==
    \A u \in Url : staged[u] # 0 =>
        /\ pc = "read"
        /\ \E d \in DocsIn(current) : d.url = u /\ d.ver = staged[u]

\* The frames read so far show in what a commit would publish, and all frames
\* show in the index before the file is retired.
ReadIsCovered ==
    /\ pc = "read" =>
           \A i \in DOMAIN spool[current].docs : i < pos =>
               Committed(index, staged)[spool[current].docs[i].url]
                   >= spool[current].docs[i].ver
    /\ pc = "retire" => \A d \in DocsIn(current) : index[d.url] >= d.ver

IInv ==
    /\ TypeOK
    /\ WritesAtTheEnd
    /\ VersionsSoFar
    /\ OrderedInSegments
    /\ OrderedAcrossSegments
    /\ RetiredIsOlder
    /\ ListedIsOldest
    /\ StagedIsReading
    /\ ReadIsCovered
    /\ NothingHandedIsLost

-----------------------------------------------------------------------------
(* What the other safety properties rest on *)

\* A segment's gain is booked once it is retired: until then its bucket is no
\* further than the count taken before it was read.
TimelineIsBehind ==
    /\ history.total <= DocCount(index)
    /\ IF pc \in {"read", "retire", "record"}
       THEN history.gained <= before /\ before <= DocCount(index)
       ELSE history.gained <= DocCount(index)

\* The segments past the authority pass hold no URL whose links were neither
\* counted nor said to be lost, and the index shows none.
ListedIsCounted ==
    /\ CountedBeforeVisible
    /\ pc \in {"next", "read", "retire", "record"} =>
           \A n \in Listed : \A d \in DocsIn(n) : d.url \in counted \cup missed

\* No segment grows past the size that seals it, and the one that is open is
\* below that size.
SegmentsAreSmall ==
    /\ \A n \in Names : Len(spool[n].docs) <= SegmentDocs
    /\ segment # 0 => Len(spool[segment].docs) < SegmentDocs

\* A segment that fits in one commit is staged whole and committed after its
\* last frame; between segments nothing is pending.
StagedUntilTheEnd ==
    /\ pc # "read" => pending = 0
    /\ pc = "read" =>
          \/ /\ pending = pos - 1
             /\ \A i \in DOMAIN spool[current].docs :
                   i < pos => staged[spool[current].docs[i].url]
                                  >= spool[current].docs[i].ver
          \/ /\ pos > Len(spool[current].docs)
             /\ staged = NothingStaged

\* What the index shows of a URL is no newer than the newest copy in any sealed
\* segment that holds the URL: a replay ends where the index already is.
IndexIsNotAhead ==
    \A n \in Sealed : \A d \in DocsIn(n) :
        \E e \in DocsIn(n) : e.url = d.url /\ e.ver >= index[d.url]

OneCommitIInv == SegmentsAreSmall /\ StagedUntilTheEnd /\ IndexIsNotAhead

-----------------------------------------------------------------------------
(* Liveness *)

\* Every document handed over is eventually shown, or a newer copy of it,
\* however often the indexer is killed, if no segment was sealed torn.
HandedIsEventuallyVisible ==
    \A u \in Url, v \in 1 .. MaxPages :
        [url |-> u, ver |-> v] \in handed ~>
            (index[u] >= v \/ \E n \in Sealed : spool[n].torn)

-----------------------------------------------------------------------------
(* Claims of the repository that the code does not keep *)

\* storage.rs:18-19 and spool.rs:17-19: the indexer "can never see a
\* half-written frame".
NoHalfWrittenFrame == \A n \in Sealed : ~spool[n].torn
=============================================================================
