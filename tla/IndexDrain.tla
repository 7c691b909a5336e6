----------------------------- MODULE IndexDrain -----------------------------
(***************************************************************************)
(* The indexer: the drain loop of crates/indexer/src/drain.rs over the     *)
(* DocWriter of crates/search-core/src/index_writer.rs, with the two       *)
(* sidecar files it keeps: the growth timeline (history.rs) and the        *)
(* cross-site link counts (graph.rs).  The process may be killed between   *)
(* any two of its durable steps; an I/O error ends it in the same state,   *)
(* since run() then returns without committing.                            *)
(***************************************************************************)
EXTENDS SpoolDir

CONSTANTS
    CommitDocs,       \* --commit-docs: pending documents that force a commit
    Once,             \* --once: exit when the spool is empty
    Archive,          \* --archive-dir is set
    GraphRoom,        \* URLs whose links are sure to fit --graph-max-nodes/edges
    MaxCrashes,       \* bound: indexer processes killed
    MaxSidecarErrors  \* bound: failed writes of a sidecar file

ASSUME DrainAssumption ==
    /\ CommitDocs \in Nat \ {0}
    /\ Once \in BOOLEAN
    /\ Archive \in BOOLEAN
    /\ GraphRoom \in Nat
    /\ MaxCrashes \in Nat
    /\ MaxSidecarErrors \in Nat

VARIABLES
    pc,        \* what the drain loop does next
    ready,     \* the segments listed and not yet processed
    current,   \* the segment being read; 0 when none is
    pos,       \* its next frame
    staged,    \* url -> version added since the last commit, 0 if none
    pending,   \* documents added since the last commit
    before,    \* documents_before
    index,     \* durable: url -> version visible to a fresh reader
    archived,  \* durable: the segments moved to archive_dir
    history,   \* durable: documents in the timeline's buckets, and its total
    counted,   \* durable: the URLs all of whose links host-authority.json counts
    missed,    \* history: the URLs whose links a pass lost, and logged that it
               \* lost links: a truncated graph, or counts not saved
    crashes, sidecarErrors

drainVars == << spool, pc, ready, current, pos, staged, pending, before, index,
                archived, history, counted, missed, crashes, sidecarErrors >>

DrainTypeOK ==
    /\ SpoolTypeOK
    /\ pc \in {"down", "list", "authority", "next", "read", "retire",
               "record"}
    /\ ready \in SUBSET Names
    /\ current \in 0 .. MaxSegments
    /\ pos \in Nat \ {0}
    /\ staged \in [Url -> Version]
    /\ pending \in Nat
    /\ before \in Nat
    /\ index \in [Url -> Version]
    /\ archived \in [Names -> Seq(Doc)]
    /\ history \in [gained : Nat, total : Nat]
    /\ counted \in SUBSET Url
    /\ missed \in SUBSET Url
    /\ crashes \in 0 .. MaxCrashes
    /\ sidecarErrors \in 0 .. MaxSidecarErrors

DrainInit ==
    /\ pc = "down"
    /\ ready = {}
    /\ current = 0
    /\ pos = 1
    /\ staged = [u \in Url |-> 0]
    /\ pending = 0
    /\ before = 0
    /\ index = [u \in Url |-> 0]
    /\ archived = [n \in Names |-> << >>]
    /\ history = [gained |-> 0, total |-> 0]
    /\ counted = {}
    /\ missed = {}
    /\ crashes = 0
    /\ sidecarErrors = 0

-----------------------------------------------------------------------------

\* (mutant: delete_term forgotten, the first copy stays)
CommittedFirstWins(i, s) == [u \in Url |-> IF i[u] = 0 THEN s[u] ELSE i[u]]

\* What the index holds after a commit: delete_term and add_document are
\* applied in order, so the last copy added of a URL replaces the others.
Committed(i, s) == [u \in Url |-> IF s[u] = 0 THEN i[u] ELSE s[u]]

NothingStaged == [u \in Url |-> 0]

DocCount(i) == Cardinality({u \in Url : i[u] # 0})

SaturatingSub(a, b) == IF a > b THEN a - b ELSE 0

\* The process is gone: nothing volatile survives.
Stopped ==
    /\ pc' = "down"
    /\ ready' = {}
    /\ current' = 0
    /\ pos' = 1
    /\ staged' = NothingStaged
    /\ pending' = 0
    /\ before' = 0

\* DocWriter::open: a writer with nothing pending on the committed index.
StartDrain ==
    /\ pc = "down"
    /\ pc' = "list"
    /\ UNCHANGED << spool, ready, current, pos, staged, pending, before, index,
                    archived, history, counted, missed, crashes,
                    sidecarErrors >>

(***************************************************************************)
(* sealed_segments.  An empty list ends a run under --once; without it the *)
(* loop sleeps and lists again, which changes nothing.                     *)
(***************************************************************************)
ListReady ==
    /\ pc = "list"
    /\ \/ /\ Sealed # {}
          /\ ready' = Sealed
          /\ pc' = "authority"
          /\ UNCHANGED << current, pos, staged, pending, before >>
       \/ /\ Sealed = {}
          /\ Once
          /\ Stopped
    /\ UNCHANGED << spool, index, archived, history, counted, missed,
                    crashes, sidecarErrors >>

\* (mutant: only the first segment is recorded)
ReadyUrlsOfFirst == {d.url : d \in DocsIn(Min(ready))}

\* The graph keeps one set of links for each URL, however many copies of it
\* the ready segments hold, and adds them to the counts read from disk.
ReadyUrls == {d.url : d \in UNION {DocsIn(n) : n \in ready}}

\* The URLs that lose links when the graph is full: any of them, since a page
\* recorded again gives its links back and may not find room for them.
\* LinkGraph follows the limits link by link.
Cuts == IF Cardinality(ReadyUrls) <= GraphRoom THEN {{}} ELSE SUBSET ReadyUrls

(***************************************************************************)
(* build_authority reads every ready segment before any is written.  One   *)
(* torn segment ends the run.  The counts are saved before anything is     *)
(* committed; a graph that reached its limits is logged and saved as it    *)
(* is, and failing to save the counts is only logged.                      *)
(***************************************************************************)
BuildAuthority ==
    /\ pc = "authority"
    /\ \/ /\ \E n \in ready : spool[n].torn
          /\ Stopped
          /\ UNCHANGED << counted, missed, sidecarErrors >>
       \/ /\ \A n \in ready : ~spool[n].torn
          /\ pc' = "next"
          /\ \/ /\ \E cut \in Cuts :
                      /\ counted' = counted \cup (ReadyUrls \ cut)
                      /\ missed' = missed \cup cut
                /\ UNCHANGED sidecarErrors
             \/ /\ sidecarErrors < MaxSidecarErrors
                /\ sidecarErrors' = sidecarErrors + 1
                /\ missed' = missed \cup ReadyUrls
                /\ UNCHANGED counted
          /\ UNCHANGED << ready, current, pos, staged, pending, before >>
    /\ UNCHANGED << spool, index, archived, history, crashes >>

\* (mutant: the newest segment first)
FirstReadyNewest == Max(ready)

\* The segments are taken in the order of their numbers.
FirstReady == Min(ready)

BeginSegment ==
    /\ pc = "next"
    /\ \/ /\ ready # {}
          /\ current' = FirstReady
          /\ ready' = ready \ {FirstReady}
          /\ pos' = 1
          /\ before' = DocCount(index)
          /\ pc' = "read"
       \/ /\ ready = {}
          /\ pc' = "list"
          /\ UNCHANGED << ready, current, pos, before >>
    /\ UNCHANGED << spool, staged, pending, index, archived, history, counted,
                    missed, crashes, sidecarErrors >>

\* (mutant: off by one, the last frame is left)
AllFramesButOneRead == pos >= Len(spool[current].docs)

\* read_frame returned None.
AllFramesRead == pos > Len(spool[current].docs)

\* One frame: add_or_update, and a commit when enough documents are pending.
IndexDocument ==
    LET d == spool[current].docs[pos]
        s == [staged EXCEPT ![d.url] = d.ver]
    IN  /\ pc = "read"
        /\ pos <= Len(spool[current].docs)
        /\ pos' = pos + 1
        /\ IF pending + 1 >= CommitDocs
           THEN /\ index' = Committed(index, s)
                /\ staged' = NothingStaged
                /\ pending' = 0
           ELSE /\ staged' = s
                /\ pending' = pending + 1
                /\ UNCHANGED index
        /\ UNCHANGED << spool, pc, ready, current, before, archived, history,
                        counted, missed, crashes, sidecarErrors >>

\* The last frame was read: everything still pending is committed.
CommitSegment ==
    /\ pc = "read"
    /\ AllFramesRead
    /\ index' = Committed(index, staged)
    /\ staged' = NothingStaged
    /\ pending' = 0
    /\ pc' = "retire"
    /\ UNCHANGED << spool, ready, current, pos, before, archived, history,
                    counted, missed, crashes, sidecarErrors >>

\* retire: the file is removed, or renamed into archive_dir under its name.
Retire ==
    /\ pc = "retire"
    /\ spool' = [spool EXCEPT ![current] = NoFile]
    /\ archived' = IF Archive
                   THEN [archived EXCEPT ![current] = spool[current].docs]
                   ELSE archived
    /\ pc' = "record"
    /\ UNCHANGED << ready, current, pos, staged, pending, before, index, history,
                    counted, missed, crashes, sidecarErrors >>

\* (mutant: the bucket gets the total)
GainedTotal(count) == count

\* What the segment added to the index: documents_before is read before it.
Gained(count) == SaturatingSub(count, before)

\* history::record, with the count taken after the commit; an error is logged.
RecordHistory ==
    LET count == DocCount(index)
    IN  /\ pc = "record"
        /\ \/ /\ history' =
                 [gained |-> history.gained + Gained(count),
                  total  |-> count]
              /\ UNCHANGED sidecarErrors
           \/ /\ sidecarErrors < MaxSidecarErrors
              /\ sidecarErrors' = sidecarErrors + 1
              /\ UNCHANGED history
        /\ pc' = "next"
        /\ current' = 0
        /\ pos' = 1
        /\ before' = 0
        /\ UNCHANGED << spool, ready, staged, pending, index, archived,
                        counted, missed, crashes >>

CrashDrain ==
    /\ pc # "down"
    /\ crashes < MaxCrashes
    /\ crashes' = crashes + 1
    /\ Stopped
    /\ UNCHANGED << spool, index, archived, history, counted, missed,
                    sidecarErrors >>

DrainStep ==
    \/ StartDrain
    \/ ListReady
    \/ BuildAuthority
    \/ BeginSegment
    \/ IndexDocument
    \/ CommitSegment
    \/ Retire
    \/ RecordHistory

DrainNext == DrainStep \/ CrashDrain

=============================================================================
