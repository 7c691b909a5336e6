------------------------------ MODULE SpoolDir ------------------------------
(***************************************************************************)
(* The spool directory: the hand-off between the crawler and the indexer   *)
(* (crates/common/src/spool.rs).  A segment file is named by its sequence  *)
(* number and its suffix: `.open` while the crawler appends to it, `.pdoc` *)
(* once it is complete.  Only the crawler creates files here, only the     *)
(* indexer removes them.                                                   *)
(***************************************************************************)
EXTENDS Naturals, Sequences, FiniteSetsExt, Functions

CONSTANTS
    Url,          \* the canonical URLs a document can carry
    MaxPages,     \* bound: pages written over the whole behaviour
    MaxSegments   \* bound: the highest segment number

ASSUME SpoolAssumption ==
    /\ IsFiniteSet(Url)
    /\ MaxPages \in Nat
    /\ MaxSegments \in Nat

VARIABLE spool    \* the files of spool_dir, by segment number

Names   == 1 .. MaxSegments
Version == 0 .. MaxPages        \* 0 stands for "no such document"

(***************************************************************************)
(* A document is one fetched copy of a URL.  Copies are numbered in the    *)
(* order the crawler wrote them, which is what fetched_at tells apart.     *)
(***************************************************************************)
Doc == [url : Url, ver : 1 .. MaxPages]

(***************************************************************************)
(* One name of the directory: no file, an `.open` file, or a `.pdoc` file. *)
(* docs are the complete frames, torn says that a partial frame follows    *)
(* them, which read_frame reports as SpoolError::Truncated.                *)
(***************************************************************************)
Segment == [file : {"none", "open", "sealed"}, docs : Seq(Doc), torn : BOOLEAN]

NoFile   == [file |-> "none", docs |-> << >>, torn |-> FALSE]
NewFile  == [file |-> "open", docs |-> << >>, torn |-> FALSE]

Existing == {n \in Names : spool[n].file # "none"}

\* is_sealed: the files the indexer lists.
Sealed == {n \in Names : spool[n].file = "sealed"}

DocsIn(n) == Range(spool[n].docs)

\* Documents the indexer can still read from the directory.
Spooled == UNION {DocsIn(n) : n \in Sealed}

SpoolTypeOK == spool \in [Names -> Segment]

SpoolInit == spool = [n \in Names |-> NoFile]

=============================================================================
