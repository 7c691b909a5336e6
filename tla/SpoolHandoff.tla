---------------------------- MODULE SpoolHandoff ----------------------------
(***************************************************************************)
(* What the spool promises, without files or processes: a queue of         *)
(* documents that is handed over in crawl order, read at least once, and   *)
(* emptied oldest first, a document leaving it only when the index shows   *)
(* it or a newer copy of its URL.                                          *)
(***************************************************************************)
EXTENDS Naturals

CONSTANTS Url, MaxPages

VARIABLES
    handed,    \* every document handed over so far
    queue,     \* those not acknowledged yet
    visible    \* url -> version a reader of the index sees, 0 if none

vars == << handed, queue, visible >>

Init ==
    /\ handed = {}
    /\ queue = {}
    /\ visible = [u \in Url |-> 0]

\* A batch of documents newer than any before it enters the queue.
Hand ==
    /\ handed \subseteq handed'
    /\ queue' = queue \cup (handed' \ handed)
    /\ \A d \in handed' \ handed, e \in handed : d.ver > e.ver
    /\ UNCHANGED visible

\* Some URLs change to a copy that is still queued; the order and the number of
\* times a copy is published are left open.
Publish ==
    /\ visible' \in [Url -> 0 .. MaxPages]
    /\ \A u \in Url :
          \/ visible'[u] = visible[u]
          \/ [url |-> u, ver |-> visible'[u]] \in queue
    /\ UNCHANGED << handed, queue >>

\* The oldest documents leave once they are visible.
Acknowledge ==
    /\ queue' \subseteq queue
    /\ \A d \in queue \ queue' :
          /\ visible[d.url] >= d.ver
          /\ \A e \in queue' : e.ver > d.ver
    /\ UNCHANGED << handed, visible >>

Next == Hand \/ Publish \/ Acknowledge

Spec == Init /\ [][Next]_vars

\* What is queued or visible was handed over.
NothingIsMadeUp ==
    /\ queue \subseteq handed
    /\ \A u \in Url : visible[u] # 0 => [url |-> u, ver |-> visible[u]] \in handed

=============================================================================
