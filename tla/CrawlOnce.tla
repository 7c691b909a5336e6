------------------------------ MODULE CrawlOnce ------------------------------
(***************************************************************************)
(* What the frontier and the seen-URL filter promise together: each URL is *)
(* queued at most once, taken from the queue, and done.  A filter that     *)
(* answers "probably seen" may also drop a URL it never saw, when the URLs *)
(* it did see happen to set the same bits.                                 *)
(***************************************************************************)
CONSTANTS
    Url,
    MayAlias    \* the URLs the filter can mistake for others

VARIABLE status

Init == status = [u \in Url |-> "new"]

Queue(u) ==
    /\ status[u] = "new"
    /\ \E presumed \in SUBSET {v \in MayAlias \ {u} : status[v] = "new"} :
           status' = [v \in Url |-> IF v = u THEN "queued"
                                    ELSE IF v \in presumed THEN "done"
                                    ELSE status[v]]

Take(u) == status[u] = "queued" /\ status' = [status EXCEPT ![u] = "flying"]

Finish(u) == status[u] = "flying" /\ status' = [status EXCEPT ![u] = "done"]

Next == \E u \in Url : Queue(u) \/ Take(u) \/ Finish(u)

Spec == Init /\ [][Next]_status
=============================================================================
