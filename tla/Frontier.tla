------------------------------ MODULE Frontier ------------------------------
(***************************************************************************)
(* The URL frontier (crates/crawler/src/frontier.rs): the queue of URLs    *)
(* still to be fetched and the politeness window of every host, both in    *)
(* RocksDB, with exact counters kept beside them.  A write batch reaches   *)
(* the database as a whole, and the database survives a killed process.    *)
(*                                                                         *)
(* Time is relative: the model keeps what is left of a host's window       *)
(* (next_allowed_at_ms - now, never below zero) instead of a clock.        *)
(***************************************************************************)
EXTENDS Integers, Sequences, FiniteSetsExt, Functions

CONSTANTS
    Url,          \* canonical URLs, all with a host
    Hosts,        \* hosts are 1 .. Hosts, numbered in the order of their keys
    HostOf,       \* the host of each URL
    MaxHosts,     \* how many hosts one pop_ready looks at
    Depths        \* bound: the depths a job can be queued at are 0 .. Depths

Host == 1 .. Hosts

ASSUME FrontierAssumption ==
    /\ IsFiniteSet(Url)
    /\ Hosts \in Nat
    /\ HostOf \in [Url -> Host]
    /\ MaxHosts \in Nat \ {0}
    /\ Depths \in Nat

VARIABLES
    queued,    \* CF_FRONTIER_PENDING: the entries, key and job together
    window,    \* CF_FRONTIER_HOSTS: what is left of each host's window
    meta,      \* CF_META: the three counters on disk
    frontier   \* the same counters in the owner's memory

frontierVars == <<queued, window, meta, frontier>>

(***************************************************************************)
(* An entry is a CrawlJob under its key, host and sequence number.  The    *)
(* host of the key is the host of the URL, so it is not repeated.          *)
(***************************************************************************)
Job      == [url : Url, depth : 0 .. Depths, seq : Nat]
Counters == [sequence : Nat, pending : Nat, hosts : Nat]

Unknown  == -1       \* the host has no row yet
Known    == {h \in Host : window[h] # Unknown}

EntriesOf(h) == {e \in queued : HostOf[e.url] = h}
Waiting      == {h \in Host : EntriesOf(h) # {}}

FrontierTypeOK ==
    /\ queued \in SUBSET Job
    /\ window \in [Host -> Nat \cup {Unknown}]
    /\ meta \in Counters
    /\ frontier \in Counters

Zero == [sequence |-> 0, pending |-> 0, hosts |-> 0]

FrontierInit ==
    /\ queued = {}
    /\ window = [h \in Host |-> Unknown]
    /\ meta = Zero
    /\ frontier = Zero

-----------------------------------------------------------------------------
\* (mutant: numbering starts from the number of entries)
OpenByCount ==
    LET opened == [sequence |-> Cardinality(queued),
                   pending  |-> Cardinality(queued),
                   hosts    |-> Cardinality(Known)]
    IN  /\ frontier' = opened
        /\ meta' = opened
        /\ UNCHANGED <<queued, window>>

\* Frontier::open: count both column families and write the counts back.
OpenFrontier ==
    LET opened == [sequence |-> meta.sequence,
                   pending  |-> Cardinality(queued),
                   hosts    |-> Cardinality(Known)]
    IN  /\ frontier' = opened
        /\ meta' = opened
        /\ UNCHANGED <<queued, window>>

\* push: one batch with the entry, the counters and, for a new host, its row.
Push(u, depth) ==
    LET h     == HostOf[u]
        isNew == window[h] = Unknown
        next  == [sequence |-> frontier.sequence + 1,
                  pending  |-> frontier.pending + 1,
                  hosts    |-> frontier.hosts + (IF isNew THEN 1 ELSE 0)]
        key   == {e \in EntriesOf(h) : e.seq = next.sequence}
    IN  /\ queued' = (queued \ key)
                     \cup {[url |-> u, depth |-> depth, seq |-> next.sequence]}
        /\ window' = IF isNew THEN [window EXCEPT ![h] = 0] ELSE window
        /\ frontier' = next
        /\ meta' = IF isNew THEN next ELSE [next EXCEPT !.hosts = meta.hosts]

(***************************************************************************)
(* pop_ready seeks from host to host in key order, gives up after MaxHosts *)
(* of them, passes over a host that is skipped or inside its window, and   *)
(* takes the lowest key of the first host left.                            *)
(***************************************************************************)
\* (mutant: the limit counts every host, with or without entries)
FirstHosts == {h \in Waiting : h <= MaxHosts}

Examined == {h \in Waiting : Cardinality({g \in Waiting : g < h}) < MaxHosts}

Ready(skip) == {h \in Examined : h \notin skip /\ window[h] <= 0}

HeadOf(h) == CHOOSE e \in EntriesOf(h) : \A f \in EntriesOf(h) : e.seq <= f.seq

NextJob(skip) == HeadOf(Min(Ready(skip)))

\* (mutant: the entry goes, the count stays)
ForgetUncounted(e) ==
    /\ queued' = queued \ {e}
    /\ UNCHANGED <<window, meta, frontier>>

\* forget: the entry and its share of the count go in one batch.
Forget(e) ==
    LET left == IF frontier.pending > 0 THEN frontier.pending - 1 ELSE 0
    IN  /\ queued' = queued \ {e}
        /\ frontier' = [frontier EXCEPT !.pending = left]
        /\ meta' = [meta EXCEPT !.pending = left]
        /\ UNCHANGED window

\* defer_host, with the delay counted from now.
DeferHost(h, delay) ==
    /\ window' = [window EXCEPT ![h] = delay]
    /\ UNCHANGED <<queued, meta, frontier>>

\* politeness_delay_ms: a Crawl-delay is a floor, and 0 stands for none.
PolitenessDelay(default, crawlDelay) ==
    IF crawlDelay > default THEN crawlDelay ELSE default

\* One unit of time passes over every window.
WindowsPass ==
    window' = [h \in Host |-> IF window[h] > 0 THEN window[h] - 1 ELSE window[h]]
=============================================================================
