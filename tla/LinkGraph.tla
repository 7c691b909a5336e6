------------------------------ MODULE LinkGraph -----------------------------
(***************************************************************************)
(* The link graph of one drain (graph.rs): documents are recorded with     *)
(* their links up to the limits of the graph, cross-site links are counted *)
(* and rank is propagated.  Rank is in units of 1/Scale, rounded down;     *)
(* squash, which maps both scores into [0, 1), is left out.                *)
(***************************************************************************)
EXTENDS Naturals, Sequences, FiniteSets, SequencesExt, FiniteSetsExt

CONSTANTS
    PageURL,             \* URLs of documents and links
    SiteOf,              \* host_of: URL -> its host
    MaxNodes, MaxEdges,  \* GraphLimits
    Persisted,           \* host -> count of earlier runs, 0 if it is not listed
    Iterations, Scale,   \* rounds of rank; what the ranks sum to
    Damping,             \* in percent
    MaxRecorded, MaxLinks   \* bounds: documents of a drain, links of one

ASSUME GraphAssumption ==
    /\ {MaxNodes, MaxEdges, Iterations, MaxRecorded, MaxLinks} \subseteq Nat
    /\ Scale \in Nat \ {0} /\ Damping \in 0 .. 100
    /\ DOMAIN SiteOf = PageURL /\ Persisted \in [DOMAIN Persisted -> Nat]

VARIABLES
    ids,          \* URLs in the order they were interned
    out,          \* node -> nodes it links to
    edges,        \* counter of links
    truncated,
    hostInlinks,
    rank,         \* node -> rank; << >> before finish()
    rounds,       \* rounds of page_rank made
    recorded      \* history: [url, links] of the record() calls

graphVars == <<ids, out, edges, truncated, hostInlinks, rank, rounds, recorded>>

GraphInit ==
    /\ ids = << >> /\ out = << >> /\ edges = 0 /\ truncated = FALSE
    /\ hostInlinks = Persisted /\ rank = << >> /\ rounds = 0 /\ recorded = << >>

Intern(nodes, url) == IF url \in ToSet(nodes) THEN nodes ELSE Append(nodes, url)
NodeOf(nodes, url) == CHOOSE i \in DOMAIN nodes : nodes[i] = url

\* One turn of record's loop: stop at a limit, else intern the link and count
\* it once and not if it is the page itself.
FollowLink(g, url, link) ==
    IF g.full \/ g.edges >= MaxEdges \/ Len(g.nodes) >= MaxNodes
    THEN [g EXCEPT !.full = TRUE]
    ELSE LET nodes == Intern(g.nodes, link)
         IN  IF link = url \/ NodeOf(nodes, link) \in g.targets
             THEN [g EXCEPT !.nodes = nodes]
             ELSE [g EXCEPT !.nodes = nodes, !.edges = @ + 1,
                            !.targets = @ \cup {NodeOf(nodes, link)}]

\* The loop over a page's links.
Follow(url, links) ==
    LET sofar[n \in 0 .. Len(links)] ==
          IF n = 0
          THEN [nodes |-> Intern(ids, url), edges |-> edges, targets |-> {}, full |-> FALSE]
          ELSE FollowLink(sofar[n - 1], url, links[n])
    IN  sofar[Len(links)]

\* (mutant: the links replaced stay counted)
AddedToOld(counted, old) == counted
\* edges.saturating_sub(replaced)
Replacing(counted, old) ==
    IF counted < Cardinality(old) THEN 0 ELSE counted - Cardinality(old)

\* A page recorded again has its new links only.
RecordPage(url, links) ==
    /\ rank = << >> /\ Len(recorded) < MaxRecorded
    /\ LET g == Follow(url, links)
           known(i) == IF i \in DOMAIN out THEN out[i] ELSE {}
           source == NodeOf(g.nodes, url)
       IN  /\ ids' = g.nodes
           /\ out' = [i \in DOMAIN g.nodes |-> IF i = source THEN g.targets ELSE known(i)]
           /\ edges' = Replacing(g.edges, known(source))
           /\ truncated' = (truncated \/ g.full)
    /\ recorded' = Append(recorded, [url |-> url, links |-> links])
    /\ UNCHANGED <<hostInlinks, rank, rounds>>

Crossing(h) ==
    {e \in (DOMAIN ids) \X (DOMAIN ids) :
        e[2] \in out[e[1]] /\ SiteOf[ids[e[2]]] = h /\ SiteOf[ids[e[1]]] # h}

\* finish: cross-site links first, then an even rank to begin with.
Finish ==
    /\ rank = << >> /\ ids # << >>
    /\ hostInlinks' = [h \in DOMAIN hostInlinks |-> hostInlinks[h] + Cardinality(Crossing(h))]
    /\ rank' = [i \in DOMAIN ids |-> Scale \div Len(ids)]
    /\ UNCHANGED <<ids, out, edges, truncated, rounds, recorded>>

\* The sum of the first n of f.
SumOf(f, n) ==
    LET sofar[i \in 0 .. n] == IF i = 0 THEN 0 ELSE sofar[i - 1] + f[i]
    IN  sofar[n]
OverNodes(f) == SumOf(f, Len(ids))

\* What a page without links leaves to all, and one with links to each of them.
Left(i) == IF out[i] = {} THEN rank[i] ELSE 0
Share(i) == IF out[i] = {} THEN 0
            ELSE (Damping * rank[i]) \div (100 * Cardinality(out[i]))

\* (mutant: pages without links keep nothing for the others)
NoSpread == 0
Spread == (Damping * OverNodes([i \in DOMAIN ids |-> Left(i)])) \div (100 * Len(ids))

\* One round of page_rank.
Propagate ==
    /\ rank # << >> /\ rounds < Iterations
    /\ rank' = [j \in DOMAIN ids |->
          ((100 - Damping) * Scale) \div (100 * Len(ids))
          + OverNodes([i \in DOMAIN ids |-> IF j \in out[i] THEN Share(i) ELSE 0])
          + Spread]
    /\ rounds' = rounds + 1
    /\ UNCHANGED <<ids, out, edges, truncated, hostInlinks, recorded>>

GraphNext ==
    \/ \E url \in PageURL, n \in 0 .. MaxLinks : \E links \in [1 .. n -> PageURL] :
          RecordPage(url, links)
    \/ Finish \/ Propagate

GraphSpec == GraphInit /\ [][GraphNext]_graphVars

-----------------------------------------------------------------------------
\* What a page linked to when it was last recorded.
LastLinks(url) ==
    LET calls == {k \in DOMAIN recorded : recorded[k].url = url}
    IN  IF calls = {} THEN {}
        ELSE ToSet(recorded[Max(calls)].links) \ {url}

Targets(i) == {ids[j] : j \in out[i]}

(***************************************************************************)
(* The graph is what was recorded last of every page, or says that it was  *)
(* truncated; its counter and its bounds hold (a page recorded may add     *)
(* itself to a full graph, and nothing else), however often pages come     *)
(* again; the counts of a host grow by the links from other hosts, each    *)
(* once.  No rank leaks: the ranks sum to one in every round, but for the  *)
(* rounding.                                                               *)
(***************************************************************************)
GraphIsWhole ==
    /\ \A i \in DOMAIN ids :
          /\ Targets(i) \subseteq LastLinks(ids[i])
          /\ ~truncated => Targets(i) = LastLinks(ids[i])
    /\ edges = OverNodes([i \in DOMAIN ids |-> Cardinality(out[i])]) /\ edges <= MaxEdges
    /\ Len(ids) <= MaxNodes + Cardinality({recorded[k].url : k \in DOMAIN recorded})
    /\ rank # << >> =>
          /\ ~truncated => \A h \in DOMAIN hostInlinks :
                hostInlinks[h] = Persisted[h] + Cardinality(
                    {e \in PageURL \X PageURL :
                        e[2] \in LastLinks(e[1]) /\ SiteOf[e[2]] = h /\ SiteOf[e[1]] # h})
          /\ LET mass == OverNodes(rank)
             IN  mass <= Scale /\ mass + (rounds + 1) * (2 * Len(ids) + edges) >= Scale
=============================================================================
