------------------------------ MODULE CrawlLoop ------------------------------
(***************************************************************************)
(* The crawler process (crates/crawler/src/main.rs): one owner task that   *)
(* holds the frontier, the seen-URL filter and the archive writer, and a   *)
(* pool of visits that answer over a channel.  The process is stopped by   *)
(* an interrupt, its page budget or an empty frontier, which seal the      *)
(* archive and save the filter; or by an I/O error or a kill, which do not *)
(* save the filter (a SIGTERM is a kill here: only ctrl_c is handled).     *)
(*                                                                         *)
(* The web is a parameter: what each URL lists, where it lands, and what   *)
(* each host's robots.txt says.  What varies is whether a request works.   *)
(***************************************************************************)
EXTENDS Frontier, SeenUrls

CONSTANTS
    Link,             \* links as pages, sitemaps and seed lists spell them
    Canonical,        \* policy::canonical_url of each, or Unfetchable
    Unfetchable,
    SeedLists,        \* the seed lists a run can be given
    LinksOf,          \* the links a page or a sitemap lists
    Landing,          \* the canonical final URL, after redirects
    SitemapUrls,      \* the URLs that serve a sitemap
    SitemapsOf,       \* the sitemaps a host's robots.txt declares
    DisallowedUrls,   \* what the robots.txt files disallow
    CrawlDelayOf,     \* a host's Crawl-delay, 0 for none
    InScope,          \* URLs CrawlScope::allows
    NotPages,         \* URLs is_probably_page rejects
    DropOffsite,      \* --drop-offsite-redirects
    MaxDepth, Workers, PerHost, MaxPages,     \* the flags of those names
    DefaultDelay,     \* --politeness-delay-ms
    CacheTTL, UnavailableTTL,
    MaxKills          \* bound: how often the process is killed

ASSUME CrawlAssumption ==
    /\ DOMAIN BitsOf = Url
    /\ Unfetchable \notin Url
    /\ Canonical \in [Link -> Url \cup {Unfetchable}]
    /\ SeedLists \subseteq Seq(Link)
    /\ LinksOf \in [Url -> Seq(Link)]
    /\ Landing \in [Url -> Url]
    /\ SitemapsOf \in [Host -> Seq(Link)]
    /\ CrawlDelayOf \in [Host -> Nat]
    /\ DropOffsite \in BOOLEAN
    /\ MaxDepth \in Nat /\ MaxDepth <= Depths /\ 1 <= Depths
    /\ Workers \in Nat \ {0}
    /\ {PerHost, MaxPages, DefaultDelay, CacheTTL, UnavailableTTL, MaxKills} \subseteq Nat

VARIABLES
    robots,       \* CF_ROBOTS: each host's rules and what is left of their ttl
    archive,      \* URLs of the documents in the open and in sealed segments
    pc,           \* where the owner is in its loop
    todo,         \* links the owner is going through
    current,      \* the outcome it is absorbing, or Nothing
    flying,       \* visits under way
    channel,      \* outcomes sent and not yet received
    inFlight, inFlightTotal, shuttingDown, indexed,   \* the owner's variables
    kills         \* bound: kills so far

loopVars == <<robots, archive, pc, todo, current, flying, channel,
              inFlight, inFlightTotal, shuttingDown, indexed, kills>>
vars == <<frontierVars, seenVars, loopVars>>

(***************************************************************************)
(* Rules are a host's real file, allow_all, disallow_all or absent.  An    *)
(* entry of the cache with `left` below zero is stale.                     *)
(***************************************************************************)
Rules  == {"file", "allow_all", "disallow_all"}
Cached == [rules : Rules, left : Nat]
Absent == [rules |-> "none", left |-> 0]

Allows(rules, u) == CASE rules = "file"         -> u \notin DisallowedUrls
                      [] rules = "disallow_all" -> FALSE
                      [] OTHER                  -> TRUE

DelayOf(rules, h) == IF rules = "file" THEN CrawlDelayOf[h] ELSE 0

Visit   == [job : Job, rules : Rules \cup {"none"}, learned : Rules \cup {"none"}]
Outcome == [job : Job, learned : Rules \cup {"none"}, delay : Nat,
            result : {"disallowed", "failed", "visited"}]
Nothing == [result |-> "nothing"]

PCs == {"down", "seeding", "absorb", "defer", "sitemaps", "links", "dispatch",
        "wait", "seal", "save"}

LoopTypeOK ==
    /\ robots \in [Host -> Cached \cup {Absent}]
    /\ archive \in [open : SUBSET Url, sealed : SUBSET Url]
    /\ pc \in PCs
    /\ todo \in Seq(Link)
    /\ current \in Outcome \cup {Nothing}
    /\ flying \in SUBSET Visit
    /\ channel \in Seq(Outcome)
    /\ inFlight \in [Host -> Nat]
    /\ inFlightTotal \in Nat
    /\ shuttingDown \in BOOLEAN
    /\ indexed \in Nat
    /\ kills \in Nat

TypeOK == FrontierTypeOK /\ SeenTypeOK /\ LoopTypeOK

NoVisits == [h \in Host |-> 0]

Init ==
    /\ FrontierInit
    /\ SeenInit
    /\ robots = [h \in Host |-> Absent]
    /\ archive = [open |-> {}, sealed |-> {}]
    /\ pc = "down"
    /\ todo = << >>
    /\ current = Nothing
    /\ flying = {}
    /\ channel = << >>
    /\ inFlight = NoVisits
    /\ inFlightTotal = 0
    /\ shuttingDown = FALSE
    /\ indexed = 0
    /\ kills = 0

-----------------------------------------------------------------------------
(***************************************************************************)
(* Starting: open the frontier and the filter, then go through the seeds.  *)
(* The seeds pass canonicalisation and the filter, not the scope.          *)
(***************************************************************************)
Start ==
    /\ pc = "down"
    /\ OpenFrontier
    /\ OpenSeen
    /\ todo' \in SeedLists
    /\ pc' = "seeding"
    /\ indexed' = 0
    /\ shuttingDown' = FALSE
    /\ UNCHANGED <<robots, archive, current, flying, channel, inFlight,
                   inFlightTotal, kills>>

\* check_and_insert, and push if it was new.
Enqueue(u, depth) == Insert(u) /\ Push(u, depth)

\* The next of the seeds, sitemaps or links, under the guard that admits it.
TakeLink(admitted, depth) ==
    /\ todo # << >>
    /\ LET u == Canonical[Head(todo)]
       IN  IF u \in admitted /\ IsNew(u)
           THEN Enqueue(u, depth)
           ELSE UNCHANGED <<frontierVars, seenVars>>
    /\ todo' = Tail(todo)
    /\ UNCHANGED <<robots, archive, pc, current, flying, channel, inFlight,
                   inFlightTotal, shuttingDown, indexed, kills>>

Schedulable == (Url \cap InScope) \ NotPages

TakeSeed    == pc = "seeding"  /\ TakeLink(Url, 0)
TakeSitemap == pc = "sitemaps" /\ TakeLink(Schedulable, 0)

\* A page's links are one deeper than the page; a sitemap's are SITEMAP_DEPTH.
SitemapDepth == 1

LinkDepth(o) ==
    IF Landing[o.job.url] \in SitemapUrls THEN SitemapDepth ELSE o.job.depth + 1

TakePageLink == pc = "links" /\ TakeLink(Schedulable, LinkDepth(current))

\* The end of the seeds, or of one outcome: back to the top of the loop.
EndOfList ==
    /\ pc \in {"seeding", "links"}
    /\ todo = << >>
    /\ pc' = "absorb"
    /\ current' = Nothing
    /\ UNCHANGED <<frontierVars, seenVars, robots, archive, todo, flying,
                   channel, inFlight, inFlightTotal, shuttingDown, indexed,
                   kills>>

-----------------------------------------------------------------------------
(***************************************************************************)
(* A visit.  Without cached rules it fetches robots.txt first: the file, a *)
(* 404, or no answer, which disallows everything for a while.  Then, with  *)
(* no pause, it fetches the page, if the rules allow it.                   *)
(***************************************************************************)
Learned(v, answer) == [job |-> v.job, rules |-> answer, learned |-> answer]

FetchRobots(v) ==
    /\ v \in flying
    /\ v.rules = "none"
    /\ \E answer \in Rules : flying' = (flying \ {v}) \cup {Learned(v, answer)}
    /\ UNCHANGED <<frontierVars, seenVars, robots, archive, pc, todo, current,
                   channel, inFlight, inFlightTotal, shuttingDown, indexed,
                   kills>>

Answer(v, works) ==
    [job     |-> v.job,
     learned |-> v.learned,
     delay   |-> DelayOf(v.rules, HostOf[v.job.url]),
     result  |-> IF ~Allows(v.rules, v.job.url) THEN "disallowed"
                 ELSE IF works THEN "visited" ELSE "failed"]

Finish(v) ==
    /\ v \in flying
    /\ v.rules # "none"
    /\ \E works \in BOOLEAN : channel' = Append(channel, Answer(v, works))
    /\ flying' = flying \ {v}
    /\ UNCHANGED <<frontierVars, seenVars, robots, archive, pc, todo, current,
                   inFlight, inFlightTotal, shuttingDown, indexed, kills>>

-----------------------------------------------------------------------------
(***************************************************************************)
(* Absorbing an outcome: bookkeep and cache the rules, then open the       *)
(* host's politeness window, which is another write, then go through the   *)
(* sitemaps robots.txt declared.  The channel is read at the top of the    *)
(* loop and by the select at its end.                                      *)
(***************************************************************************)
TtlOf(learned) == IF learned = "disallow_all" THEN UnavailableTTL ELSE CacheTTL

\* (mutant: the total is forgotten)
BookkeepHostOnly(h) ==
    /\ inFlight' = [inFlight EXCEPT ![h] = IF @ > 0 THEN @ - 1 ELSE 0]
    /\ UNCHANGED inFlightTotal

Bookkeep(h) ==
    /\ inFlightTotal' = IF inFlightTotal > 0 THEN inFlightTotal - 1 ELSE 0
    /\ inFlight' = [inFlight EXCEPT ![h] = IF @ > 0 THEN @ - 1 ELSE 0]

Receive ==
    /\ pc \in {"absorb", "wait"}
    /\ pc = "wait" => ~(inFlightTotal = 0 /\ ~shuttingDown)
    /\ channel # << >>
    /\ LET o == Head(channel)
           h == HostOf[o.job.url]
       IN  /\ Bookkeep(h)
           /\ robots' = IF o.learned = "none" THEN robots
                        ELSE [robots EXCEPT ![h] = [rules |-> o.learned,
                                                    left  |-> TtlOf(o.learned)]]
           /\ current' = o
    /\ channel' = Tail(channel)
    /\ pc' = "defer"
    /\ UNCHANGED <<frontierVars, seenVars, archive, todo, flying, shuttingDown,
                   indexed, kills>>

Defer ==
    /\ pc = "defer"
    /\ LET h == HostOf[current.job.url]
       IN  /\ DeferHost(h, PolitenessDelay(DefaultDelay, current.delay))
           /\ todo' = IF current.learned = "file" THEN SitemapsOf[h] ELSE << >>
    /\ pc' = "sitemaps"
    /\ UNCHANGED <<seenVars, robots, archive, current, flying, channel,
                   inFlight, inFlightTotal, shuttingDown, indexed, kills>>

(***************************************************************************)
(* The result.  A redirect out of scope is dropped only on request.  A     *)
(* sitemap has links and no document; a page is written to the archive,    *)
(* which may seal the segment it is in, and its links are followed if it   *)
(* is not too deep.                                                        *)
(***************************************************************************)
Offsite(o) == Landing[o.job.url] \notin InScope

Kept(o) == o.result = "visited" /\ ~(Offsite(o) /\ DropOffsite)

IsPage(o) == Kept(o) /\ Landing[o.job.url] \notin SitemapUrls

WritePage(u) ==
    archive' \in {[archive EXCEPT !.open = @ \cup {u}],
                  [open |-> {}, sealed |-> archive.sealed \cup archive.open \cup {u}]}

\* (mutant: off by one)
TooDeepToFollow(o) == o.job.depth > MaxDepth

TooDeep(o) == o.job.depth >= MaxDepth

Conclude ==
    /\ pc = "sitemaps"
    /\ todo = << >>
    /\ LET o == current
           u == Landing[o.job.url]
       IN  \/ /\ ~Kept(o)
              /\ UNCHANGED <<archive, indexed, todo>>
           \/ /\ Kept(o) /\ ~IsPage(o)
              /\ todo' = LinksOf[u]
              /\ UNCHANGED <<archive, indexed>>
           \/ /\ IsPage(o)
              /\ WritePage(u)
              /\ indexed' = indexed + 1
              /\ todo' = IF TooDeep(o) THEN << >> ELSE LinksOf[u]
    /\ pc' = "links"
    /\ UNCHANGED <<frontierVars, seenVars, robots, current, flying, channel,
                   inFlight, inFlightTotal, shuttingDown, kills>>

-----------------------------------------------------------------------------
\* The channel is empty: notice the page budget, and stop once all is in.
Decide ==
    /\ pc = "absorb"
    /\ channel = << >>
    /\ shuttingDown' = (shuttingDown \/ (MaxPages > 0 /\ indexed >= MaxPages))
    /\ pc' = IF shuttingDown' /\ inFlightTotal = 0 THEN "seal" ELSE "dispatch"
    /\ UNCHANGED <<frontierVars, seenVars, robots, archive, todo, current,
                   flying, channel, inFlight, inFlightTotal, indexed, kills>>

\* (mutant: off by one)
OverSaturated == {h \in Host : inFlight[h] > PerHost}

Saturated == {h \in Host : inFlight[h] > 0 /\ inFlight[h] >= PerHost}

\* (mutant: a shutdown does not stop the dispatch)
HasWorker == inFlightTotal < Workers

HasRoom == ~shuttingDown /\ inFlightTotal < Workers

\* Pop one job and spawn its visit with the rules cached for the host.
Dispatch ==
    /\ pc = "dispatch"
    /\ HasRoom
    /\ Ready(Saturated) # {}
    /\ LET e == NextJob(Saturated)
           h == HostOf[e.url]
       IN  /\ Forget(e)
           /\ flying' = flying \cup {[job     |-> e, rules |-> robots[h].rules,
                                      learned |-> "none"]}
           /\ inFlight' = [inFlight EXCEPT ![h] = @ + 1]
    /\ inFlightTotal' = inFlightTotal + 1
    /\ UNCHANGED <<seenVars, robots, archive, pc, todo, current, channel,
                   shuttingDown, indexed, kills>>

EndDispatch ==
    /\ pc = "dispatch"
    /\ ~HasRoom \/ Ready(Saturated) = {}
    /\ pc' = "wait"
    /\ UNCHANGED <<frontierVars, seenVars, robots, archive, todo, current,
                   flying, channel, inFlight, inFlightTotal, shuttingDown,
                   indexed, kills>>

\* (mutant: outstanding visits are not looked at)
NotStopping == ~shuttingDown

Idle == inFlightTotal = 0 /\ ~shuttingDown

\* Nothing outstanding and nothing pending: the crawl is over.
Drained ==
    /\ pc = "wait"
    /\ Idle /\ frontier.pending = 0
    /\ pc' = "seal"
    /\ UNCHANGED <<frontierVars, seenVars, robots, archive, todo, current,
                   flying, channel, inFlight, inFlightTotal, shuttingDown,
                   indexed, kills>>

\* The select wakes up: a 200 ms sleep, or the statistics timer.
WakeUp ==
    /\ pc = "wait"
    /\ ~(Idle /\ frontier.pending = 0)
    /\ pc' = "absorb"
    /\ UNCHANGED <<frontierVars, seenVars, robots, archive, todo, current,
                   flying, channel, inFlight, inFlightTotal, shuttingDown,
                   indexed, kills>>

\* Ctrl-C reaches the select.
Interrupt ==
    /\ pc = "wait"
    /\ ~shuttingDown
    /\ ~(Idle /\ frontier.pending = 0)
    /\ shuttingDown' = TRUE
    /\ pc' = "absorb"
    /\ UNCHANGED <<frontierVars, seenVars, robots, archive, todo, current,
                   flying, channel, inFlight, inFlightTotal, indexed, kills>>

-----------------------------------------------------------------------------
\* seal_segment, on seal() or when the writer is dropped.
SealedArchive == [open |-> {}, sealed |-> archive.sealed \cup archive.open]

\* The orderly end: archive.seal(), then seen.save().
Seal ==
    /\ pc = "seal"
    /\ archive' = SealedArchive
    /\ pc' = "save"
    /\ UNCHANGED <<frontierVars, seenVars, robots, todo, current, flying,
                   channel, inFlight, inFlightTotal, shuttingDown, indexed,
                   kills>>

\* (mutant: the filter stays in memory)
SaveForgotten ==
    /\ pc = "save"
    /\ pc' = "down"
    /\ UNCHANGED <<frontierVars, seenVars, robots, archive, todo, current,
                   flying, channel, inFlight, inFlightTotal, shuttingDown,
                   indexed, kills>>

Save ==
    /\ pc = "save"
    /\ SaveSeen
    /\ pc' = "down"
    /\ UNCHANGED <<frontierVars, robots, archive, todo, current, flying,
                   channel, inFlight, inFlightTotal, shuttingDown, indexed,
                   kills>>

(***************************************************************************)
(* The disorderly ends; in neither is the filter saved.  A killed process  *)
(* leaves its open segment behind, which nothing ever seals.  An I/O error *)
(* returns from run, and dropping the archive writer seals its segment.    *)
(***************************************************************************)
Gone ==
    /\ pc # "down"
    /\ kills < MaxKills
    /\ kills' = kills + 1
    /\ pc' = "down"
    /\ todo' = << >>
    /\ current' = Nothing
    /\ flying' = {}
    /\ channel' = << >>
    /\ inFlight' = NoVisits
    /\ inFlightTotal' = 0
    /\ UNCHANGED <<frontierVars, seenVars, robots, shuttingDown, indexed>>

Kill == Gone /\ archive' = [archive EXCEPT !.open = {}]

IoError == Gone /\ archive' = SealedArchive

\* Time passes, over the windows and over the lifetimes in the rules cache.
Age(c) == IF c = Absent THEN c
          ELSE IF c.left = 0 THEN Absent ELSE [c EXCEPT !.left = @ - 1]

TimePasses ==
    /\ WindowsPass
    /\ robots' = [h \in Host |-> Age(robots[h])]
    /\ UNCHANGED <<queued, meta, frontier, seenVars, archive, pc, todo,
                   current, flying, channel, inFlight, inFlightTotal,
                   shuttingDown, indexed, kills>>

Tick == (\E h \in Host : window[h] > 0 \/ robots[h] # Absent) /\ TimePasses

-----------------------------------------------------------------------------
Owner ==
    \/ TakeSeed \/ TakeSitemap \/ TakePageLink \/ EndOfList
    \/ Receive \/ Defer \/ Conclude \/ Decide
    \/ Dispatch \/ EndDispatch \/ Drained \/ WakeUp
    \/ Seal \/ Save

Next ==
    \/ Start
    \/ Owner
    \/ \E v \in flying : FetchRobots(v) \/ Finish(v)
    \/ Interrupt
    \/ Kill \/ IoError
    \/ Tick

Spec == Init /\ [][Next]_vars
-----------------------------------------------------------------------------
(***************************************************************************)
(* Properties.                                                             *)
(***************************************************************************)
ChannelJobs == {o.job : o \in Range(channel)}

Outstanding == {v.job : v \in flying} \cup ChannelJobs

\* The jobs whose visit started and whose outcome is not fully absorbed.
UnderWay == Outstanding \cup (IF current = Nothing THEN {} ELSE {current.job})

AtHost(jobs, h) == {j \in jobs : HostOf[j.url] = h}

(***************************************************************************)
(* in_flight and in_flight_total count the visits that were spawned and    *)
(* not yet booked, per host and overall, and stay within the two           *)
(* concurrency limits.  A missed or doubled bookkeep would stall the crawl *)
(* or break the limits.                                                    *)
(***************************************************************************)
InFlightIsExact ==
    /\ \A h \in Host : inFlight[h] = Cardinality(AtHost(Outstanding, h))
    /\ inFlightTotal = Cardinality(Outstanding)
    /\ Cardinality(Outstanding) = Cardinality(flying) + Len(channel)
    /\ inFlightTotal <= Workers
    /\ \A h \in Host : inFlight[h] <= 1 \/ inFlight[h] <= PerHost

(***************************************************************************)
(* At every instant a kill could leave behind, the counters on disk are    *)
(* the numbers of rows, and a key is given out once: push would silently   *)
(* replace the job under a key still in use.  Memory agrees while the      *)
(* process runs.                                                           *)
(***************************************************************************)
FrontierIsExact ==
    /\ meta.pending = Cardinality(queued)
    /\ meta.hosts = Cardinality(Known)
    /\ pc # "down" => frontier = meta
    /\ \A d, e \in queued \cup UnderWay :
          d.seq <= meta.sequence /\ (d.seq = e.seq => d = e)

(***************************************************************************)
(* The loop ends with no answer outstanding, and, when neither an          *)
(* interrupt nor the page budget asked for it, with an empty frontier.     *)
(* --max-pages is overshot by fewer pages than there are workers: by the   *)
(* answers that were under way when it was reached.                        *)
(***************************************************************************)
EndsComplete ==
    pc \in {"seal", "save"} =>
        /\ flying = {} /\ channel = << >> /\ current = Nothing
        /\ ~shuttingDown => queued = {}
        /\ MaxPages > 0 => indexed < MaxPages + Workers

(***************************************************************************)
(* The next round spends its budget on what earlier ones discovered        *)
(* "instead of re-fetching what is already indexed": no visit is spawned   *)
(* for a page that a sealed segment holds.                                 *)
(***************************************************************************)
NoRefetch ==
    [][\A v \in flying' \ flying : Landing[v.job.url] \notin archive.sealed]_vars

(***************************************************************************)
(* The life of a URL, for the refinement of CrawlOnce: a URL with more     *)
(* than one copy at work has no status there.                              *)
(***************************************************************************)
Copies(u) == {j \in queued \cup UnderWay : j.url = u}

Status == [u \in Url |->
    IF Cardinality(Copies(u)) > 1         THEN "twice"
    ELSE IF Copies(u) \cap queued # {}   THEN "queued"
    ELSE IF Copies(u) # {}               THEN "flying"
    ELSE IF MayContain(seen, u)            THEN "done"
                                         ELSE "new"]

\* The URLs whose bits other URLs can set between them.
Aliasing == {u \in Url : BitsOf[u] \subseteq UNION {BitsOf[v] : v \in Url \ {u}}}

Once == INSTANCE CrawlOnce WITH status <- Status, MayAlias <- Aliasing

(***************************************************************************)
(* As long as every run ends in good order, the crawl is CrawlOnce: over   *)
(* all runs, a URL is queued once, fetched once, and dropped unseen only   *)
(* if the filter can mistake it for others.                                *)
(***************************************************************************)
EachURLOnce == Once!Spec

-----------------------------------------------------------------------------
(***************************************************************************)
(* The inductive invariant behind the safety properties.                   *)
(***************************************************************************)

\* The owner holds an outcome exactly while it goes through it, and follows
\* the links of a page only to a depth a job can have.
OwnerIsInOrder ==
    /\ IF pc \in {"defer", "sitemaps", "links"} THEN current \in Outcome
                                                ELSE current = Nothing
    /\ pc = "links" /\ todo # << >> => LinkDepth(current) \in 0 .. Depths
    /\ pc = "down" => flying = {} /\ channel = << >>

\* A job is in one place: in the queue, in one visit, in one answer on the
\* channel, or with the owner.
JobsAreApart ==
    /\ IsFiniteSet(queued) /\ IsFiniteSet(flying)
    /\ \A v, w \in flying : v.job = w.job => v = w
    /\ \A i, j \in DOMAIN channel : channel[i].job = channel[j].job => i = j
    /\ \A v \in flying : v.job \notin ChannelJobs
    /\ current # Nothing => current.job \notin Outstanding
    /\ queued \cap UnderWay = {}

\* The host of a job has its row.
HostsAreKnown == \A j \in queued \cup UnderWay : HostOf[j.url] \in Known

\* The pages written and those still to come of visits already spawned.
BudgetIsKept ==
    MaxPages > 0 =>
        /\ pc = "dispatch" /\ ~shuttingDown => indexed < MaxPages
        /\ indexed + inFlightTotal + (IF pc \in {"defer", "sitemaps"} THEN 1 ELSE 0)
               < MaxPages + Workers

IInv ==
    /\ TypeOK
    /\ OwnerIsInOrder
    /\ JobsAreApart
    /\ HostsAreKnown
    /\ BudgetIsKept
    /\ InFlightIsExact
    /\ FrontierIsExact
    /\ EndsComplete

\* Without a kill: a URL at work is at work once, the filter has seen it, every
\* bit of the filter is a bit of a URL it has seen, and its file is current
\* when the process is down.
OneCopyEach ==
    /\ \A d, e \in queued \cup UnderWay : d.url = e.url => d = e
    /\ \A d \in queued \cup UnderWay : MayContain(seen, d.url)
    /\ \A b \in seen : \E u \in Url : b \in BitsOf[u] /\ MayContain(seen, u)
    /\ pc = "down" => bloom = seen

-----------------------------------------------------------------------------
(***************************************************************************)
(* Fairness.  The owner's loop, the visits (every request has a timeout),  *)
(* time, and the restart of the process (Restart=always) go on.  Nothing   *)
(* is assumed of interrupts and kills.                                     *)
(***************************************************************************)
Fairness ==
    /\ WF_vars(Owner)
    /\ WF_vars(Start)
    /\ WF_vars(Tick)
    /\ WF_vars(\E v \in flying : FetchRobots(v) \/ Finish(v))

FairSpec == Spec /\ Fairness

(***************************************************************************)
(* Every URL that is queued is taken and its visit concluded in the end,   *)
(* whatever windows, caps, budgets and interrupts delay it, and a host     *)
(* that sorts late is not starved by those before it.  Concluded is not    *)
(* fetched: a visit that failed, or found robots.txt out of reach and took *)
(* that for a disallow, is concluded too, and its URL stays in the filter. *)
(***************************************************************************)
QueuedIsVisited ==
    \A u \in Url : (\E e \in queued : e.url = u)
                      ~> ~(\E e \in queued \cup UnderWay : e.url = u)

\* An interrupt or a spent budget ends the run, with outstanding visits in.
ShutdownEnds == shuttingDown ~> pc = "down"
=============================================================================
