# MJLsearch in TLA+

MJLsearch is a search engine in four processes: a crawler that archives pages,
an indexer that puts them into a Tantivy index, a read-only API over that index,
and user interfaces over the API. This directory holds TLA+ modules for the parts
whose correctness depends on the order of events, TLC configurations that check
them on small instances, and TLAPS proofs of what matters most.

## 1. The system

| component | state | operations | talks to |
|---|---|---|---|
| frontier (`crawler/frontier.rs`, `db.rs`) | RocksDB: queue by (host, sequence), window of each host, three counters; the counters again in memory | open, push, pop_ready, forget, defer_host | owner loop (calls) |
| seen-URL filter (`crawler/dedup.rs`) | Bloom filter in memory, its file | open, check_and_insert, save | owner loop |
| robots cache (`crawler/robots.rs`) | RocksDB: rules and lifetime of each host | get, put_for; parse and match are pure | owner loop, visits |
| owner loop (`crawler/main.rs`) | in-flight counts, stop flag, statistics, channel | seeds, dispatch, absorb, schedule, budget, interrupt, end | all crawler parts; visits over a channel |
| fetcher, parsers, URL policy | none | fetch with retries; parse; canonicalise, scope | visits |
| archive writer (`crawler/storage.rs`) | open segment, WARC file | write_page, seal, Drop | spool directory (files) |
| spool directory (`common/spool.rs`) | `segment-N.open`, `segment-N.pdoc` | rename, list, remove | crawler writes, indexer removes |
| indexer (`indexer/drain.rs`, `spool.rs`) | staged documents, segment in progress | list, index, commit, retire | index, authority file, timeline |
| link graph, timeline (`indexer/graph.rs`, `history.rs`) | `host-authority.json`, `index-history.json` | record, save | indexer writes, API reads |
| index writer, search engine (`search-core`) | Tantivy index; query cache | add_or_update, commit; search, stats | indexer writes, API reads |
| API (`api/`) | engine handle, file caches, query log, chime stamp | requests | reads files of the others |
| process control (`manage.py`, `crawl_official.sh`, units) | pid files | start, stop, rounds of crawl and drain | all processes |
| UIs, seed generator | none that matters | rendering | API |

The crawler and the indexer share nothing but the spool directory: no lock, only
the order of renames and removals. Inside the crawler, one owner task holds all
mutable state, and visits (tasks that fetch) answer over a channel. RocksDB is
durable at every step; the filter and the open segment are not.

What is hard here:

* **crashes between two durable steps.** commit / retire / timeline in the
  indexer; frontier / filter / archive in the crawler;
* **numbering.** Segment numbers come from what is in the directory while the
  other process removes from it; frontier keys from a persisted sequence;
* **answers in any order** while the dispatcher counts and limits them;
* **per-host windows and a cache of rules** written when an answer is absorbed
  and read when the next visit starts;
* **progress**, although hosts wait, pops look at a bounded number of hosts,
  and processes are stopped and started again;
* **commits while a query runs.** The index, its statistics and the JSON files
  beside it change between any two steps of a reader;
* **texts written by anybody.** robots.txt, pages, entities and sitemaps arrive
  cut, damaged and in any order, and are read in one pass with a few variables.

`PROJECT.json` lists each hazard at its line, with the properties about it.

What makes each part correct: the *spool* loses nothing, and its numbers follow
crawl order; the *indexer* shows every document, never an older copy over a newer
one, and its side files agree with the index; the *frontier* counts exactly and
never reuses a key; the *loop* books every visit once, ends only when all is in
and keeps a host's visits apart; the *crawl* treats every URL once; a *fetch*
ends within its attempts with a whole body or none; the *parsers* find what the
text says as a whole; the *archive* has every page the indexer gets; the *graph*
holds what was recorded last; an *answer* is that of one state of the index, none
older than the question, cached or not; a *state file* is never read stale; the
*chime* plays once per start.

## 2. Modules

| module | what it is |
|---|---|
| `SpoolDir` | files of the spool directory: frames, torn frames, `.open` and `.pdoc` |
| `ArchiveWriter` | the crawler's side: start, write, roll, seal, failed writes, Drop, kill |
| `IndexDrain` | the indexer: list, authority with its graph limits, index, commit, retire, timeline, crash |
| `SpoolPipeline` | both over one directory; the properties and the inductive invariant |
| `SpoolHandoff` | abstract: a queue with at-least-once delivery |
| `SpoolPipelineProofs` | theorems about `SpoolPipeline` |
| `Frontier` | queue, windows and counters in RocksDB |
| `SeenUrls` | Bloom filter in memory and on file |
| `CrawlLoop` | owner loop, visits, channel, robots cache, stop, kill; uses both |
| `CrawlOnce` | abstract: each URL is queued once, taken, done |
| `CrawlPoliteness` | `CrawlLoop` with a history variable: what is left of the delay since a host was last asked |
| `SearchEngine` | a worker's index handle, query cache and statistics beside commits and merges |
| `WarcArchive` | WARC files: numbering, rolling, order with the segments, kills and every error return |
| `Fetcher` | one fetch: attempts, judgement, body, unpacking, backoff, Retry-After |
| `RobotsFile`, `GlobMatch` | robots.txt by lines, choice of group and rule; the pattern matcher by turns of its loop |
| `PageParser`, `Entities`, `SitemapScan` | handlers over a page and link resolution; entity decoding; sitemap records |
| `UrlPolicy` | canonical URLs, scope from flags, what is scheduled |
| `LinkGraph` | recording with limits, cross-site counts, rank |
| `StateFile` | a JSON file replaced by rename and the API's cache of its parse |
| `StartChime` | stamp, lock and claim of the start-up sound |
| `SearchEngineProofs`, `FetcherProofs` | theorems about those modules |
| `CrawlProofs` | theorems about `CrawlLoop` and `CrawlPoliteness` |
| `RobotsProofs` | theorems about `RobotsFile`, `GlobMatch` and `SitemapScan` |
| `PageProofs` | theorems about `PageParser`, `UrlPolicy` and `Entities` |
| `PartsProofs` | theorems about `WarcArchive`, `StateFile`, `StartChime` and `LinkGraph` |
| `LoopTheorems` | lemmas: induction said of a set, bounds, the states of a loop |
| `MCSpoolPipeline`, `MCCrawlLoop`, `MCCrawlPoliteness`, `MCSearchEngine`, `MCUrlPolicy`, `MCParts` | instances for TLC |

Operators commented `(mutant: ...)` are the plausible mistakes each property is
tested against; nothing in the specifications uses them.

### The spool pipeline

A document is its URL and a version, the number of the fetch. `spool` maps every
segment number to its file. A crawler lists the directory for its next number
(`StartCrawl`) and then creates that file (`OpenSegment`); the indexer may remove
others in between. With its segment open, `WritePage`
appends a frame and seals the segment when it is full; `WriteFails` leaves a torn
frame, which `Drop` seals all the same; `KillCrawler` leaves an `.open` orphan
that nothing ever reads. The indexer lists the sealed files once per batch
(`ListReady`), reads all of them for link counts (`BuildAuthority`) and goes
through them in order: `IndexDocument` one frame at a time with a commit every
`CommitDocs`, `CommitSegment`, `Retire` (remove or move to the archive), and
`RecordHistory` after the batch. `CrashDrain` drops whatever was not committed.
`counted` holds the URLs all of whose links the saved counts include, and
`missed`, a history variable, those that a pass lost links of and logged that:
with more than `GraphRoom` URLs the graph may reach `--graph-max-nodes` or
`--graph-max-edges`, and any of them may lose links; or the counts are not saved.
`LinkGraph` has the limits link by link.

### The crawler

The owner's position in its loop is `pc`. `TakeSeed`, `TakeSitemap` and
`TakePageLink` put one link through schedule each, because each push is a write
of its own that a kill can follow. Absorb is `Receive` (bookkeep, cache the rules),
`Defer` (open the window: another write), the sitemaps, and `Conclude` (drop, read
a sitemap, or archive a page). `Decide` is the test between absorbing and
dispatching. `Dispatch` pops one job and spawns its visit with the rules the cache
holds. A visit that got none asks for robots.txt (`FetchRobots`: the file, a 404 or
no answer); `Finish` is its answer, with every outcome of the page fetch.
`Drained`, `WakeUp` and `Interrupt` are the select;
`Seal` and `Save` the orderly end. `Kill` is SIGKILL or SIGTERM (only Ctrl-C is
handled); `IoError` is `?` in run, where Drop still seals the archive.

Abstractions: the web is a set of constants (what each URL lists, where it
lands, what robots.txt disallows and declares). A link is a spelling and
`Canonical` its URL. Hosts are numbers in the order of their keys. Time is
relative: a window or a lifetime is what is left of it, and `Tick` takes one unit
off all of them, also while no process runs. The filter is one layer of bits.

### The search engine

A generation of the index is a set of rows and a place in `log`; `Commit`
and `Merge` of the indexer append to it at any moment. A worker has a handle
(`ENGINE`), a reader at some generation and a cache; python_api.rs releases the
interpreter lock nowhere, so each worker is in at most one call, whose steps
(reload, fingerprint, lookup, parse and collect, store) the indexer's fall
between. `open_index` may be called again and on directories with other schemas. A
schema is a sequence, since a Field handle is a position in it: an index that has our
fields in other places is accepted (`IsCompatible`), and a query through handles that
are out of place (`InPlace`) is a `Misread`, of whatever Tantivy makes of it; the
writer leaves any rows there. Moka drops entries when it likes, so `Remember` keeps
any part of the cache: `MaxEntries` bounds the model and is not `query_cache_entries`.
A page is its hits, its total and whether the query was widened. Scores are one
fixed order of the rows: ties and text ranking are Tantivy's.

### The parts

`MCParts` composes eleven modules that share no state. `machine` says which of
them runs; the others rest, so their state spaces add up instead of multiplying,
and every invariant is evaluated in all of them. Each module is also a
specification of its own.

* `WarcArchive`: `files` maps a number to its bytes and pages. `Write` puts the
  record, then the frame. `OpenFails`, `WriteFails`, `RollFails`, `FrameFails` and
  `SealFails` are the error returns: Drop then seals and finishes, and each of the
  two may fail unseen. A file that was killed or not finished keeps any prefix of its
  pages and is `cut`.
* `Fetcher`: `phase` is where `fetch_inner` and `attempt` stand; the server picks
  from `Answers` at each request.
* `RobotsFile`, `PageParser`, `Entities`, `SitemapScan`: one action per field,
  handler, symbol or record. `lines`, `tokens`, `units` and `document` keep the text,
  against which the invariants compare what the one-pass code has gathered.
  lol_html and the url crate are external: the first calls an end-tag handler for
  the element the tag closes and drops elements left open inside it silently.
* `GlobMatch`: the loop's cursors. `Covers` says what a pattern means without a
  matcher: there is a way to cut the path where each character of the pattern ends.
* `UrlPolicy`: the flags, then one link of a page at a time through `schedule`; the
  filter is exact here. `mark` tells a bare `?` from no query: it stays unless the
  query was written anew.
* `LinkGraph`: `RecordPage` is a whole `record`, `Finish` the counts and the first
  rank, `Propagate` a round. Rank is an integer in units of 1/Scale.
* `StateFile`: versions of a file under a temporary name and under its own;
  readers step through stat, lookup, read and store.
* `StartChime`: workers step through look, lock, look again, write the stamp, play
  or release; they may be killed anywhere; time passes between steps, but less than a window between
  a claim and its sound, which takes milliseconds.

## 3. Runs

| run | question | answer |
|---|---|---|
| `pipeline_safety` | crawler killed, writes failing, indexer crashing, commits inside a segment, a full link graph: is anything lost, out of order or shown uncounted without a word? | no; and the directory implements `SpoolHandoff` |
| `pipeline_progress` | one commit per segment, the indexer restarted: is everything shown in the end, and never an older copy after a newer? | yes, unless a segment was sealed torn |
| `crawl_progress` | orderly runs, restarted: each URL once? all queued ones visited? do shutdowns end? | yes; only a URL the filter can mistake is dropped unseen |
| `crawl_killed` | a kill or I/O error at any step: counts, keys, limits, budget? | exact; the budget is overshot by less than the workers |
| `polite_serial` | `--per-host-concurrency 1`: are the visits of a host a delay apart? | yes, from the last request of one to the start of the next; no window is cut short, no rules lost |
| `search` | commits and merges inside every call, evictions, restarts, foreign schemas: is an answer ever stale, cut or mixed? | no, on an index whose fields stand at our places |
| `parts` | the eleven machines of `MCParts`: do the parsers, the matcher, the policy, the graph, the fetch, the archive, the file cache and the chime do what they should on every small input? | yes, within the exceptions stated in their invariants (below) |
| `pipeline_torn` | can the indexer meet a half-written frame? | yes: a failed write, then Drop seals |
| `crawl_refetch` | does a restart avoid fetching what is indexed? | no: not after a kill |
| `polite_parallel` | is the delay kept with the default of two per host? | no: both start at once |
| `polite_requests` | with one per host, is the delay kept between any two requests? | no: robots.txt and the page follow each other at once |
| `warc_roll` | is a WARC file full when the next is begun? | no: a running total is compared, so after the first roll each record has its own file |

The last five contradict something a comment or a document says; `findings` in
`PROJECT.json` quotes it.

### Divergences

Smaller disagreements met while modelling. The models follow the code; where an
invariant has to make room for one, it says so.

* `spool.rs:81` (indexer): with `--archive-dir`, a second crawl begins numbering
  again at 1 once the spool is empty, and its segments are renamed over those of
  the first in the archive.
* `policy.rs:236`: a crawl that starts with seeds is restricted to their hosts whether
  or not `--stay-on-site` is given, although `main.rs:145-151` says of the flag that
  without it "the crawler wanders off the first page it fetches". `UrlPolicy` follows
  the code, and skips off-site links without either flag.
* `main.rs:691`: at two visits per host (the default), one that read a Crawl-delay and
  one that failed to get robots.txt may both be under way; absorbed last, the second
  replaces the window of the first by the default one, against `main.rs:20-22`.
  `WindowIsNeverCut` is checked and proved for one visit per host; the same formula
  fails at once with two.
* `schema.rs:124`: fields are compared by name and type, and `search.rs:166` serves with
  the handles of its own `build()`, which are positions: an index that has a field before
  ours is accepted and read in the wrong columns, although the comment says that
  both processes refuse to start on a mismatch (`schema.rs:118-123`; the test at
  `schema.rs:293-295` names the danger). In `SearchEngine` this is `Misread`; nothing is
  claimed of what it answers.
* `graph.rs:120`: a graph at its limits drops links; the pass says so in the log, and
  indexes the page all the same. `CountedBeforeVisible` makes room for that.
* `main.rs:708`: a URL that robots.txt forbids or that failed is done: it stays in the
  filter and is not queued again, although a robots.txt that could not be read
  counts only for minutes. `QueuedIsVisited` says visited, not fetched.
* `fetcher.rs`: the client follows redirects within a fetch without the delay, also
  on the same host; `CrawlPoliteness` counts a fetch as one request.
* `drain.rs:237`: host link counts are saved before the documents are committed;
  after a crash between the two the same links are counted again.
* `drain.rs:172`: the timeline is written after the commit; after a crash between
  the two its buckets never again add up to the total.
* `main.rs:748`: the URLs of a sitemap enter the queue at depth 1, even under
  `--max-depth 0`.
* `robots.rs:143`: once the pattern is exhausted the matcher does not go back to
  its star, so `/*a$` does not match `/aa`, although `$` is said to mean the whole
  path (`robots.rs:121-123`). `GlobIsSound` excludes a pattern with both.
* `robots.rs:74` says that `Allow` wins a tie; `robots.rs:98` keeps the `Disallow`.
  `RulesAreTheFiles` follows the code.
* `policy.rs:118`: a query is written anew only when a parameter was removed, so two
  spellings of a parameter are one URL with a campaign parameter beside them and
  two without. `OneDocumentOneURL` compares URLs whose parameters are spelled as
  the serializer spells them.
* `sitemap.rs:31`: an unclosed `<loc>` takes the next record with it
  (`SitemapIsRead` grants it that one).
* `parser.rs:528`: a relative `<base>` leaves a page without links, and of several
  bases the last counts, not the first.
* `sound.py`: in a directory that cannot be written every worker plays.

### Bounds and why they are enough

*Pipeline.* Two URLs, up to three pages, segments of two documents, three
segment numbers: a URL can be fetched again in a later segment, in the same
segment, and across a kill; a segment can be full, partial, torn or orphaned; and
numbering can start again. `GraphRoom` is one in `pipeline_safety`: a pass over both
URLs may lose links of either, both or none. One kill, one failed write, one crash and one failed
side file fall at every point.

*Crawl.* Two hosts, three pages in a link cycle, one sitemap, two workers, two or
one per host. The cycle offers every URL to the filter several times; the first
host gets two jobs at once (page and sitemap), the second sorts after it; one
redirect leaves the scope; one link is a second spelling, one cannot be fetched.
`MaxHosts = 1` makes the limit of pop_ready bite at once. A budget of one page
makes every run stop with work left. Delays of one and two units, and lifetimes
from zero to three, make windows and lifetimes end in either order. `MaxKills` is
the only counter bound: the number of pushes is finite without it.

*Search.* Two URLs, one of them in two versions, three generations, a cache of two
pages, queries that match all words, only some, or do not parse, pages that begin
at or after the first hit, limit zero; indexes with fewer
fields, with fields of another type, and with one more before or behind ours. An eviction, a commit in every gap of a
call and a merge that changes the map but not the rows all occur. Workers share
only the index, so one of them beside the indexer shows what any does.

*Parts.* Texts of four lines, tokens or units and three sitemap records: two
groups with rules, boilerplate in boilerplate with an end tag too many, an
encoded ampersand before what looks like a reference, a cut in every place. Patterns
and paths of up to three characters with stars anywhere, so the matcher goes back
twice. Three attempts at the server, bodies below, at and above the cap, gzip that
is whole, truncated or too large. Backoff is compared with its closed form over
every base, cap and attempt of four-bit integers, beyond the width. Four pages in
at most five WARC files with two kills or errors. Three URLs on two sites in a
graph whose node and edge limits both bite, recorded twice each at most; three
rounds of rank. Two readers, four versions; three workers over two windows.

Symmetry is used over URLs in `pipeline_safety` only, where no URL is special and
nothing temporal but action properties is checked. Deadlock checking is off only
in the pipeline runs, where the bounded crawl ends, and in `parts`, whose machines
finish their input.

### Fairness

*Indexer* (`pipeline_progress`): weak fairness on its own steps, start included.
The unit of the crawl rounds has `Restart=always`, and every round of
`crawl_official.sh` ends in a drain (`drain_slice`). Nothing is assumed of the
crawler or of crashes beyond their bound.

*Crawler* (`crawl_progress`): weak fairness on the owner's steps, on visits
(every request has a timeout and a bounded number of retries), on time, and on
starting again. Nothing is assumed of interrupts: the properties hold if one
arrives at every chance.

*Fetch* (`parts`): weak fairness on the steps of a call. The client has a timeout
for connecting and for the whole request, and a timer fires; nothing is assumed of
what the server sends.

## 4. Theorems

The theorems hold for every value of the constants that the assumptions named
`...Assumption` admit: any number of URLs, hosts, workers, readers, kills and
crashes, any limits, delays and texts. Further hypotheses are in the table. Each
theorem is about the specification the run of its property checks.

| module | theorem | property, hypotheses |
|---|---|---|
| `SpoolPipelineProofs` | `SpecTypeOK` | type correctness of both processes |
| | `SpecNothingHandedIsLost` | a document of a sealed segment is still there, or the index shows it or a newer copy |
| | `SpecSpoolInCrawlOrder` | numbers follow crawl order; what is left is newer than what was retired |
| | `SpecSealedFilesAreFinal` | a sealed file never changes, its name is not reused while it is there |
| | `SpecImplementsHandoff` | refinement of `SpoolHandoff` |
| | `SpecDrainedIndexIsCurrent` | an empty spool means an index of the newest copies |
| | `SpecTimelineNeverOvercounts` | the timeline never claims more than the index has |
| | `SpecCountedBeforeVisible` | all links of a visible page are counted, unless a pass logged that it lost links |
| | `SpecVisibleNeverRegresses` | no older copy after a newer one; `SegmentDocs <= CommitDocs` |
| `CrawlProofs` | `SpecTypeOK` | type correctness of owner, visits, frontier and filter |
| | `SpecInFlightIsExact` | in-flight counts are exact and within the limits |
| | `SpecFrontierIsExact` | counters are those of the queue, keys are not reused |
| | `SpecEndsComplete` | nothing outstanding when a run saves; overshoot of the budget below the workers |
| | `SpecEachURLOnce` | refinement of `CrawlOnce`; `MaxKills = 0` |
| | `SpecWindowIsNeverCut` | no answer shortens a window; `PerHost <= 1` |
| | `SpecFileOutlivesOutage` | an outage does not replace rules; `PerHost <= 1` |
| | `SpecGapIsKept` | the default delay from the last request of a visit to the start of the next; `PerHost <= 1`, `MaxKills = 0` |
| `SearchEngineProofs` | `SpecAnswerIsCurrent` | an answer, of an index with our fields in place, is that of one generation, none older than the question |
| | `SpecCacheAgrees` | a cached page is what its generation gives; pages of one agree and do not overlap |
| | `SpecStatsAreOneGeneration` | so do the statistics |
| | `SpecHandleIsFinal` | a handle stays on an index with our fields, by name and type; its reader only goes forward |
| `RobotsProofs` | `SpecRulesAreTheFiles` | the rules kept decide every path as the whole file does |
| | `SpecGlobIsSound` | the matcher answers what the pattern means (with the exception above) |
| | `SpecSitemapIsRead` | well-formed records, once and in order, whatever is cut or damaged around them |
| `PageProofs` | `SpecTextIsContent` | no boilerplate in the content; nothing else is lost where tags nest |
| | `SpecLinksAreTheAnchors` | the links are those of the anchors, each once, in their order |
| | `SpecOneDocumentOneURL` | one URL of a document's spellings is queued, links in scope are, canonical forms are stable |
| | `SpecEntitiesDecodeOnce` | a reference is decoded once; white space collapses and keeps the words |
| `PartsProofs` | `SpecArchiveCoversSpool` | what the indexer gets is in the archive, or lost from a cut file |
| | `SpecReadsAreFresh` | no cached read is older than its call |
| | `SpecChimeOnce` | sounds are a window apart |
| | `SpecGraphIsWhole` | links, counter, host counts and limits of the graph; the ranks sum to one but for the rounding |
| `FetcherProofs` | `SpecBodyIsWhole` | a page is a whole body, or an expansion cut at the cap |
| | `SpecStallIsBounded` | attempts and pauses are bounded |
| | `SpecAsksAgainOnlyInTurn` | retries only after a fault of the moment and its pauses; cap below half the range |
| | `SpecBackoffIsExact` | the backoff never wraps; cap below half the range |

### The hypotheses

`SegmentDocs <= CommitDocs`: a segment is limited in MiB and a commit in documents,
(8 and 2,000 by default), so whether a segment fits in one commit depends on the
size of the pages. Where it does not, a replay after a commit inside a segment does show an
older copy for a while; `SpecDrainedIndexIsCurrent` needs no such condition.

`MaxKills = 0`: after a kill, what was neither saved nor archived is fetched again
(`crawl_refetch`). `SpecEachURLOnce` is about orderly runs and any number of them,
interrupted by Ctrl-C or not.

`PerHost <= 1`: the default is two, for which `polite_parallel` shows the delay broken;
windows are cut there too (Divergences).
`SpecGapIsKept` has no kill because a killed visit leaves no window behind.

A cap below half the range: the code's cap is 30 seconds, in milliseconds in 64
bits. Between one half and the whole range the limit of the shift would show.
`FetcherAssumption` has the pause itself, cap and jitter, fit the integers.

What the constants of the parts are is said by their assumptions. `EntityAssumption`
has the units of a text be single symbols and what stands between `&` and `;`,
which without it could mean anything; texts in which a bare `&` stands before units
that spell a reference have two readings and are left out (`Ambiguous`).
`GraphAssumption` has the damping be a percentage and the counts of earlier runs
numbers; `PolicyAssumption` has a URL be its parts (`IsURL`). `DrainAssumption` asks of
`GraphRoom` only that it is a number: the theorems hold for a graph that is always full.

### The arguments

Hardly any of the properties is inductive. Every component has an invariant
(`IInv`, `FetchIInv` ...) whose parts have names, in the module it is about and
checked there by TLC before it was proved; those of the pages, the entities and
the graph speak of functions TLC would have to enumerate, and stand in the modules
of their proofs.

*Pipeline.* Whether a commit covers a segment depends on what was read from it;
whether an older copy stays out of the index depends on the order of everything
before it. `IInv` adds: writes go to the highest number (`WritesAtTheEnd`), versions
lie below the page counter, order within and across segments, retired documents
are older than any in the directory (`RetiredIsOlder`), the indexer's list consists
of the oldest sealed segments (`ListedIsOldest`), what is staged or committed came
from the segment being read (`StagedIsReading`), and what was read is covered by
what a commit would show (`ReadIsCovered`). The crawler's steps only add at the end
(`WriterShape`), so they keep what speaks of the front; the indexer's steps are
taken one action at a time. The one place where arithmetic over file names matters
is `NextSpoolSequenceIsFresh`. The timeline, the link counts and replays have an
invariant each on top of it.

*Crawl.* A job is in one place at a time: queue, visit, channel, owner
(`JobsAreApart`); an answer is with the owner exactly in the two lists it goes
through (`OwnerIsInOrder`); the host of a job has its row (`HostsAreKnown`), which
is what makes `UpdateHost` count right; and pages written plus visits spawned stay
within the budget (`BudgetIsKept`). The lemmas count sets that gain or lose one job.
For the refinement, every step is one of `NoMove`, `Queues`, `Takes` and `LetsGo`;
`OneCopyEach` says that what is queued or under way is seen and is there once,
and that the filter on disk is that of the last orderly end.

*Politeness.* With one visit per host, a host with a visit, or with an answer whose
window is about to open, has no window (`WindowIsOver`), so that replaces nothing; its rules were missing if
the visit fetches robots.txt (`RulesAreMissing`); and what is left of the gap is
covered by the window (`GapIsCovered`).

*Search.* The log of generations only grows, so what was read at one stays true.
`HandlesAreInOrder` says where a reader may stand at each step of a call and
`StampsAreReal` that nothing kept speaks of a generation there is not. That two
cached pages of one generation do not share a hit rests on `Ranked` having distinct
rows, and on one row per URL in every generation (`LogIsInOrder`), which is so where
the writer's fields are in place.

*Robots.* The groups a parser closes are the records of the file that have rules,
in its order, and the open one is the last (`GroupsAreRecords`,
`GroupIsLastRecord`); `NextRecord` says when the next user-agent line begins one. One
more line adds what it says to the record it ends in and to no other (`AppendSays`).
The two loops of `allows` keep the longest pattern so far (`LongestDecides`, by
induction over the list), and the candidate selected is the best agent of the record
that fits best (`BestIsSelected`, `CandidatesFit`). `RobotsAssumption` says that a
pattern of length nought covers nothing, since a path begins with a slash.

*Matcher.* Greed loses nothing: what was consumed is one way to cut the path
(`Reached`) and no way to cut the whole pattern lies further left (`Leftmost`). The
second is why going back to the last star alone is enough.

*Archive.* Pages not yet handed over count as well (`Given`): none is younger than
the last that arrived, the files hold theirs in order, and one that no file holds was
in the lost part of a `cut` file (`FilesSound`). The file being written is the last
and the only open one (`LastIsOpen`). A lemma each says that a record, a new file, a
finish and a cut keep files sound; the error returns are compositions of these.

*Fetch.* Requests and pauses are counted by attempts (`CallIsBounded`), the failure
judged is that of the answer read (`FailureIsOfAnswer`), and the pause slept is the
one for the attempt before (`WaitsInTurn`). `BackoffExact` compares saturation with
the closed form and needs that powers of two exist, are positive and grow:
`NatBySteps` (in `LoopTheorems`) is induction said of a set, from the well-foundedness of `<`, and
`PowerOf2IsDefined` derives from it that the recursive definition has a value.

*Pages.* The skip depth is the number of boilerplate elements on the stack
(`SkipCountsTheOpen`). That a text is in boilerplate is said by levels, counts of
start and end tags: an element is left where its level is back to that of its start.
Below a boilerplate element that stands open every level stays above the one it was
opened at, which gives the first half; where tags nest, the elements on the
stack are those nothing has closed (`OpenIsUnclosed`), which gives the second. The
definition of nesting needs both of its level conditions: with the first alone, TLC
finds a page of nine tokens that counts as nested and loses text. The links are a loop
over the raw links: what it holds after each is what was named so far, without
repetition.

*Policy.* A canonical URL has no parameter left to strip, so stripping it again
changes nothing, and two URLs of one document that are spelled by the serializer
have the same canonical form. What is queued is what the filter has
seen, and every link of `batch` that is wanted has its canonical form there.

*Entities.* What is left to read is always the spelling of the last units, behind
at most the rest of a unit that is no reference (`ReadTo`, `Plain`); since no unit runs
into the next, the loop finds a reference exactly where a unit is one. Collapsing is
compared by place: a character's place is the number of characters and of breaks
between words before it.

*Sitemaps.* The scan rests at a closing tag, and the URLs read are those of the
records before it (`ScanIInv`). `FindFrom` gives the next place of a symbol, so
what lies between two places holds none.

*Graph.* A page's targets are its links that were interned, and they are all of
them unless a limit was met (`Sound`, over the turns of the loop). The counter gains
the new targets and loses the old: sums of numbers, one of them replaced
(`SumReplaced`). A host's count is the size of a set of pairs of nodes, mapped one to
one to pairs of URLs. For the ranks, what every page is given sums to what every
page hands on (`GivenIsHandedOn`, the exchange of two sums), each page loses less
than its number of links to rounding (`ShareIsFair`), and each round at most two units
per page besides: the bounds of a round follow from those of the one before
(`RoundKeepsMass`, `MassIsKept`).

*API files.* Versions under a file's name only ascend and a parse is stored under
the identity taken before the text was read (`ReadAfterStat`). A worker that writes
the stamp holds the lock and saw no recent stamp (`WriterSawNoStamp`), and while a
claim is unused nobody else has one (`ClaimStands`).

## 5. Checked, not proved; not modelled

Only model-checked:

* liveness (`HandedIsEventuallyVisible`, `QueuedIsVisited`, `ShutdownEnds`,
  `FetchReturns`): fairness and ENABLED are beyond the prover;
* the five disagreements with a run, which are counterexamples.

Not modelled:

* telling sitemaps from pages by name or content type: a constant of `CrawlLoop`;
* ranking, collapsing and paging of one result list, snippets, scores, rendering,
  configuration: sequential and without state. The query log is a ring buffer
  whose writers hold one lock throughout;
* bucket boundaries and trimming of the growth timeline; `squash`;
* character sets, redirects and TLS of the HTTP client; Tantivy's own files;
* process control: pid files are read and written without a lock, but what a
  reused pid belongs to is outside the program. Its effects (kills, restarts, one
  drain at a time) are in the models;
* a panic inside a visit, which would leave its slot booked for ever: the model's
  visits always answer;
* loss of power: RocksDB is taken to keep what it accepted across a killed process.
  A corrupt filter file counts as none.

## 6. State of the project

Built in this order: spool pipeline, its first proofs, crawler loop, search engine,
fetcher, archive files, parsers, policy, graph, state file, chime; then the proofs of
section 4. Every safety invariant, action property and refinement that a passing run
checks is now a theorem. What could come next:

1. a model of process control, with pid files and a second indexer started beside
   the first;
2. a visit that panics, and a way for its slot to come back, once the code has one;
3. bucket boundaries of the timeline and the query log's ring buffer.

The loops the parsers are made of are recursive functions in the models: their
values for every input come from `LoopRuns` (a loop has its states) and `NatBySteps`
in `LoopTheorems`, in place of induction through an operator parameter, which the
prover cannot instantiate. An invariant that compares with a selection or a fold of
the whole text is said by counting places where that says the same.

Instances stay of the size above: at most about a million states, under two
minutes each.
