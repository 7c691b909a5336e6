---------------------------- MODULE SearchEngine -----------------------------
(***************************************************************************)
(* The query side: worker processes of the API, each with its own handle   *)
(* on the index (search.rs, python_api.rs), beside the one indexer that    *)
(* commits to it.  No function of python_api.rs releases the interpreter   *)
(* lock, so a worker runs one call at a time; commits and merges fall      *)
(* between any two steps of a call.                                        *)
(*                                                                         *)
(* Tantivy is external.  A generation of the index is a set of rows; its   *)
(* position in `log' stands for the segment map, which the fingerprint     *)
(* hashes (search.rs assumes no two maps collide).  A merge makes a new    *)
(* map of the same rows, a commit of nothing makes none.                   *)
(***************************************************************************)
EXTENDS Naturals, Sequences, FiniteSets, SequencesExt

CONSTANTS
    Worker,
    Row,            \* rows the indexer may write: [url, words, rank]
    Query,          \* sequences of words a caller asks for
    Unparsable,     \* those the query parser rejects
    Limit, Offset,  \* page sizes and starts a caller asks for
    MaxEntries,     \* bound: pages a cache holds at once
    Warm,           \* warm_index
    Disks,          \* the schemas an index directory may have, or NoIndex
    MaxGens         \* bound: generations of the index

ASSUME SearchAssumption ==
    /\ IsFiniteSet(Row)
    /\ \A r \in Row : r.rank \in Nat
    /\ \A r, s \in Row : r.url # s.url => r.rank # s.rank
    /\ \A q \in Query : q \in Seq(ToSet(q))
    /\ MaxEntries \in Nat /\ Warm \in BOOLEAN
    /\ Limit \subseteq Nat /\ Offset \subseteq Nat

VARIABLES
    disk,       \* the schema of the index directory, or NoIndex
    log,        \* its generations; the last is what meta.json names
    engine,     \* per worker: ENGINE, NoIndex or the schema it was opened on
    reader,     \* the generation the handle's reader stands at, 0 for none
    cache,      \* the handle's query cache: a set of [key, page]
    call,       \* the call a worker is in
    reply       \* what its last call returned

vars == <<disk, log, engine, reader, cache, call, reply>>

Now == Len(log)
NoIndex == << >>

\* A schema is a sequence of <<field, type>>: a Field handle is a position in
\* it.  This is the one of this build, in the order build() adds the fields.
Mine == << <<"url", "STRING">>, <<"title", "TEXT">>, <<"body", "TEXT">>,
           <<"fetched_at", "i64">>, <<"authority", "f64">>,
           <<"host_authority", "f64">> >>

Idle == [op |-> "idle"]
Nothing == [kind |-> "none"]

(***************************************************************************)
(* The evaluation of one query against one generation.                     *)
(***************************************************************************)
SetMax(S) == CHOOSE n \in S : \A m \in S : m <= n

\* (mutant: field types are not compared)
HasOurFields(theirs) ==
    \A i \in DOMAIN Mine : \E j \in DOMAIN theirs : theirs[j][1] = Mine[i][1]

\* IndexSchema::is_compatible_with: every field of ours by name, of the same
\* type, at whatever position.
IsCompatible(theirs) ==
    \A i \in DOMAIN Mine : \E j \in DOMAIN theirs : theirs[j] = Mine[i]

\* The handles of build() name in that index what they name in ours.
InPlace(theirs) ==
    \A i \in DOMAIN Mine : i \in DOMAIN theirs /\ theirs[i] = Mine[i]

IsMultiTerm(query) == Len(query) > 1

\* Conjunction by default; no word at all matches nothing.
Strict(rows, query) ==
    {r \in rows : query # << >> /\ \A w \in ToSet(query) : w \in r.words}

Wide(rows, query) == {r \in rows : \E w \in ToSet(query) : w \in r.words}

\* order_by_score, for rows of different ranks.
Ranked(rows) ==
    CHOOSE s \in [1 .. Cardinality(rows) -> rows] :
        \A i, j \in DOMAIN s : i < j => s[i].rank < s[j].rank

\* TopDocs::with_limit(limit.max(1)).and_offset(offset).order_by_score()
TopDocs(rows, limit, offset) ==
    LET ranked == Ranked(rows)
        floor  == SetMax({limit, 1})
    IN  SubSeq(ranked, offset + 1, IF offset + floor < Len(ranked)
                                   THEN offset + floor ELSE Len(ranked))

Evaluate(rows, query, limit, offset) ==
    LET strict  == Strict(rows, query)
        wide    == Wide(rows, query)
        relaxed == strict = {} /\ IsMultiTerm(query) /\ wide # {}
        parsed  == IF relaxed THEN wide ELSE strict
    IN  [hits    |-> TopDocs(parsed, limit, offset),
         total   |-> Cardinality(parsed),
         relaxed |-> relaxed]

(***************************************************************************)
(* The index directory and its writer.                                     *)
(***************************************************************************)
Empty == {}

\* DocWriter::open: creates the index if there is none, refuses another schema.
OpenWriter ==
    /\ disk = NoIndex
    /\ disk' = Mine
    /\ log' = <<Empty>>
    /\ UNCHANGED <<engine, reader, cache, call, reply>>

\* add_or_update since the last commit: a row replaces the row of its URL.  The
\* writer's handles are those of build() as well: what they leave in an index
\* they are out of place in is left open.
Written(rows) ==
    IF InPlace(disk)
    THEN {{r \in log[Now] : \A s \in rows : s.url # r.url} \cup rows}
    ELSE SUBSET Row

Commit(rows) ==
    /\ disk # NoIndex /\ IsCompatible(disk)
    /\ Now < MaxGens
    /\ \E new \in Written(rows) : log' = Append(log, new)
    /\ UNCHANGED <<disk, engine, reader, cache, call, reply>>

\* Segments are merged behind a commit: the same rows under a new segment map.
Merge ==
    /\ disk # NoIndex /\ IsCompatible(disk)
    /\ Now < MaxGens
    /\ log' = Append(log, log[Now])
    /\ UNCHANGED <<disk, engine, reader, cache, call, reply>>

(***************************************************************************)
(* open_index: at most one handle, warm before it is published.            *)
(***************************************************************************)
Return(w, answer) ==
    /\ call' = [call EXCEPT ![w] = Idle]
    /\ reply' = [reply EXCEPT ![w] = answer]

Failed(what) == [kind |-> "error", what |-> what]

OpenIndex(w) ==
    /\ call[w] = Idle
    /\ UNCHANGED <<disk, log, cache, engine>>
    /\ \/ engine[w] # NoIndex /\ Return(w, Nothing) /\ UNCHANGED reader
       \/ /\ engine[w] = NoIndex /\ disk = NoIndex
          /\ Return(w, Failed("missing index")) /\ UNCHANGED reader
       \/ /\ engine[w] = NoIndex /\ disk # NoIndex /\ ~IsCompatible(disk)
          /\ Return(w, Failed("incompatible schema")) /\ UNCHANGED reader
       \/ /\ engine[w] = NoIndex /\ disk # NoIndex /\ IsCompatible(disk)
          /\ reader' = [reader EXCEPT ![w] = Now]
          /\ call' = [call EXCEPT ![w] =
                        [op |-> IF Warm THEN "warm" ELSE "publish"]]
          /\ UNCHANGED reply

\* warm_up: reload, then the cheapest query that reads segment metadata.
WarmUp(w) ==
    /\ call[w].op = "warm"
    /\ reader' = [reader EXCEPT ![w] = Now]
    /\ call' = [call EXCEPT ![w] = [op |-> "publish"]]
    /\ UNCHANGED <<disk, log, engine, cache, reply>>

\* The handle published reads the index through the fields of build(), not
\* through those of the index.
Publish(w) ==
    /\ call[w].op = "publish"
    /\ engine' = [engine EXCEPT ![w] = disk]
    /\ cache' = [cache EXCEPT ![w] = {}]
    /\ Return(w, Nothing)
    /\ UNCHANGED <<disk, log, reader>>

(***************************************************************************)
(* search: reload, take a searcher, look the page up, else compute it.     *)
(***************************************************************************)
Ask(w, query, limit, offset) ==
    /\ call[w] = Idle
    /\ IF engine[w] = NoIndex THEN Return(w, Failed("not open"))
       ELSE /\ call' = [call EXCEPT ![w] =
                 [op |-> "reload", then |-> "search", since |-> Now,
                  query |-> query, limit |-> limit, offset |-> offset]]
            /\ reply' = [reply EXCEPT ![w] = Nothing]
    /\ UNCHANGED <<disk, log, engine, reader, cache>>

\* self.reader.reload() and self.reader.searcher()
Reload(w) ==
    /\ call[w].op = "reload"
    /\ reader' = [reader EXCEPT ![w] = Now]
    /\ call' = [call EXCEPT ![w].op = call[w].then]
    /\ UNCHANGED <<disk, log, engine, cache, reply>>

Fingerprint(w) == reader[w]

\* (mutant: the key has no fingerprint)
KeyWithoutStamp(w) == [query |-> call[w].query, limit |-> call[w].limit,
                       offset |-> call[w].offset, stamp |-> 1]

Key(w) == [query |-> call[w].query, limit |-> call[w].limit,
           offset |-> call[w].offset, stamp |-> Fingerprint(w)]

Outcome(w, page, hit) ==
    [kind |-> "hits", page |-> page, docs |-> Cardinality(log[reader[w]]),
     cached |-> hit, asked |-> call[w]]

Hit(w) ==
    /\ call[w].op = "search"
    /\ \E entry \in cache[w] : entry.key = Key(w) /\ Return(w, Outcome(w, entry.page, TRUE))
    /\ UNCHANGED <<disk, log, engine, reader, cache>>

\* (mutant: the length of the page is cached as the total)
RememberPageLength(w, entry) ==
    cache' = [cache EXCEPT ![w] =
                 {[entry EXCEPT !.page.total = Len(entry.page.hits)]}]
\* Moka may drop any entries, the new one too, and does so behind the calls:
\* query_cache_entries bounds what it keeps in the end, not what it holds now.
Remember(w, entry) ==
    \E kept \in SUBSET (cache[w] \cup {entry}) :
        /\ Cardinality(kept) <= MaxEntries
        /\ cache' = [cache EXCEPT ![w] = kept]

Miss(w) ==
    /\ call[w].op = "search"
    /\ InPlace(engine[w])
    /\ \A entry \in cache[w] : entry.key # Key(w)
    /\ IF call[w].query \in Unparsable
       THEN Return(w, Failed("query parse")) /\ UNCHANGED cache
       ELSE LET page == Evaluate(log[reader[w]], call[w].query, call[w].limit, call[w].offset)
            IN  Remember(w, [key |-> Key(w), page |-> page]) /\ Return(w, Outcome(w, page, FALSE))
    /\ UNCHANGED <<disk, log, engine, reader>>

\* The same call with handles that are out of place: title and body are sought,
\* and url and the scores read, in other columns.  What comes of it, an error
\* of Tantivy's, a panic or a page of other fields, cached or not, is left open.
Misread(w) ==
    /\ call[w].op = "search"
    /\ ~InPlace(engine[w])
    /\ Return(w, [kind |-> "misread"])
    /\ UNCHANGED <<disk, log, engine, reader, cache>>

(***************************************************************************)
(* index_stats: count and fingerprint from one searcher.                   *)
(***************************************************************************)
AskStats(w) ==
    /\ call[w] = Idle
    /\ IF engine[w] = NoIndex THEN Return(w, Failed("not open"))
       ELSE /\ call' = [call EXCEPT ![w] = [op |-> "reload", then |-> "stats", since |-> Now]]
            /\ reply' = [reply EXCEPT ![w] = Nothing]
    /\ UNCHANGED <<disk, log, engine, reader, cache>>

\* (mutant: a second reload before the fingerprint)
StatsFromTwoReloads(w) ==
    /\ call[w].op = "stats"
    /\ Return(w, [kind |-> "stats", docs |-> Cardinality(log[reader[w]]),
                  stamp |-> Now, asked |-> call[w]])
    /\ UNCHANGED <<disk, log, engine, reader, cache>>

Stats(w) ==
    /\ call[w].op = "stats"
    /\ Return(w, [kind |-> "stats", docs |-> Cardinality(log[reader[w]]),
                  stamp |-> Fingerprint(w), asked |-> call[w]])
    /\ UNCHANGED <<disk, log, engine, reader, cache>>

\* A worker process ends and is started again: ENGINE and its cache are gone.
Restart(w) ==
    /\ engine[w] # NoIndex \/ call[w] # Idle
    /\ engine' = [engine EXCEPT ![w] = NoIndex]
    /\ reader' = [reader EXCEPT ![w] = 0]
    /\ cache' = [cache EXCEPT ![w] = {}]
    /\ call' = [call EXCEPT ![w] = Idle]
    /\ reply' = [reply EXCEPT ![w] = Nothing]
    /\ UNCHANGED <<disk, log>>

Init ==
    /\ disk \in Disks
    /\ log = IF disk = NoIndex THEN << >> ELSE <<Empty>>
    /\ engine = [w \in Worker |-> NoIndex]
    /\ reader = [w \in Worker |-> 0]
    /\ cache = [w \in Worker |-> {}]
    /\ call = [w \in Worker |-> Idle]
    /\ reply = [w \in Worker |-> Nothing]

Next ==
    \/ OpenWriter
    \/ \E rows \in SUBSET Row :
          /\ rows # {} /\ \A r, s \in rows : r.url = s.url => r = s
          /\ Commit(rows)
    \/ Merge
    \/ \E w \in Worker :
          \/ OpenIndex(w) \/ WarmUp(w) \/ Publish(w)
          \/ \E q \in Query, l \in Limit, o \in Offset : Ask(w, q, l, o)
          \/ Reload(w) \/ Hit(w) \/ Miss(w) \/ Misread(w)
          \/ AskStats(w) \/ Stats(w) \/ Restart(w)

Spec == Init /\ [][Next]_vars

-----------------------------------------------------------------------------
(***************************************************************************)
(* What an answer must be, said without the code's steps: the rows that    *)
(* hold every word, or any word if none holds every one of several; of     *)
(* those in order the `limit' after the first `offset'.                    *)
(***************************************************************************)
Wanted(rows, query) ==
    LET Holding(n) == {r \in rows : Cardinality({w \in ToSet(query) : w \in r.words}) >= n}
        all == Holding(Cardinality(ToSet(query)))
    IN  IF query = << >> THEN {}
        ELSE IF all # {} \/ Len(query) = 1 THEN all ELSE Holding(1)

IsPageOf(page, rows, query, limit, offset) ==
    LET wanted == Wanted(rows, query)
        Above(r) == Cardinality({s \in wanted : s.rank < r.rank})
        size == IF limit = 0 THEN 1 ELSE limit
    IN  /\ page.total = Cardinality(wanted)
        /\ page.relaxed <=> \E r \in wanted, w \in ToSet(query) : w \notin r.words
        /\ ToSet(page.hits) = {r \in wanted : Above(r) >= offset /\ Above(r) < offset + size}
        /\ \A i, j \in DOMAIN page.hits : i < j => page.hits[i].rank < page.hits[j].rank

(***************************************************************************)
(* A query answers from one state of the index that is at least as new as  *)
(* the last commit before the query began, whether the page was computed   *)
(* or cached: hits, total, relaxed and doc_count are all of that state.    *)
(* (On an index the handles are out of place in there is no such page.)    *)
(***************************************************************************)
AnswerIsCurrent ==
    \A w \in Worker : reply[w].kind = "hits" =>
        LET asked == reply[w].asked
        IN  \E g \in asked.since .. Now :
                /\ IsPageOf(reply[w].page, log[g], asked.query, asked.limit, asked.offset)
                /\ reply[w].docs = Cardinality(log[g])

(***************************************************************************)
(* A cached page is the page of the generation its fingerprint names, and  *)
(* two pages of one query and one fingerprint that do not overlap share no *)
(* URL and report one total: a caller may page through cached and computed *)
(* pages alike.                                                            *)
(***************************************************************************)
CacheAgrees ==
    \A w \in Worker : \A e, f \in cache[w] :
        /\ IsPageOf(e.page, log[e.key.stamp], e.key.query, e.key.limit, e.key.offset)
        /\ (e.key.query = f.key.query /\ e.key.stamp = f.key.stamp) =>
              /\ e.page.total = f.page.total /\ e.page.relaxed = f.page.relaxed
              /\ f.key.offset >= e.key.offset + SetMax({1, e.key.limit}) =>
                    \A r \in ToSet(e.page.hits), q \in ToSet(f.page.hits) : r.url # q.url

(***************************************************************************)
(* index_stats reports a count and a fingerprint of one generation, at     *)
(* least as new as the commits before the call ("a pair from two commits   *)
(* answers that question wrongly").                                        *)
(***************************************************************************)
StatsAreOneGeneration ==
    \A w \in Worker : reply[w].kind = "stats" =>
        /\ reply[w].docs = Cardinality(log[reply[w].stamp])
        /\ reply[w].stamp >= reply[w].asked.since

(***************************************************************************)
(* The handle of a process is opened once: until the process ends, neither *)
(* the index it reads nor its place in the history goes back, and it is    *)
(* open only on an index with every field of ours, of our types.  It may   *)
(* read them at other places than theirs (Misread).                        *)
(***************************************************************************)
HandleIsFinal ==
    [][\A w \in Worker : engine[w] # NoIndex =>
          \/ engine'[w] = NoIndex /\ reply'[w] = Nothing
          \/ /\ engine'[w] = engine[w] /\ reader'[w] >= reader[w]
             /\ ToSet(Mine) \subseteq ToSet(engine[w])]_vars

-----------------------------------------------------------------------------
(***************************************************************************)
(* The inductive invariant behind the safety properties.                   *)
(***************************************************************************)
SearchCall == [op : {"reload", "search"}, then : {"search"}, since : Nat,
               query : Query, limit : Limit, offset : Offset]
StatsCall  == [op : {"reload", "stats"}, then : {"stats"}, since : Nat]
Call       == {Idle} \cup [op : {"warm", "publish"}] \cup SearchCall \cup StatsCall

Page  == [hits : Seq(Row), total : Nat, relaxed : BOOLEAN]
Entry == [key : [query : Query, limit : Limit, offset : Offset, stamp : Nat],
          page : Page]
Reply == {Nothing}
         \cup [kind : {"error"},
               what : {"missing index", "incompatible schema", "not open",
                       "query parse"}]
         \cup [kind : {"misread"}]
         \cup [kind : {"hits"}, page : Page, docs : Nat, cached : BOOLEAN,
               asked : SearchCall]
         \cup [kind : {"stats"}, docs : Nat, stamp : Nat, asked : StatsCall]

TypeOK ==
    /\ disk \in Disks \cup {NoIndex, Mine}
    /\ log \in Seq(SUBSET Row)
    /\ engine \in [Worker -> Disks \cup {NoIndex, Mine}]
    /\ reader \in [Worker -> Nat]
    /\ cache \in [Worker -> SUBSET Entry]
    /\ call \in [Worker -> Call]
    /\ reply \in [Worker -> Reply]

\* An index has a generation, and a generation one row of a URL, if it was
\* written through handles in their places.
LogIsInOrder ==
    /\ disk = NoIndex <=> log = << >>
    /\ InPlace(disk) =>
          \A g \in 1 .. Now : \A r, s \in log[g] : r.url = s.url => r = s

\* A handle is open on the index there is, with fields of our types; it is
\* opened once, and asked only then; its reader stands in the history, past the
\* start of the call once the call has reloaded it.
HandlesAreInOrder ==
    \A w \in Worker :
        /\ engine[w] # NoIndex => engine[w] = disk /\ IsCompatible(disk)
        /\ reader[w] <= Now
        /\ call[w].op \in {"warm", "publish"} =>
              engine[w] = NoIndex /\ disk # NoIndex /\ IsCompatible(disk)
        /\ call[w].op \in {"reload", "search", "stats"} =>
              engine[w] # NoIndex /\ call[w].since \in 1 .. Now
        /\ call[w].op \in {"search", "stats"} => reader[w] >= call[w].since

\* What is kept and what was answered speaks of generations there are.
StampsAreReal ==
    \A w \in Worker :
        /\ \A e \in cache[w] : e.key.stamp \in 1 .. Now
        /\ reply[w].kind = "hits" => reply[w].asked.since \in 1 .. Now
        /\ reply[w].kind = "stats" => reply[w].asked.since >= 1
                                      /\ reply[w].stamp \in 1 .. Now

IInv ==
    /\ TypeOK
    /\ LogIsInOrder
    /\ HandlesAreInOrder
    /\ StampsAreReal
    /\ CacheAgrees
    /\ StatsAreOneGeneration
    /\ AnswerIsCurrent
=============================================================================
