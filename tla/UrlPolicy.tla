------------------------------ MODULE UrlPolicy -----------------------------
(***************************************************************************)
(* Which URLs a crawl queues and in what form: policy.rs, with the places  *)
(* of main.rs that apply it: the seeds, then a batch of links, one a step. *)
(* The url crate is external: it folds the case of hosts and drops default *)
(* ports before anything here sees them.  A URL is [scheme, host, segment, *)
(* mark, query, fragment]: the last segment of the path as its dotted      *)
(* parts, whether there is a question mark, the query as its parameters,   *)
(* each with a name and the way it is spelled.                             *)
(***************************************************************************)
EXTENDS Naturals, Sequences, FiniteSets, SequencesExt

CONSTANTS
    SeedURL, LinkURL,    \* what an operator may start from, what pages link to
    TrackingParam,       \* names that is_tracking_param knows
    DataExtension,       \* NON_PAGE_EXTENSIONS
    AllowedHost,         \* hosts that --allow-host may name
    MaxLinkBatch         \* bound: links of a page

IsURL(url) ==
    /\ url = [scheme |-> url.scheme, host |-> url.host, segment |-> url.segment,
              mark |-> url.mark, query |-> url.query, fragment |-> url.fragment]
    /\ url.mark \in BOOLEAN /\ (url.mark \/ url.query = << >>)
    /\ url.query \in Seq(ToSet(url.query))
    /\ \A param \in ToSet(url.query) : param = [name |-> param.name, spelled |-> param.spelled]

ASSUME PolicyAssumption ==
    /\ MaxLinkBatch \in Nat /\ "gz" \notin DataExtension
    /\ \A url \in SeedURL \cup LinkURL : IsURL(url)

VARIABLES
    stayOnSite, allowHost, seeds,   \* the operator's flags
    batch,                          \* the links of a page, canonical or not
    seenURLs,                       \* the seen-URL filter, taken as exact here
    queuedURLs,
    skipped                         \* links of each kind passed over

policyVars == <<stayOnSite, allowHost, seeds, batch, seenURLs, queuedURLs, skipped>>
flags == <<stayOnSite, allowHost, seeds>>

Fetchable(url) == url.scheme \in {"http", "https"}
NotTracking(param) == param.name \notin TrackingParam

(***************************************************************************)
(* strip_tracking_params: the query is written anew, in the serializer's   *)
(* spelling, only when something is removed.                               *)
(***************************************************************************)
Untracked(query) ==
    LET kept[n \in 0 .. Len(query)] ==
          IF n = 0 THEN << >>
          ELSE IF NotTracking(query[n]) THEN Append(kept[n - 1], query[n]) ELSE kept[n - 1]
    IN  kept[Len(query)]

\* (mutant: one parameter is enough)
StripOne(query) ==
    LET drops == {i \in DOMAIN query : ~NotTracking(query[i])}
    IN  IF drops = {} THEN query ELSE RemoveAt(query, CHOOSE i \in drops : \A j \in drops : i <= j)

StripTrackingParams(query) ==
    LET kept == Untracked(query)
    IN  IF Len(kept) = Len(query) THEN query
        ELSE [i \in DOMAIN kept |-> [kept[i] EXCEPT !.spelled = "serialized"]]

\* The question mark goes with the last parameter; one that had none stays.
KeepsMark(url) == url.mark /\ (url.query = << >> \/ Untracked(url.query) # << >>)

CanonicalURL(url) ==
    [scheme |-> url.scheme, host |-> url.host, segment |-> url.segment,
     mark |-> KeepsMark(url), query |-> StripTrackingParams(url.query), fragment |-> "none"]

\* The extension, if the segment has one: a .gz is looked through, and a dot
\* at the start (.htaccess) makes none.
IsProbablyPage(url) ==
    LET s == IF Len(url.segment) > 1 /\ Last(url.segment) = "gz"
             THEN Front(url.segment) ELSE url.segment
        hasExtension == Len(s) > 2 \/ (Len(s) = 2 /\ s[1] # "")
    IN  ~(hasExtension /\ Last(s) \in DataExtension)

\* CrawlScope: the hosts of the seeds and the allowed ones, and no others if
\* it is restricted.
ScopeHosts == ({url.host : url \in seeds} \ {"none"}) \cup allowHost
IsRestricted == stayOnSite \/ ScopeHosts # {}
InScope(url) == ~IsRestricted \/ url.host \in ScopeHosts

-----------------------------------------------------------------------------
Kinds == {"unfetchable", "offsite", "asset", "seen"}

PolicyBegin(stay, allow, starts) ==
    /\ stayOnSite = stay /\ allowHost = allow /\ seeds = starts
    /\ seenURLs = {CanonicalURL(url) : url \in {s \in starts : Fetchable(s)}}
    /\ queuedURLs = seenURLs
    /\ batch = << >>
    /\ skipped = [kind \in Kinds |-> 0]

\* collect_seeds: an empty list of seeds is refused.
PolicyInit ==
    \E stay \in BOOLEAN, allow \in SUBSET AllowedHost, starts \in SUBSET SeedURL :
        starts # {} /\ PolicyBegin(stay, allow, starts)

Skip(kind) ==
    /\ skipped' = [skipped EXCEPT ![kind] = @ + 1]
    /\ UNCHANGED <<seenURLs, queuedURLs>>

(***************************************************************************)
(* schedule, for one link: canonical form, scope, kind, seen before.       *)
(***************************************************************************)
Schedule(link) ==
    LET url == CanonicalURL(link)
    IN  /\ Len(batch) < MaxLinkBatch
        /\ batch' = Append(batch, link)
        /\ IF ~Fetchable(link) THEN Skip("unfetchable")
           ELSE IF ~InScope(url) THEN Skip("offsite")
           ELSE IF ~IsProbablyPage(url) THEN Skip("asset")
           ELSE IF url \in seenURLs THEN Skip("seen")
           ELSE /\ seenURLs' = seenURLs \cup {url}
                /\ queuedURLs' = queuedURLs \cup {url}
                /\ UNCHANGED skipped
        /\ UNCHANGED flags

PolicyNext == \E link \in LinkURL : Schedule(link)

PolicySpec == PolicyInit /\ [][PolicyNext]_policyVars

-----------------------------------------------------------------------------
\* What a URL's document is known by, as far as a crawler can tell without
\* asking: fragment, campaign parameters and spelling aside.
DocumentOf(url) ==
    [host |-> url.host, scheme |-> url.scheme, segment |-> url.segment,
     query |-> [i \in DOMAIN Untracked(url.query) |-> Untracked(url.query)[i].name]]

\* The serializer writes no question mark where there is no parameter.
SerializedAlready(url) ==
    /\ url.mark <=> url.query # << >>
    /\ \A i \in DOMAIN url.query : url.query[i].spelled = "serialized"

(***************************************************************************)
(* Of all spellings of a document that differ in fragment and campaign     *)
(* parameters one URL is queued (where the query is spelled as the         *)
(* serializer spells it); every fetchable link that is in scope and a    *)
(* page has its document queued; canonical forms are stable.               *)
(***************************************************************************)
OneDocumentOneURL ==
    /\ \A u, v \in queuedURLs :
          SerializedAlready(u) /\ SerializedAlready(v) /\ DocumentOf(u) = DocumentOf(v) => u = v
    /\ \A i \in DOMAIN batch :
          Fetchable(batch[i]) /\ InScope(batch[i]) /\ IsProbablyPage(batch[i]) =>
              \E u \in queuedURLs : DocumentOf(u) = DocumentOf(batch[i])
    /\ \A u \in queuedURLs :
          /\ CanonicalURL(u) = u
          /\ \A i \in DOMAIN u.query : u.query[i].name \notin TrackingParam
=============================================================================
