------------------------------ MODULE MCParts -------------------------------
(***************************************************************************)
(* Eleven parts of the system that share no state, checked side by side:   *)
(* one of them runs and the others rest, so that their states add.         *)
(***************************************************************************)
EXTENDS WarcArchive, Fetcher, RobotsFile, GlobMatch, PageParser, Entities,
        SitemapScan, MCUrlPolicy, LinkGraph, StateFile, StartChime, TLC

VARIABLE machine   \* which of them runs

-----------------------------------------------------------------------------
(* A server with an answer of every kind. *)
NoHeader == [form |-> "absent", n |-> 0]
PlainBody(k) == [size |-> k, gzip |-> FALSE, expands |-> k, broken |-> FALSE]
Gzipped(k, n, b) == [size |-> k, gzip |-> TRUE, expands |-> n, broken |-> b]

Served(type, declares, body) ==
    [status |-> 200, after |-> NoHeader, type |-> type, declares |-> declares, body |-> body]
Refusal(status, after) ==
    [status |-> status, after |-> after, type |-> "html", declares |-> TRUE, body |-> PlainBody(0)]

ServerAnswers ==
    {Served(t, d, b) : t \in {"absent", "html", "plain"}, d \in BOOLEAN,
        b \in {PlainBody(0), PlainBody(2), PlainBody(3), Gzipped(1, 2, FALSE),
               Gzipped(1, 4, FALSE), Gzipped(1, 1, TRUE), Gzipped(2, 3, TRUE)}}
    \cup {Refusal(404, NoHeader), Refusal(503, NoHeader),
          Refusal(503, [form |-> "date", n |-> 2]),
          Refusal(429, [form |-> "seconds", n |-> 1]),
          Refusal(429, [form |-> "seconds", n |-> 2]),
          Refusal(403, [form |-> "seconds", n |-> 1]),
          Refusal(429, [form |-> "seconds", n |-> 4])}

-----------------------------------------------------------------------------
(* robots.txt: three agents, nested patterns, delays that are numbers or not. *)
Line(field, value) == [field |-> field, value |-> value]
RobotsLines ==
    {Line("user-agent", "*"), Line("user-agent", "ours"), Line("user-agent", "other"),
     Line("disallow", ""), Line("disallow", "/"), Line("disallow", "/ab"),
     Line("allow", "/a"), Line("allow", "/b"),
     Line("crawl-delay", "2"), Line("crawl-delay", "soon"),
     Line("sitemap", "map"), Line("other", "x")}
Agents == ("*" :> 0) @@ ("ours" :> 4)
Delays == "2" :> 2
Covering == ("/" :> {"/", "/a", "/ab"}) @@ ("/a" :> {"/a", "/ab"}) @@ ("/ab" :> {"/ab"})
            @@ ("/b" :> {})
PatternLengths == ("/" :> 1) @@ ("/a" :> 2) @@ ("/ab" :> 3) @@ ("/b" :> 2)

-----------------------------------------------------------------------------
(* A page's links, two of them one document; a base that is a URL, one that is not. *)
Links == {"/x", "/x#top", "#top"}
Resolving == [b \in {"page", "other"} |->
    ("/x" :> (IF b = "page" THEN "page/x" ELSE "other/x"))
    @@ ("/x#top" :> (IF b = "page" THEN "page/x" ELSE "other/x")) @@ ("#top" :> "none")]

-----------------------------------------------------------------------------
(* Texts of plain words, white space, references named and numeric, one too long. *)
Verbatim(s) == [spelled |-> s, means |-> s]
Reference(name, c) == [spelled |-> <<"&">> \o name \o <<";">>, means |-> <<c>>]
NamedCharacters ==
    (<<"amp">> :> "&") @@ (<<"lt">> :> "<") @@ (<<"nbsp">> :> "nbsp")
    @@ (<<"#", "65">> :> "A") @@ (<<"#", "0", "65">> :> "A")
TextUnits ==
    {Verbatim(<<"x">>), Verbatim(<<"lt">>), Verbatim(<<";">>), Verbatim(<<" ">>),
     Verbatim(<<"&">>), Verbatim(<<"&", "#", "0", "65", ";">>),
     Reference(<<"amp">>, "&"), Reference(<<"lt">>, "<"), Reference(<<"nbsp">>, "nbsp"),
     Reference(<<"#", "65">>, "A")}

SitemapURLs == ("u" :> "u") @@ ("v" :> "v") @@ ("/rel" :> "none")

-----------------------------------------------------------------------------
(* Two pages of one site, one of another, which is already known from earlier runs. *)
Sites == ("a1" :> "a") @@ ("a2" :> "a") @@ ("b1" :> "b")
EarlierCounts == ("a" :> 2) @@ ("b" :> 0)

-----------------------------------------------------------------------------
FetchResting ==
    /\ phase = "returned" /\ asHtml = FALSE /\ attempt = 0 /\ contacts = 0
    /\ answer = NoAnswer /\ buffered = 0 /\ failure = NoFailure
    /\ pause = 0 /\ slept = 0 /\ page = NoPage
TextResting == units = << >> /\ undecoded = << >> /\ output = << >> /\ decoding = FALSE
SitemapResting == document = << >> /\ restAt = 0 /\ urls = << >> /\ scanning = FALSE

PartsInit ==
    /\ machine \in {"archive", "fetch", "robots", "glob", "page", "text",
                   "sitemap", "policy", "graph", "state file", "chime"}
    /\ WarcInit
    /\ IF machine = "fetch" THEN FetchInit ELSE FetchResting
    /\ RobotsInit
    /\ IF machine = "glob" THEN GlobInit ELSE GlobBegin(<< >>, << >>, FALSE)
    /\ PageInit
    /\ IF machine = "text" THEN EntityInit ELSE TextResting
    /\ IF machine = "sitemap" THEN ScanInit ELSE SitemapResting
    /\ IF machine = "policy" THEN PolicyInit ELSE PolicyBegin(FALSE, {}, {})
    /\ GraphInit
    /\ StateFileInit
    /\ ChimeInit

PartsNext ==
    \/ /\ machine = "archive" /\ WarcNext
       /\ UNCHANGED <<machine, fetchVars, robotsVars, globVars, pageVars, entityVars,
                      scanVars, policyVars, graphVars, stateFileVars, chimeVars>>
    \/ /\ machine = "fetch" /\ FetchStep
       /\ UNCHANGED <<machine, warcVars, robotsVars, globVars, pageVars, entityVars,
                      scanVars, policyVars, graphVars, stateFileVars, chimeVars>>
    \/ /\ machine = "robots" /\ RobotsNext
       /\ UNCHANGED <<machine, warcVars, fetchVars, globVars, pageVars, entityVars,
                      scanVars, policyVars, graphVars, stateFileVars, chimeVars>>
    \/ /\ machine = "glob" /\ GlobNext
       /\ UNCHANGED <<machine, warcVars, fetchVars, robotsVars, pageVars, entityVars,
                      scanVars, policyVars, graphVars, stateFileVars, chimeVars>>
    \/ /\ machine = "page" /\ PageNext
       /\ UNCHANGED <<machine, warcVars, fetchVars, robotsVars, globVars, entityVars,
                      scanVars, policyVars, graphVars, stateFileVars, chimeVars>>
    \/ /\ machine = "text" /\ EntityNext
       /\ UNCHANGED <<machine, warcVars, fetchVars, robotsVars, globVars, pageVars,
                      scanVars, policyVars, graphVars, stateFileVars, chimeVars>>
    \/ /\ machine = "sitemap" /\ ScanNext
       /\ UNCHANGED <<machine, warcVars, fetchVars, robotsVars, globVars, pageVars,
                      entityVars, policyVars, graphVars, stateFileVars, chimeVars>>
    \/ /\ machine = "policy" /\ PolicyNext
       /\ UNCHANGED <<machine, warcVars, fetchVars, robotsVars, globVars, pageVars,
                      entityVars, scanVars, graphVars, stateFileVars, chimeVars>>
    \/ /\ machine = "graph" /\ GraphNext
       /\ UNCHANGED <<machine, warcVars, fetchVars, robotsVars, globVars, pageVars,
                      entityVars, scanVars, policyVars, stateFileVars, chimeVars>>
    \/ /\ machine = "state file" /\ StateFileNext
       /\ UNCHANGED <<machine, warcVars, fetchVars, robotsVars, globVars, pageVars,
                      entityVars, scanVars, policyVars, graphVars, chimeVars>>
    \/ /\ machine = "chime" /\ ChimeNext
       /\ UNCHANGED <<machine, warcVars, fetchVars, robotsVars, globVars, pageVars,
                      entityVars, scanVars, policyVars, graphVars, stateFileVars>>

partsVars == <<machine, warcVars, fetchVars, robotsVars, globVars, pageVars, entityVars,
               scanVars, policyVars, graphVars, stateFileVars, chimeVars>>

\* The fairness of FetchSpec: an attempt ends and a timer fires.
PartsSpec ==
    /\ PartsInit /\ [][PartsNext]_partsVars
    /\ WF_partsVars(machine = "fetch" /\ PartsNext)
=============================================================================
