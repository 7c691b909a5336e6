----------------------------- MODULE PageParser ----------------------------
(***************************************************************************)
(* parser.rs: handlers called as the tags and texts of a page stream past, *)
(* then resolve_links over what they gathered.  lol_html is external: it   *)
(* calls the handler of an end tag for the element that tag closes, and    *)
(* drops elements left open inside it without a call.  A text is its       *)
(* position in the page; an href is a member of a small set.               *)
(***************************************************************************)
EXTENDS Integers, Sequences, FiniteSets, SequencesExt

CONSTANTS
    Boilerplate,   \* element names whose content is not content
    Plain,         \* other element names
    Href,          \* what a link may say
    BaseHref,      \* what <base> may say
    Resolved,      \* Resolved[base][href]: the URL without its fragment, or "none"
                   \* for what does not parse, is no http or is only a fragment
    Absolute,      \* the bases that parse as URLs by themselves
    PageUrl,       \* where the page was fetched; a member of Absolute
    MaxTokens      \* bound: tokens of a page

ASSUME ParserAssumption == PageUrl \in Absolute /\ Boilerplate \cap Plain = {}

VARIABLES
    tokens,        \* history: the page read so far
    open,          \* the parser's stack of open elements
    skipDepth,     \* skip_depth
    titleAt,       \* which text is the title, 0 for none (title_taken)
    textAt,        \* the texts captured as content
    hrefs,         \* raw links
    base,          \* base_href, or "none"
    description, ogDescription

pageVars == <<tokens, open, skipDepth, titleAt, textAt, hrefs, base,
              description, ogDescription>>

PageInit ==
    /\ tokens = << >> /\ open = << >> /\ skipDepth = 0 /\ titleAt = 0
    /\ textAt = << >> /\ hrefs = << >> /\ base = "none"
    /\ description = 0 /\ ogDescription = 0

Sees(kind, what) ==
    /\ Len(tokens) < MaxTokens
    /\ tokens' = Append(tokens, [kind |-> kind, what |-> what])

Place == Len(tokens) + 1

\* A counter, so that boilerplate inside boilerplate unwinds.
StartTag(name) ==
    /\ Sees("start", name)
    /\ open' = Append(open, name)
    /\ skipDepth' = IF name \in Boilerplate THEN skipDepth + 1 ELSE skipDepth
    /\ UNCHANGED <<titleAt, textAt, hrefs, base, description, ogDescription>>

\* (mutant: a flag in place of a counter)
Lowered(depth) == 0
\* saturating_sub(1)
Less(depth) == IF depth = 0 THEN 0 ELSE depth - 1

\* Closes the innermost element of that name, and what was left open inside.
EndTag(name) ==
    /\ Sees("end", name)
    /\ LET places == {i \in DOMAIN open : open[i] = name}
           last   == CHOOSE i \in places : \A j \in places : j <= i
       IN  IF places = {} THEN UNCHANGED <<open, skipDepth>>
           ELSE /\ open' = SubSeq(open, 1, last - 1)
                /\ skipDepth' = IF name \in Boilerplate THEN Less(skipDepth) ELSE skipDepth
    /\ UNCHANGED <<titleAt, textAt, hrefs, base, description, ogDescription>>

Text ==
    /\ Sees("text", "body")
    /\ textAt' = IF skipDepth = 0 THEN Append(textAt, Place) ELSE textAt
    /\ UNCHANGED <<open, skipDepth, titleAt, hrefs, base, description, ogDescription>>

\* Only the first title is the document's: later ones are in images.
TitleText ==
    /\ Sees("text", "title")
    /\ titleAt' = IF titleAt = 0 THEN Place ELSE titleAt
    /\ UNCHANGED <<open, skipDepth, textAt, hrefs, base, description, ogDescription>>

Anchor(href) ==
    /\ Sees("link", href)
    /\ hrefs' = Append(hrefs, href)
    /\ UNCHANGED <<open, skipDepth, titleAt, textAt, base, description, ogDescription>>

\* The last one stands.
BaseTag(href) ==
    /\ Sees("base", href)
    /\ base' = href
    /\ UNCHANGED <<open, skipDepth, titleAt, textAt, hrefs, description, ogDescription>>

MetaTag(kind) ==
    /\ Sees("meta", kind)
    /\ IF kind = "description"
       THEN description' = Place /\ UNCHANGED ogDescription
       ELSE ogDescription' = Place /\ UNCHANGED description
    /\ UNCHANGED <<open, skipDepth, titleAt, textAt, hrefs, base>>

PageNext ==
    \/ \E name \in Boilerplate \cup Plain : StartTag(name) \/ EndTag(name)
    \/ Text \/ TitleText
    \/ \E href \in Href : Anchor(href)
    \/ \E href \in BaseHref : BaseTag(href)
    \/ \E kind \in {"description", "og"} : MetaTag(kind)

PageSpec == PageInit /\ [][PageNext]_pageVars

(***************************************************************************)
(* The end of the page: base.unwrap_or(page URL), links in order, each     *)
(* once; nothing if the base does not parse.                               *)
(***************************************************************************)
ResolutionBase == IF base = "none" THEN PageUrl ELSE base

\* (mutant: links are told apart before they are resolved)
DedupRaw(raw, b) ==
    LET Keep(i) == \A j \in 1 .. i - 1 : raw[j] # raw[i]
        kept == SelectSeq([i \in DOMAIN raw |-> i], Keep)
    IN  SelectSeq([k \in DOMAIN kept |-> Resolved[b][raw[kept[k]]]], LAMBDA u : u # "none")

ResolveLinks(raw, b) ==
    LET found[n \in 0 .. Len(raw)] ==
          IF n = 0 THEN << >>
          ELSE LET url == Resolved[b][raw[n]]
               IN  IF url = "none" \/ url \in ToSet(found[n - 1]) THEN found[n - 1]
                   ELSE Append(found[n - 1], url)
    IN  IF b \in Absolute THEN found[Len(raw)] ELSE << >>

MetaDescription == IF description # 0 THEN description ELSE ogDescription

-----------------------------------------------------------------------------
Texts == {i \in DOMAIN tokens : tokens[i] = [kind |-> "text", what |-> "body"]}

\* Elements of a name open before token i, by the page alone: tags that start
\* one, less tags that end one.
Tags(kind, name, i) == {m \in 1 .. i - 1 : tokens[m] = [kind |-> kind, what |-> name]}
Level(name, i) == Cardinality(Tags("start", name, i)) - Cardinality(Tags("end", name, i))

\* The boilerplate that token i is in: started before it and at no place
\* since back to the level it was started at.
Inside(i) ==
    {j \in 1 .. i - 1 :
        /\ tokens[j].kind = "start" /\ tokens[j].what \in Boilerplate
        /\ \A m \in j + 1 .. i : Level(tokens[j].what, m) > Level(tokens[j].what, j)}

\* Every end tag closes what was opened last and is open still: what stands
\* between the two opens and closes by itself.
WellNested ==
    \A i \in DOMAIN tokens : tokens[i].kind = "end" =>
        \E j \in 1 .. i - 1 :
            /\ tokens[j] = [kind |-> "start", what |-> tokens[i].what]
            /\ \A name \in Boilerplate \cup Plain :
                  /\ Level(name, i) = Level(name, j + 1)
                  /\ \A m \in j + 1 .. i : Level(name, m) >= Level(name, j + 1)

(***************************************************************************)
(* However tags are nested, left open or closed twice, no text inside      *)
(* boilerplate becomes content; and where they nest, no other text is lost.*)
(***************************************************************************)
TextIsContent ==
    /\ \A i \in ToSet(textAt) : Inside(i) = {}
    /\ WellNested => \A i \in Texts : Inside(i) = {} => i \in ToSet(textAt)

(***************************************************************************)
(* The links of a page with no base, or one that is a URL, are exactly     *)
(* what its anchors name, each once, in the order they first occur,        *)
(* wherever the base stands among them.                                    *)
(***************************************************************************)
LinksAreTheAnchors ==
    LET urls == ResolveLinks(hrefs, ResolutionBase)
        named == [i \in DOMAIN hrefs |-> Resolved[ResolutionBase][hrefs[i]]]
    IN  ResolutionBase \in Absolute =>
          /\ ToSet(urls) = ToSet(named) \ {"none"}
          /\ \A i, j \in DOMAIN urls : i < j =>
                /\ urls[i] # urls[j]
                /\ \E k \in DOMAIN named : named[k] = urls[i] /\ \A m \in 1 .. k : named[m] # urls[j]
=============================================================================
