---------------------------- MODULE SitemapScan ----------------------------
(***************************************************************************)
(* sitemap::parse, one record a step: find `<loc', its `>', then `</loc';  *)
(* the value between them is a record.  A document is a sequence of the    *)
(* symbols the scanner tells apart; a value is what stands where a URL     *)
(* should, and UrlOf says what normalize makes of it.                      *)
(***************************************************************************)
EXTENDS Naturals, Sequences, FiniteSets, SequencesExt

CONSTANTS
    Value,        \* values a <loc> may hold
    UrlOf,        \* value -> URL, or "none" for no absolute http(s) URL
    MaxRecords    \* bound: records of a document

Opening == "<loc"  \* matched without regard to case, in any tag that begins so
Closing == "</loc"
TagEnd == ">"

ASSUME SitemapAssumption ==
    /\ DOMAIN UrlOf = Value /\ {Opening, Closing, TagEnd} \cap Value = {}
    /\ MaxRecords \in Nat

VARIABLES
    document,   \* the body
    restAt,     \* symbols the scanner has passed
    urls,       \* what it found
    scanning

scanVars == <<document, restAt, urls, scanning>>

\* The first place of a symbol after n, 0 if there is none.
FindFrom(n, symbol) ==
    LET places == {i \in n + 1 .. Len(document) : document[i] = symbol}
    IN  IF places = {} THEN 0 ELSE CHOOSE i \in places : \A j \in places : i <= j

\* normalize: CDATA unwrapped, entities decoded, an absolute http(s) URL or
\* nothing; a value with markup in it is none.
Normalize(content) ==
    IF Len(content) = 1 /\ content[1] \in Value THEN UrlOf[content[1]] ELSE "none"

StopScan == scanning' = FALSE /\ UNCHANGED <<document, restAt, urls>>

\* (mutant: resume after the opening tag)
ResumeAtContent(tagEnd, closing) == tagEnd
\* Resume at the closing tag: a <loc> inside a value is not read again.
Resume(tagEnd, closing) == closing - 1

ScanRecord ==
    /\ scanning
    /\ LET opening == FindFrom(restAt, Opening)
           tagEnd  == FindFrom(opening, TagEnd)
           closing == FindFrom(tagEnd, Closing)
           url     == Normalize(SubSeq(document, tagEnd + 1, closing - 1))
       IN  IF opening = 0 \/ tagEnd = 0 \/ closing = 0 THEN StopScan
           ELSE /\ restAt' = Resume(tagEnd, closing)
                /\ urls' = IF url = "none" THEN urls ELSE Append(urls, url)
                /\ UNCHANGED <<document, scanning>>

\* A record as a site writes it, and as it may be damaged: no end tag, a tag
\* cut short, a <loc> within a <loc>.
Good(v) == <<Opening, TagEnd, v, Closing, TagEnd>>
Damaged(v) == {<<Opening, TagEnd, v>>, <<Opening>>, <<Opening, TagEnd>> \o Good(v)}

RecordsOf(n) == [1 .. n -> {Good(v) : v \in Value}]

ScanInit ==
    /\ \E n \in 0 .. MaxRecords : \E records \in RecordsOf(n) :
          LET whole == FlattenSeq(records)
          IN  \/ \E cut \in 0 .. Len(whole) : document = SubSeq(whole, 1, cut)
              \/ \E k \in 1 .. n, v \in Value : \E record \in Damaged(v) :
                    document = FlattenSeq([records EXCEPT ![k] = record])
    /\ restAt = 0 /\ urls = << >> /\ scanning = TRUE

ScanNext == ScanRecord

ScanSpec == ScanInit /\ [][ScanNext]_scanVars

-----------------------------------------------------------------------------
\* The places of values in well-formed records of the document.
Whole(i) ==
    /\ i > 2 /\ i < Len(document)
    /\ document[i - 2] = Opening /\ document[i - 1] = TagEnd
    /\ document[i] \in Value /\ document[i + 1] = Closing
\* A record is swallowed by an opening tag before it that is never closed.
Swallowed(i) ==
    \E d \in 1 .. i - 3 :
        /\ document[d] = Opening /\ document[d + 1] = TagEnd
        /\ \A j \in d .. i : document[j] # Closing

(***************************************************************************)
(* sitemap::parse on whole, cut and damaged documents: every well-formed   *)
(* record yields its URL, once and in order, and nothing else yields any;  *)
(* an unclosed <loc> costs the one record after it, no other damage costs  *)
(* one.  In particular a document cut anywhere, as the cap of the unpacked *)
(* size cuts it, yields the records before the cut.                        *)
(***************************************************************************)
SitemapIsRead ==
    ~scanning =>
        LET read == {i \in DOMAIN document :
                        Whole(i) /\ ~Swallowed(i) /\ UrlOf[document[i]] # "none"}
        IN  /\ Len(urls) = Cardinality(read)
            /\ \A i \in read : urls[Cardinality({j \in read : j <= i})] = UrlOf[document[i]]
=============================================================================
