----------------------------- MODULE MCCrawlLoop -----------------------------
(***************************************************************************)
(* A small web for the crawler: two hosts, three pages that link to each   *)
(* other in a cycle, and a sitemap that the first host declares.  Links    *)
(* are spelled as the URLs they stand for, but for two: a tracking         *)
(* spelling of a page, and a mailto: link that cannot be fetched.          *)
(***************************************************************************)
EXTENDS CrawlLoop

CONSTANTS a1, a2, b1, map1, tracked, mailto

Site  == {a1, a2, b1, map1}

Spellings == Site \cup {tracked, mailto}

CanonicalOf == [l \in Spellings |-> CASE l = tracked -> a2
                                      [] l = mailto  -> Unfetchable
                                      [] OTHER       -> l]

HostIn == [u \in Url |-> IF u = b1 THEN 2 ELSE 1]

Listed == [u \in Url |-> CASE u = a1 -> <<tracked, mailto, b1>>
                           [] u = a2 -> <<a2, a1>>
                           [] u = b1 -> <<a1, a2>>
                           [] OTHER  -> <<a2, b1>>]

Declared   == [h \in 1 .. 2 |-> IF h = 1 THEN <<map1>> ELSE << >>]
Undeclared == [h \in 1 .. 2 |-> << >>]

Direct     == [u \in Url |-> u]
Redirected == [u \in Url |-> IF u = a2 THEN b1 ELSE u]

SeedsA  == {<<a1>>}
SeedsAB == {<<a1>>, <<b1, a1>>}

ExactBits == [u \in Url |-> {u}]
\* a1 and b1 between them set the bits of a2.
MixedBits == [u \in Url |-> CASE u = a2 -> {a1, b1} [] OTHER -> {u}]

NoDelay   == [h \in 1 .. 2 |-> 0]
SlowFirst == [h \in 1 .. 2 |-> IF h = 1 THEN 2 ELSE 0]
=============================================================================
