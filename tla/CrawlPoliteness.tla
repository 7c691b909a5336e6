--------------------------- MODULE CrawlPoliteness ---------------------------
(***************************************************************************)
(* How fast the crawler contacts a host.  A history variable measures what *)
(* the code does not: the time since it last asked the host for something, *)
(* robots.txt or a page.  The redirects and retries within one fetch       *)
(* (module Fetcher) are not counted here.                                  *)
(***************************************************************************)
EXTENDS CrawlLoop

VARIABLE gap    \* what is left of the default delay since the last request

politeVars == <<vars, gap>>

PoliteInit == Init /\ gap = [h \in Host |-> 0]

\* A visit that learned in this step that it may fetch its page, and does.
GoesOn(v) ==
    \E w \in flying' : /\ w.job = v.job
                       /\ v.rules = "none" /\ w.rules # "none"
                       /\ Allows(w.rules, w.job.url)

\* A request a step makes: the first of a visit, or its page after robots.txt.
Asks(h) ==
    \/ inFlight'[h] > inFlight[h]
    \/ \E v \in flying : HostOf[v.job.url] = h /\ GoesOn(v)

PoliteNext ==
    \/ /\ Dispatch \/ \E v \in flying : FetchRobots(v)
       /\ gap' = [h \in Host |-> IF Asks(h) THEN DefaultDelay ELSE gap[h]]
    \/ /\ TimePasses
       /\ gap' = [h \in Host |-> IF gap[h] > 0 THEN gap[h] - 1 ELSE 0]
    \/ /\ \/ Start \/ TakeSeed \/ TakeSitemap \/ TakePageLink \/ EndOfList
          \/ Receive \/ Defer \/ Conclude \/ Decide \/ EndDispatch
          \/ Drained \/ WakeUp \/ Seal \/ Save \/ Interrupt \/ Kill \/ IoError
          \/ \E v \in flying : Finish(v)
       /\ UNCHANGED gap

PoliteSpec == PoliteInit /\ [][PoliteNext]_politeVars

(***************************************************************************)
(* What the frontier's window gives: no visit of a host is spawned before  *)
(* the default delay has passed since the last request of an earlier one.  *)
(* It says nothing of the requests a visit makes itself.                   *)
(***************************************************************************)
GapIsKept ==
    [][\A h \in Host : inFlight'[h] > inFlight[h] => gap[h] = 0]_politeVars

(***************************************************************************)
(* "Minimum delay between two requests to the same host, in milliseconds.  *)
(* Always applied" (the --politeness-delay-ms flag): no request, the page  *)
(* after robots.txt included, before the delay has passed since the last.  *)
(***************************************************************************)
RequestGapIsKept ==
    [][\A h \in Host : Asks(h) => gap[h] = 0]_politeVars

(***************************************************************************)
(* "A host is never contacted faster than its Crawl-delay": only time      *)
(* shortens a politeness window.  defer_host overwrites, so a late answer  *)
(* that knows no Crawl-delay must not follow one that does.                *)
(***************************************************************************)
WindowIsNeverCut ==
    [][\A h \in Host : window'[h] < window[h] => TimePasses]_politeVars

(***************************************************************************)
(* A robots.txt that was fetched is not replaced in the cache by the       *)
(* disallow_all of a request that failed to get it while it is fresh.      *)
(***************************************************************************)
FileOutlivesOutage ==
    [][\A h \in Host : robots[h].rules = "file"
                           => robots'[h].rules \in {"file", "none"}]_politeVars

-----------------------------------------------------------------------------
(***************************************************************************)
(* What the properties rest on when a host is asked one thing at a time.   *)
(***************************************************************************)

\* The host whose answer was booked, and whose window is about to open.
Deferring(h) == pc = "defer" /\ HostOf[current.job.url] = h

\* A host with a visit outstanding or just booked has no window left, so its
\* answer opens one where there is none; and the visit booked was its only one.
WindowIsOver ==
    \A h \in Host :
        /\ inFlight[h] > 0 \/ Deferring(h) => window[h] <= 0
        /\ Deferring(h) => inFlight[h] = 0

\* A visit that has to learn the rules of its host, or an answer that brings
\* them, finds none in the cache.
RulesAreMissing ==
    /\ \A v \in flying :
          v.rules = "none" \/ v.learned # "none"
              => robots[HostOf[v.job.url]] = Absent
    /\ \A o \in Range(channel) :
          o.learned # "none" => robots[HostOf[o.job.url]] = Absent

\* What is left of the default delay is covered by the visit it is the delay
\* of, and then by the window its answer opened.
GapIsCovered ==
    /\ gap \in [Host -> Nat]
    /\ \A h \in Host :
          /\ gap[h] <= DefaultDelay
          /\ inFlight[h] = 0 /\ ~Deferring(h)
                => gap[h] = 0 \/ gap[h] <= window[h]
=============================================================================
