---------------------------- MODULE CrawlProofs ------------------------------
(***************************************************************************)
(* The safety of the crawl loop, for any web, any number of hosts, workers *)
(* and bits of the filter, any limits and any number of kills; and the     *)
(* politeness of a crawl that asks a host one thing at a time (--per-host  *)
(* 1), for any delays.                                                     *)
(***************************************************************************)
EXTENDS CrawlPoliteness, FiniteSetTheorems, LoopTheorems

-----------------------------------------------------------------------------
(* The job that is popped *)

\* A non-empty set of naturals has a least element, which Min returns.
LEMMA MinIsLeast ==
    ASSUME NEW S, S \subseteq Nat, S # {}
    PROVE  /\ Min(S) \in S
           /\ \A x \in S : Min(S) <= x
<1>1. PICK x \in S : \A y \in S : x <= y
  BY LeastOf
<1> QED
  BY <1>1 DEF Min

\* pop_ready returns an entry of the queue, of the first host that is ready.
LEMMA NextJobIsQueued ==
    ASSUME TypeOK, NEW skip, Ready(skip) # {}
    PROVE  /\ NextJob(skip) \in queued
           /\ NextJob(skip) \in Job
           /\ HostOf[NextJob(skip).url] \in Host
           /\ HostOf[NextJob(skip).url] \in Ready(skip)
<1> DEFINE h == Min(Ready(skip))
<1>1. queued \subseteq Job
  BY DEF TypeOK, FrontierTypeOK
<1>2. Ready(skip) \subseteq Host /\ Host \subseteq Nat
  BY FrontierAssumption DEF Ready, Examined, Waiting, Host
<1>3. h \in Ready(skip)
  BY <1>2, MinIsLeast
<1> HIDE DEF h
<1>4. h \in Waiting
  BY <1>3 DEF Ready, Examined
<1>5. EntriesOf(h) # {} /\ EntriesOf(h) \subseteq Job
  BY <1>1, <1>4 DEF Waiting, EntriesOf
<1> DEFINE Keys == {e.seq : e \in EntriesOf(h)}
<1>6. Keys \subseteq Nat /\ Keys # {}
  BY <1>5 DEF Job
<1>7. Min(Keys) \in Keys /\ \A k \in Keys : Min(Keys) <= k
  BY <1>6, MinIsLeast
<1>8. PICK e \in EntriesOf(h) : e.seq = Min(Keys)
  BY <1>7
<1>9. \A f \in EntriesOf(h) : e.seq <= f.seq
  BY <1>7, <1>8
<1>10. HeadOf(h) \in EntriesOf(h)
  BY <1>9 DEF HeadOf
<1>11. NextJob(skip) = HeadOf(h)
  BY DEF NextJob, h
<1> QED
  BY <1>1, <1>2, <1>3, <1>10, <1>11 DEF EntriesOf

-----------------------------------------------------------------------------
(* Type correctness *)

\* What pushing a job does, field by field.
LEMMA PushShape ==
    ASSUME TypeOK, NEW u \in Url, NEW depth \in 0 .. Depths, Push(u, depth)
    PROVE  LET h   == HostOf[u]
               new == [url |-> u, depth |-> depth, seq |-> frontier.sequence + 1]
           IN  /\ h \in Host
               /\ new \in Job
               /\ queued' = (queued \ {e \in EntriesOf(h) :
                                          e.seq = frontier.sequence + 1})
                            \cup {new}
               /\ frontier'.sequence = frontier.sequence + 1
               /\ frontier'.pending = frontier.pending + 1
               /\ frontier'.hosts = frontier.hosts
                                       + (IF window[h] = Unknown THEN 1 ELSE 0)
               /\ frontier' \in Counters
               /\ meta'.sequence = frontier.sequence + 1
               /\ meta'.pending = frontier.pending + 1
               /\ meta'.hosts = IF window[h] = Unknown THEN frontier.hosts + 1
                                                       ELSE meta.hosts
               /\ meta' \in Counters
               /\ window' = IF window[h] = Unknown
                            THEN [window EXCEPT ![h] = 0] ELSE window
<1> DEFINE h     == HostOf[u]
           isNew == window[h] = Unknown
           next  == [sequence |-> frontier.sequence + 1,
                     pending  |-> frontier.pending + 1,
                     hosts    |-> frontier.hosts + (IF isNew THEN 1 ELSE 0)]
           new   == [url |-> u, depth |-> depth, seq |-> frontier.sequence + 1]
<1>1. h \in Host
  BY FrontierAssumption
<1>2. frontier \in Counters /\ meta \in Counters
  BY DEF TypeOK, FrontierTypeOK
<1>3. /\ frontier.sequence \in Nat /\ frontier.pending \in Nat
      /\ frontier.hosts \in Nat /\ meta.hosts \in Nat
  BY <1>2 DEF Counters
<1>4. new \in Job
  BY <1>3 DEF Job
<1>5. next \in Counters
  BY <1>3 DEF Counters
<1>6. /\ frontier' = next
      /\ meta' = IF isNew THEN next ELSE [next EXCEPT !.hosts = meta.hosts]
      /\ window' = IF isNew THEN [window EXCEPT ![h] = 0] ELSE window
      /\ queued' = (queued \ {e \in EntriesOf(h) : e.seq = next.sequence})
                   \cup {new}
  BY DEF Push
<1>7. next.sequence = frontier.sequence + 1
  OBVIOUS
<1>8. [next EXCEPT !.hosts = meta.hosts]
         = [sequence |-> frontier.sequence + 1,
            pending  |-> frontier.pending + 1, hosts |-> meta.hosts]
  OBVIOUS
<1>9. [sequence |-> frontier.sequence + 1,
       pending  |-> frontier.pending + 1, hosts |-> meta.hosts] \in Counters
  BY <1>3 DEF Counters
<1> QED
  BY <1>1, <1>4, <1>5, <1>6, <1>7, <1>8, <1>9

\* What going through one link does: nothing to the queue, or a push of a URL
\* the filter had not seen.
LEMMA TakeLinkShape ==
    ASSUME TypeOK, NEW admitted \in SUBSET Url, NEW depth,
           todo # << >> => depth \in 0 .. Depths,
           TakeLink(admitted, depth)
    PROVE  /\ depth \in 0 .. Depths
           /\ todo' \in Seq(Link)
           /\ UNCHANGED <<robots, archive, pc, current, flying, channel,
                          inFlight, inFlightTotal, shuttingDown, indexed, kills>>
           /\ \/ UNCHANGED <<frontierVars, seenVars>>
              \/ \E u \in admitted : IsNew(u) /\ Insert(u) /\ Push(u, depth)
<1>1. todo \in Seq(Link) /\ todo # << >>
  BY DEF TypeOK, LoopTypeOK, TakeLink
<1> QED
  BY <1>1 DEF TakeLink, Enqueue

\* Before the first start every variable has its type.
LEMMA InitTypeOK == Init => TypeOK
<1> SUFFICES ASSUME Init PROVE TypeOK
  OBVIOUS
<1>1. FrontierTypeOK
  BY DEF Init, FrontierInit, FrontierTypeOK, Zero, Counters, Unknown
<1>2. SeenTypeOK
  BY DEF Init, SeenInit, SeenTypeOK
<1>3. LoopTypeOK
  <2>1. robots \in [Host -> Cached \cup {Absent}] /\ inFlight \in [Host -> Nat]
    BY DEF Init, NoVisits
  <2>2. archive \in [open : SUBSET Url, sealed : SUBSET Url]
    BY DEF Init
  <2>3. todo \in Seq(Link) /\ channel \in Seq(Outcome) /\ pc \in PCs
    BY DEF Init, PCs
  <2> QED
    BY <2>1, <2>2, <2>3 DEF Init, LoopTypeOK
<1> QED
  BY <1>1, <1>2, <1>3 DEF TypeOK

\* The parts of the type invariant, to be disturbed one at a time.
LEMMA TakeLinkType ==
    ASSUME TypeOK, NEW admitted \in SUBSET Url, NEW depth,
           todo # << >> => depth \in 0 .. Depths,
           TakeLink(admitted, depth)
    PROVE  TypeOK'
<1> USE FrontierAssumption, SeenAssumption, CrawlAssumption
<1>1. /\ depth \in 0 .. Depths
      /\ todo' \in Seq(Link)
      /\ UNCHANGED <<robots, archive, pc, current, flying, channel,
                     inFlight, inFlightTotal, shuttingDown, indexed, kills>>
      /\ \/ UNCHANGED <<frontierVars, seenVars>>
         \/ \E u \in admitted : IsNew(u) /\ Insert(u) /\ Push(u, depth)
  BY TakeLinkShape
<1>2. LoopTypeOK'
  BY <1>1 DEF TypeOK, LoopTypeOK
<1>3. CASE UNCHANGED <<frontierVars, seenVars>>
  BY <1>2, <1>3 DEF TypeOK, FrontierTypeOK, SeenTypeOK, frontierVars, seenVars
<1>4. ASSUME NEW u \in admitted, Insert(u), Push(u, depth) PROVE TypeOK'
  <2>1. SeenTypeOK'
    BY <1>4 DEF Insert, TypeOK, SeenTypeOK
  <2>2. queued' \subseteq Job /\ frontier' \in Counters /\ meta' \in Counters
    BY <1>1, <1>4, PushShape, ZenonT(30) DEF TypeOK, FrontierTypeOK
  <2>3. window' \in [Host -> Nat \cup {Unknown}]
    <3>1. /\ HostOf[u] \in Host
          /\ window' = IF window[HostOf[u]] = Unknown
                       THEN [window EXCEPT ![HostOf[u]] = 0] ELSE window
      BY <1>1, <1>4, PushShape
    <3> QED
      BY <3>1 DEF TypeOK, FrontierTypeOK
  <2> QED
    BY <1>2, <2>1, <2>2, <2>3 DEF TypeOK, FrontierTypeOK
<1> QED
  BY <1>1, <1>3, <1>4

\* A visit that read robots.txt is a visit of the same job.
LEMMA LearnsType ==
    ASSUME NEW v \in Visit, NEW answer \in Rules
    PROVE  /\ Learned(v, answer) \in Visit
           /\ Learned(v, answer).job = v.job
           /\ Learned(v, answer).rules = answer
           /\ Learned(v, answer).learned = answer
  BY DEF Visit, Learned

\* A visit sends an outcome.
LEMMA AnswerType ==
    ASSUME NEW v \in Visit, NEW works \in BOOLEAN
    PROVE  /\ Answer(v, works) \in Outcome
           /\ Answer(v, works).job = v.job
           /\ Answer(v, works).learned = v.learned
<1>1. HostOf[v.job.url] \in Host /\ v.job \in Job
  BY FrontierAssumption DEF Visit, Job
<1>2. \A r : DelayOf(r, HostOf[v.job.url]) \in Nat
  BY <1>1, CrawlAssumption DEF DelayOf
<1> QED
  BY <1>1, <1>2 DEF Answer, Outcome, Visit

\* Absorbing an answer books it, and leaves rules of a known kind in the cache.
\* Then the window of its host opens.
LEMMA ReceiveType ==
    ASSUME TypeOK, Receive
    PROVE  /\ TypeOK'
           /\ Head(channel) \in Outcome
           /\ HostOf[Head(channel).job.url] \in Host
<1> USE FrontierAssumption, CrawlAssumption
<1> DEFINE o == Head(channel)
           h == HostOf[o.job.url]
<1>1. channel \in Seq(Outcome) /\ channel # << >>
  BY DEF TypeOK, LoopTypeOK, Receive
<1>2. o \in Outcome /\ Tail(channel) \in Seq(Outcome)
  BY <1>1
<1>3. o.job \in Job /\ o.learned \in Rules \cup {"none"} /\ o.delay \in Nat
  BY <1>2 DEF Outcome
<1>4. h \in Host
  BY <1>3 DEF Job
<1>5. TtlOf(o.learned) \in Nat
  BY <1>3 DEF TtlOf
<1>6. /\ Bookkeep(h)
      /\ robots' = IF o.learned = "none" THEN robots
                   ELSE [robots EXCEPT ![h] = [rules |-> o.learned,
                                               left  |-> TtlOf(o.learned)]]
      /\ current' = o
      /\ channel' = Tail(channel)
      /\ pc' = "defer"
      /\ UNCHANGED <<frontierVars, seenVars, archive, todo, flying, shuttingDown,
                     indexed, kills>>
  BY DEF Receive
<1> HIDE DEF o, h
<1>7. FrontierTypeOK'
  BY <1>6 DEF TypeOK, FrontierTypeOK, frontierVars
<1>8. SeenTypeOK'
  BY <1>6 DEF TypeOK, SeenTypeOK, seenVars
<1>9. robots' \in [Host -> Cached \cup {Absent}]
  BY <1>3, <1>4, <1>5, <1>6 DEF TypeOK, LoopTypeOK, Cached
<1>10. todo' \in Seq(Link)
  BY <1>6 DEF TypeOK, LoopTypeOK
<1>11. inFlight' \in [Host -> Nat] /\ inFlightTotal' \in Nat
  BY <1>4, <1>6 DEF TypeOK, LoopTypeOK, Bookkeep
<1>12. LoopTypeOK'
  BY <1>2, <1>6, <1>9, <1>10, <1>11 DEF TypeOK, LoopTypeOK, PCs
<1> QED
  BY <1>2, <1>4, <1>7, <1>8, <1>12 DEF TypeOK, o, h

LEMMA DeferType ==
    ASSUME TypeOK, OwnerIsInOrder, Defer
    PROVE  /\ TypeOK'
           /\ current \in Outcome
           /\ HostOf[current.job.url] \in Host
           /\ PolitenessDelay(DefaultDelay, current.delay) \in Nat
<1> USE FrontierAssumption, CrawlAssumption
<1> DEFINE h == HostOf[current.job.url]
<1>1. current \in Outcome
  BY DEF Defer, OwnerIsInOrder
<1>2. current.job \in Job /\ current.delay \in Nat
  BY <1>1 DEF Outcome
<1>3. h \in Host
  BY <1>2 DEF Job
<1>4. PolitenessDelay(DefaultDelay, current.delay) \in Nat
  BY <1>2 DEF PolitenessDelay
<1>5. /\ DeferHost(h, PolitenessDelay(DefaultDelay, current.delay))
      /\ todo' = IF current.learned = "file" THEN SitemapsOf[h] ELSE << >>
      /\ pc' = "sitemaps"
      /\ UNCHANGED <<seenVars, robots, archive, current, flying, channel,
                     inFlight, inFlightTotal, shuttingDown, indexed, kills>>
  BY DEF Defer
<1> HIDE DEF h
<1>6. FrontierTypeOK'
  BY <1>3, <1>4, <1>5 DEF TypeOK, FrontierTypeOK, DeferHost
<1>7. SeenTypeOK'
  BY <1>5 DEF TypeOK, SeenTypeOK, seenVars
<1>8. todo' \in Seq(Link)
  BY <1>3, <1>5
<1>9. LoopTypeOK'
  BY <1>5, <1>8 DEF TypeOK, LoopTypeOK, PCs
<1> QED
  BY <1>1, <1>3, <1>4, <1>6, <1>7, <1>9 DEF TypeOK, h

\* The popped job becomes a visit.
LEMMA DispatchShape ==
    ASSUME TypeOK, Dispatch
    PROVE  \E e \in queued :
              LET h == HostOf[e.url]
                  v == [job |-> e, rules |-> robots[h].rules, learned |-> "none"]
              IN  /\ h \in Host /\ h \notin Saturated /\ window[h] <= 0
                  /\ v \in Visit
                  /\ queued' = queued \ {e}
                  /\ frontier'.sequence = frontier.sequence
                  /\ frontier'.hosts = frontier.hosts
                  /\ frontier'.pending = IF frontier.pending > 0
                                         THEN frontier.pending - 1 ELSE 0
                  /\ frontier' \in Counters
                  /\ meta'.sequence = meta.sequence
                  /\ meta'.hosts = meta.hosts
                  /\ meta'.pending = frontier'.pending
                  /\ meta' \in Counters
                  /\ window' = window
                  /\ flying' = flying \cup {v}
                  /\ inFlight' = [inFlight EXCEPT ![h] = @ + 1]
                  /\ inFlightTotal' = inFlightTotal + 1
                  /\ UNCHANGED <<seenVars, robots, archive, pc, todo, current,
                                 channel, shuttingDown, indexed, kills>>
<1> DEFINE e    == NextJob(Saturated)
           h    == HostOf[e.url]
           v    == [job |-> e, rules |-> robots[h].rules, learned |-> "none"]
           left == IF frontier.pending > 0 THEN frontier.pending - 1 ELSE 0
<1>1. /\ e \in queued /\ e \in Job /\ h \in Host /\ h \in Ready(Saturated)
  BY NextJobIsQueued DEF Dispatch
<1>2. h \notin Saturated /\ window[h] <= 0
  BY <1>1 DEF Ready
<1>3. robots[h] \in Cached \cup {Absent}
  BY <1>1 DEF TypeOK, LoopTypeOK
<1>4. v \in Visit
  BY <1>1, <1>3 DEF Visit, Cached, Absent
<1>5. /\ queued' = queued \ {e}
      /\ frontier' = [frontier EXCEPT !.pending = left]
      /\ meta' = [meta EXCEPT !.pending = left]
      /\ window' = window
      /\ flying' = flying \cup {v}
      /\ inFlight' = [inFlight EXCEPT ![h] = @ + 1]
      /\ inFlightTotal' = inFlightTotal + 1
      /\ UNCHANGED <<seenVars, robots, archive, pc, todo, current, channel,
                     shuttingDown, indexed, kills>>
  BY DEF Dispatch, Forget
<1>6. frontier \in Counters /\ meta \in Counters /\ left \in Nat
  BY DEF TypeOK, FrontierTypeOK, Counters
<1> HIDE DEF left
<1>7. /\ frontier' \in Counters /\ meta' \in Counters
      /\ frontier'.sequence = frontier.sequence
      /\ frontier'.hosts = frontier.hosts
      /\ frontier'.pending = left
      /\ meta'.sequence = meta.sequence
      /\ meta'.hosts = meta.hosts
      /\ meta'.pending = left
  BY <1>5, <1>6 DEF Counters
<1> HIDE DEF e
<1> QED
  BY <1>1, <1>2, <1>4, <1>5, <1>7 DEF left

\* The three lists of links are gone through alike, at a depth a job can have.
LEMMA TakeLinkIsTaken ==
    ASSUME OwnerIsInOrder, TakeSeed \/ TakeSitemap \/ TakePageLink
    PROVE  \E admitted, depth :
              /\ admitted \in SUBSET Url
              /\ todo # << >> => depth \in 0 .. Depths
              /\ TakeLink(admitted, depth)
<1>1. Url \in SUBSET Url /\ Schedulable \in SUBSET Url
  BY DEF Schedulable
<1>2. 0 \in 0 .. Depths
  BY FrontierAssumption
<1>3. CASE TakeSeed
  BY <1>1, <1>2, <1>3 DEF TakeSeed
<1>4. CASE TakeSitemap
  BY <1>1, <1>2, <1>4 DEF TakeSitemap
<1>5. CASE TakePageLink
  <2>1. todo # << >> => LinkDepth(current) \in 0 .. Depths
    BY <1>5 DEF TakePageLink, OwnerIsInOrder
  <2> QED
    BY <1>1, <1>5, <2>1 DEF TakePageLink
<1> QED
  BY <1>3, <1>4, <1>5

\* Writing a page and sealing keep the archive a pair of sets of URLs.
LEMMA ArchiveType ==
    ASSUME TypeOK
    PROVE  /\ SealedArchive \in [open : SUBSET Url, sealed : SUBSET Url]
           /\ [archive EXCEPT !.open = {}]
                 \in [open : SUBSET Url, sealed : SUBSET Url]
           /\ \A u \in Url : WritePage(u) =>
                 archive' \in [open : SUBSET Url, sealed : SUBSET Url]
<1>1. archive \in [open : SUBSET Url, sealed : SUBSET Url]
  BY DEF TypeOK, LoopTypeOK
<1>2. archive.open \in SUBSET Url /\ archive.sealed \in SUBSET Url
  BY <1>1
<1>3. SealedArchive \in [open : SUBSET Url, sealed : SUBSET Url]
  BY <1>2 DEF SealedArchive
<1>4. \A S \in SUBSET Url : [archive EXCEPT !.open = S]
                                \in [open : SUBSET Url, sealed : SUBSET Url]
  BY <1>1
<1>5. ASSUME NEW u \in Url, WritePage(u)
      PROVE  archive' \in [open : SUBSET Url, sealed : SUBSET Url]
  <2>1. archive.open \cup {u} \in SUBSET Url
    BY <1>2
  <2>2. [archive EXCEPT !.open = @ \cup {u}]
           = [archive EXCEPT !.open = archive.open \cup {u}]
    OBVIOUS
  <2>3. [open |-> {}, sealed |-> archive.sealed \cup archive.open \cup {u}]
           \in [open : SUBSET Url, sealed : SUBSET Url]
    BY <1>2
  <2> QED
    BY <1>4, <1>5, <2>1, <2>2, <2>3 DEF WritePage
<1> QED
  BY <1>3, <1>4, <1>5

\* An entry of the rules cache ages into an entry or out of the cache.
LEMMA AgeType ==
    ASSUME NEW c \in Cached \cup {Absent}
    PROVE  Age(c) \in Cached \cup {Absent}
<1>1. CASE c = Absent \/ c.left = 0
  BY <1>1 DEF Age
<1>2. CASE c # Absent /\ c.left # 0
  <2>1. c \in [rules : Rules, left : Nat] /\ c.left - 1 \in Nat
    BY <1>2 DEF Cached
  <2>2. [c EXCEPT !.left = c.left - 1] \in [rules : Rules, left : Nat]
    BY <2>1
  <2>3. Age(c) = [c EXCEPT !.left = c.left - 1]
    BY <1>2 DEF Age
  <2> QED
    BY <2>2, <2>3 DEF Cached
<1> QED
  BY <1>1, <1>2

\* No step leaves the types.
LEMMA TypeStep ==
    ASSUME TypeOK, OwnerIsInOrder, JobsAreApart, [Next]_vars
    PROVE  TypeOK'
<1> USE FrontierAssumption, CrawlAssumption
<1>1. FrontierTypeOK /\ SeenTypeOK /\ LoopTypeOK
  BY DEF TypeOK
<1>2. SUFFICES FrontierTypeOK' /\ SeenTypeOK' /\ LoopTypeOK'
  BY <1>2 DEF TypeOK
<1>3. CASE UNCHANGED vars
  BY <1>1, <1>3 DEF vars, frontierVars, seenVars, loopVars, FrontierTypeOK,
                    SeenTypeOK, LoopTypeOK
<1>4. CASE Start
  <2>1. /\ UNCHANGED <<queued, window>>
        /\ frontier' = [sequence |-> meta.sequence,
                        pending  |-> Cardinality(queued),
                        hosts    |-> Cardinality(Known)]
        /\ meta' = frontier'
    BY <1>4 DEF Start, OpenFrontier
  <2>2. IsFiniteSet(Known) /\ IsFiniteSet(queued)
    <3>1. IsFiniteSet(Host)
      <4>1. 1 \in Int /\ Hosts \in Int
        OBVIOUS
      <4> QED
        BY ONLY <4>1, FS_Interval DEF Host
    <3>2. IsFiniteSet(Known)
      BY <3>1, FS_Subset DEF Known
    <3> QED
      BY <3>2 DEF JobsAreApart
  <2>3. frontier' \in Counters /\ meta' \in Counters
    BY <1>1, <2>1, <2>2, FS_CardinalityType DEF Counters, FrontierTypeOK
  <2> QED
    BY <1>1, <1>4, <2>1, <2>3
    DEF Start, OpenSeen, FrontierTypeOK, SeenTypeOK, LoopTypeOK, PCs
<1>5. CASE TakeSeed \/ TakeSitemap \/ TakePageLink
  <2>1. PICK admitted, depth :
            /\ admitted \in SUBSET Url
            /\ todo # << >> => depth \in 0 .. Depths
            /\ TakeLink(admitted, depth)
    BY <1>5, TakeLinkIsTaken
  <2> QED
    BY <2>1, TakeLinkType DEF TypeOK
<1>6. CASE Receive
  BY <1>6, ReceiveType DEF TypeOK
<1>15. CASE Defer
  BY <1>15, DeferType DEF TypeOK
<1>16. ASSUME NEW v \in flying, FetchRobots(v)
       PROVE  FrontierTypeOK' /\ SeenTypeOK' /\ LoopTypeOK'
  <2>1. v \in Visit
    BY <1>1 DEF LoopTypeOK
  <2>2. flying' \in SUBSET Visit
    <3>1. \E answer \in Rules : flying' = (flying \ {v}) \cup {Learned(v, answer)}
      BY <1>16 DEF FetchRobots
    <3> QED
      BY <1>1, <2>1, <3>1, LearnsType DEF LoopTypeOK
  <2> QED
    BY <1>1, <1>16, <2>2
    DEF FetchRobots, FrontierTypeOK, SeenTypeOK, LoopTypeOK, frontierVars,
        seenVars
<1>7. ASSUME NEW v \in flying, Finish(v)
      PROVE  FrontierTypeOK' /\ SeenTypeOK' /\ LoopTypeOK'
  <2>1. PICK works \in BOOLEAN : channel' = Append(channel, Answer(v, works))
    BY <1>7 DEF Finish
  <2>2. v \in Visit /\ channel \in Seq(Outcome)
    BY <1>1, <1>7 DEF LoopTypeOK
  <2>3. channel' \in Seq(Outcome)
    BY <2>1, <2>2, AnswerType
  <2> QED
    BY <1>1, <1>7, <2>3
    DEF Finish, FrontierTypeOK, SeenTypeOK, LoopTypeOK, frontierVars, seenVars
<1>8. CASE Conclude
  <2>1. current \in Outcome
    BY <1>8 DEF Conclude, OwnerIsInOrder
  <2>2. Landing[current.job.url] \in Url
    BY <2>1 DEF Outcome, Job
  <2>3. archive' \in [open : SUBSET Url, sealed : SUBSET Url]
    BY <1>1, <1>8, <2>2, ArchiveType DEF Conclude, LoopTypeOK, TypeOK
  <2>4. LinksOf[Landing[current.job.url]] \in Seq(Link) /\ << >> \in Seq(Link)
        /\ todo \in Seq(Link) /\ indexed \in Nat
    BY <1>1, <2>2 DEF LoopTypeOK
  <2>5. todo' \in Seq(Link) /\ indexed' \in Nat
    <3>1. \/ todo' = todo \/ todo' = << >>
          \/ todo' = LinksOf[Landing[current.job.url]]
      BY <1>8 DEF Conclude
    <3>2. indexed' = indexed \/ indexed' = indexed + 1
      BY <1>8 DEF Conclude
    <3>3. todo' \in Seq(Link)
      BY <2>4, <3>1
    <3> QED
      BY <2>4, <3>2, <3>3, SMTT(20)
  <2> QED
    BY <1>1, <1>8, <2>3, <2>5
    DEF Conclude, FrontierTypeOK, SeenTypeOK, LoopTypeOK, frontierVars, seenVars,
        PCs
<1>9. CASE Dispatch
  <2>1. PICK e \in queued :
            LET h == HostOf[e.url]
                v == [job |-> e, rules |-> robots[h].rules, learned |-> "none"]
            IN  /\ h \in Host
                /\ v \in Visit
                /\ queued' = queued \ {e}
                /\ frontier' \in Counters /\ meta' \in Counters
                /\ window' = window
                /\ flying' = flying \cup {v}
                /\ inFlight' = [inFlight EXCEPT ![h] = @ + 1]
                /\ inFlightTotal' = inFlightTotal + 1
                /\ UNCHANGED <<seenVars, robots, archive, pc, todo, current,
                               channel, shuttingDown, indexed, kills>>
    BY <1>9, DispatchShape
  <2>2. FrontierTypeOK' /\ SeenTypeOK'
    BY <1>1, <2>1 DEF FrontierTypeOK, SeenTypeOK, seenVars
  <2>3. LoopTypeOK'
    BY <1>1, <2>1 DEF LoopTypeOK
  <2> QED
    BY <2>2, <2>3
<1>10. CASE Seal
  <2>1. archive' \in [open : SUBSET Url, sealed : SUBSET Url]
    BY <1>10, ArchiveType DEF Seal
  <2> QED
    BY <1>1, <1>10, <2>1
    DEF Seal, FrontierTypeOK, SeenTypeOK, LoopTypeOK, frontierVars, seenVars, PCs
<1>14. CASE Kill \/ IoError
  <2>1. Gone
    BY <1>14 DEF Kill, IoError
  <2>2. archive' \in [open : SUBSET Url, sealed : SUBSET Url]
    BY <1>14, ArchiveType DEF Kill, IoError
  <2>3. inFlight' \in [Host -> Nat] /\ todo' \in Seq(Link)
        /\ channel' \in Seq(Outcome) /\ kills' \in Nat
    BY <1>1, <2>1 DEF Gone, NoVisits, LoopTypeOK
  <2>4. LoopTypeOK'
    BY <1>1, <2>1, <2>2, <2>3 DEF Gone, LoopTypeOK, PCs
  <2> QED
    BY <1>1, <2>1, <2>4
    DEF Gone, FrontierTypeOK, SeenTypeOK, frontierVars, seenVars
<1>11. CASE Save
  BY <1>1, <1>11 DEF Save, SaveSeen, FrontierTypeOK, SeenTypeOK, LoopTypeOK,
                     frontierVars, PCs
<1>12. CASE Tick
  <2>1. window' \in [Host -> Nat \cup {Unknown}]
    BY <1>1, <1>12 DEF Tick, TimePasses, WindowsPass, FrontierTypeOK, Unknown
  <2>2. robots' \in [Host -> Cached \cup {Absent}]
    <3>1. \A h \in Host : Age(robots[h]) \in Cached \cup {Absent}
      BY <1>1, AgeType DEF LoopTypeOK
    <3> QED
      BY <1>12, <3>1 DEF Tick, TimePasses
  <2> QED
    BY <1>1, <1>12, <2>1, <2>2
    DEF Tick, TimePasses, FrontierTypeOK, SeenTypeOK, LoopTypeOK, seenVars
<1>13. CASE EndOfList \/ Decide \/ EndDispatch \/ Drained \/ WakeUp \/ Interrupt
  BY <1>1, <1>13
  DEF EndOfList, Decide, EndDispatch, Drained, WakeUp, Interrupt, FrontierTypeOK,
      SeenTypeOK, LoopTypeOK, frontierVars, seenVars, PCs
<1> QED
  BY <1>3, <1>4, <1>5, <1>6, <1>7, <1>8, <1>9, <1>10, <1>11, <1>12,
     <1>13, <1>14, <1>15, <1>16
  DEF Next, Owner

-----------------------------------------------------------------------------
(* Where the jobs are *)

\* The elements of a sequence are its head and those of its tail.
LEMMA RangeOfTail ==
    ASSUME NEW S, NEW s \in Seq(S), s # << >>
    PROVE  /\ Tail(s) \in Seq(S)
           /\ Len(Tail(s)) = Len(s) - 1
           /\ DOMAIN Tail(s) = 1 .. Len(s) - 1
           /\ \A i \in DOMAIN Tail(s) : i + 1 \in DOMAIN s /\ Tail(s)[i] = s[i + 1]
           /\ Head(s) = s[1] /\ 1 \in DOMAIN s
           /\ Range(s) = {Head(s)} \cup Range(Tail(s))
<1>1. /\ Tail(s) \in Seq(S)
      /\ Len(Tail(s)) = Len(s) - 1
      /\ DOMAIN Tail(s) = 1 .. Len(s) - 1
      /\ \A i \in DOMAIN Tail(s) : i + 1 \in DOMAIN s /\ Tail(s)[i] = s[i + 1]
      /\ Head(s) = s[1] /\ 1 \in DOMAIN s
  OBVIOUS
<1>2. ASSUME NEW i \in DOMAIN s, i # 1
      PROVE  i - 1 \in DOMAIN Tail(s) /\ Tail(s)[i - 1] = s[i]
  <2>1. DOMAIN s = 1 .. Len(s) /\ Len(s) \in Nat
    OBVIOUS
  <2>2. i - 1 \in DOMAIN Tail(s)
    BY <1>1, <1>2, <2>1
  <2> QED
    BY <1>1, <2>1, <2>2
<1>3. Range(s) \subseteq {Head(s)} \cup Range(Tail(s))
  <2> SUFFICES ASSUME NEW i \in DOMAIN s
               PROVE  s[i] \in {Head(s)} \cup Range(Tail(s))
    BY DEF Range
  <2>1. CASE i = 1
    BY <1>1, <2>1
  <2>2. CASE i # 1
    BY <1>2, <2>2 DEF Range
  <2> QED
    BY <2>1, <2>2
<1>4. {Head(s)} \cup Range(Tail(s)) \subseteq Range(s)
  BY <1>1 DEF Range
<1> QED
  BY <1>1, <1>3, <1>4

\* Appending an element adds it to those of the sequence.
LEMMA RangeOfAppend ==
    ASSUME NEW S, NEW s \in Seq(S), NEW d \in S
    PROVE  /\ Append(s, d) \in Seq(S)
           /\ Len(Append(s, d)) = Len(s) + 1
           /\ DOMAIN Append(s, d) = DOMAIN s \cup {Len(s) + 1}
           /\ \A i \in DOMAIN s : Append(s, d)[i] = s[i]
           /\ Append(s, d)[Len(s) + 1] = d
           /\ Range(Append(s, d)) = Range(s) \cup {d}
<1>1. DOMAIN Append(s, d) = DOMAIN s \cup {Len(s) + 1}
  OBVIOUS
<1>2. \A i \in DOMAIN s : Append(s, d)[i] = s[i]
  OBVIOUS
<1>3. Append(s, d)[Len(s) + 1] = d
  OBVIOUS
<1> QED
  BY <1>1, <1>2, <1>3 DEF Range

\* The values of a function on a finite set are finite in number.
LEMMA FiniteImage ==
    ASSUME NEW f, IsFiniteSet(DOMAIN f)
    PROVE  IsFiniteSet({f[x] : x \in DOMAIN f})
<1> DEFINE S == DOMAIN f
           T == {f[x] : x \in S}
           g == [x \in S |-> f[x]]
<1>1. g \in Surjection(S, T)
  BY DEF Surjection
<1> QED
  BY <1>1, FS_Surjection

\* What is at work is finite, and made of jobs.
LEMMA WorkIsFinite ==
    ASSUME TypeOK, JobsAreApart
    PROVE  /\ IsFiniteSet(Outstanding) /\ IsFiniteSet(ChannelJobs)
           /\ Outstanding \subseteq Job /\ ChannelJobs \subseteq Job
           /\ \A h \in Host : IsFiniteSet(AtHost(Outstanding, h))
           /\ IsFiniteSet(Host) /\ IsFiniteSet(Known)
<1>1. flying \subseteq Visit /\ channel \in Seq(Outcome)
  BY DEF TypeOK, LoopTypeOK
<1>2. IsFiniteSet({v.job : v \in flying})
  <2> DEFINE f == [v \in flying |-> v.job]
  <2>1. IsFiniteSet(DOMAIN f)
    BY DEF JobsAreApart
  <2>2. IsFiniteSet({f[v] : v \in DOMAIN f})
    BY <2>1, FiniteImage
  <2>3. {f[v] : v \in DOMAIN f} = {v.job : v \in flying}
    OBVIOUS
  <2> QED
    BY <2>2, <2>3
<1>3. IsFiniteSet(ChannelJobs)
  <2> DEFINE f == [i \in DOMAIN channel |-> channel[i].job]
  <2>1. DOMAIN channel = 1 .. Len(channel) /\ 1 \in Int /\ Len(channel) \in Int
    BY <1>1
  <2>2. IsFiniteSet(DOMAIN f)
    BY ONLY <2>1, FS_Interval
  <2>3. IsFiniteSet({f[i] : i \in DOMAIN f})
    BY <2>2, FiniteImage
  <2>4. {f[i] : i \in DOMAIN f} = ChannelJobs
    BY DEF ChannelJobs, Range
  <2> QED
    BY <2>3, <2>4
<1>4. ChannelJobs \subseteq Job /\ {v.job : v \in flying} \subseteq Job
  <2>1. \A i \in DOMAIN channel : channel[i] \in Outcome
    BY <1>1
  <2>2. \A i \in DOMAIN channel : channel[i].job \in Job
    BY <2>1 DEF Outcome
  <2> QED
    BY <1>1, <2>2 DEF ChannelJobs, Range, Visit
<1>5. IsFiniteSet(Outstanding)
  BY <1>2, <1>3, FS_Union DEF Outstanding
<1>7. \A h \in Host : IsFiniteSet(AtHost(Outstanding, h))
  BY <1>5, FS_Subset DEF AtHost
<1>8. IsFiniteSet(Host)
  <2>1. 1 \in Int /\ Hosts \in Int
    BY FrontierAssumption
  <2> QED
    BY ONLY <2>1, FS_Interval DEF Host
<1>9. IsFiniteSet(Known)
  BY <1>8, FS_Subset DEF Known
<1> QED
  BY <1>3, <1>4, <1>5, <1>7, <1>8, <1>9 DEF Outstanding

\* A visit that read robots.txt keeps its job, which is with the visits.
LEMMA FetchRobotsMoves ==
    ASSUME TypeOK, JobsAreApart, NEW v \in flying, FetchRobots(v)
    PROVE  \E w \in Visit :
              /\ w.job = v.job /\ w.rules \in Rules /\ w.learned \in Rules
              /\ v.rules = "none"
              /\ w \notin flying \ {v}
              /\ flying' = (flying \ {v}) \cup {w}
              /\ Cardinality(flying') = Cardinality(flying)
              /\ ChannelJobs' = ChannelJobs
              /\ Outstanding' = Outstanding
              /\ UnderWay' = UnderWay
<1>1. PICK answer \in Rules : flying' = (flying \ {v}) \cup {Learned(v, answer)}
  BY DEF FetchRobots
<1> DEFINE w == Learned(v, answer)
<1>2. v \in Visit
  BY DEF TypeOK, LoopTypeOK
<1>3. w \in Visit /\ w.job = v.job /\ w.rules = answer /\ w.learned = answer
  BY <1>2, LearnsType
<1>4. v.rules = "none" /\ UNCHANGED <<channel, current>>
  BY DEF FetchRobots
<1>5. flying' = (flying \ {v}) \cup {w}
  BY <1>1
<1> HIDE DEF w
<1>6. \A x \in flying \ {v} : x.job # v.job
  BY DEF JobsAreApart
<1>7. w \notin flying \ {v}
  BY <1>3, <1>6
<1>8. Cardinality(flying') = Cardinality(flying)
  <2>1. IsFiniteSet(flying) /\ IsFiniteSet(flying \ {v})
    BY FS_RemoveElement DEF JobsAreApart
  <2>2. Cardinality(flying \ {v}) = Cardinality(flying) - 1
    BY <2>1, FS_RemoveElement
  <2>3. Cardinality(flying') = Cardinality(flying \ {v}) + 1
    BY <1>5, <1>7, <2>1, FS_AddElement
  <2>4. Cardinality(flying) \in Nat
    BY <2>1, FS_CardinalityType
  <2> QED
    BY <2>2, <2>3, <2>4
<1>9. ChannelJobs' = ChannelJobs
  BY <1>4 DEF ChannelJobs
<1>10. {x.job : x \in flying'} = {x.job : x \in flying}
  BY <1>3, <1>5
<1>11. Outstanding' = Outstanding
  BY <1>9, <1>10 DEF Outstanding
<1>12. UnderWay' = UnderWay
  BY <1>4, <1>11 DEF UnderWay
<1> QED
  BY <1>3, <1>4, <1>5, <1>7, <1>8, <1>9, <1>11, <1>12

\* A visit that answers moves its job from the visits to the channel.
LEMMA FinishMoves ==
    ASSUME TypeOK, OwnerIsInOrder, JobsAreApart, NEW v \in flying, Finish(v)
    PROVE  \E o \in Outcome :
              /\ o.job = v.job
              /\ flying' = flying \ {v}
              /\ channel' = Append(channel, o)
              /\ channel \in Seq(Outcome)
              /\ ChannelJobs' = ChannelJobs \cup {v.job}
              /\ Outstanding' = Outstanding
              /\ UnderWay' = UnderWay
              /\ current' = current
<1>1. PICK works \in BOOLEAN : channel' = Append(channel, Answer(v, works))
  BY DEF Finish
<1> DEFINE o == Answer(v, works)
<1>2. v \in Visit /\ channel \in Seq(Outcome)
  BY DEF TypeOK, LoopTypeOK
<1>3. o \in Outcome /\ o.job = v.job
  BY <1>2, AnswerType
<1> HIDE DEF o
<1>4. channel' = Append(channel, o)
  BY <1>1 DEF o
<1>5. Range(channel') = Range(channel) \cup {o}
  BY <1>2, <1>3, <1>4, RangeOfAppend
<1>6. ChannelJobs' = ChannelJobs \cup {v.job}
  BY <1>3, <1>5 DEF ChannelJobs
<1>7. flying' = flying \ {v} /\ current' = current
  BY DEF Finish
<1>8. Outstanding' = Outstanding
  BY <1>6, <1>7 DEF Outstanding
<1>9. UnderWay' = UnderWay
  BY <1>7, <1>8 DEF UnderWay
<1> QED
  BY <1>2, <1>3, <1>4, <1>6, <1>7, <1>8, <1>9

\* Receiving moves the job of the oldest answer from the channel to the owner.
LEMMA ReceiveMoves ==
    ASSUME TypeOK, OwnerIsInOrder, JobsAreApart, Receive
    PROVE  LET o == Head(channel)
           IN  /\ o \in Outcome /\ o # Nothing
               /\ o.job \in ChannelJobs
               /\ o.job \in Outstanding
               /\ current = Nothing /\ current' = o
               /\ flying' = flying
               /\ channel' = Tail(channel)
               /\ ChannelJobs' = ChannelJobs \ {o.job}
               /\ Outstanding' = Outstanding \ {o.job}
               /\ UnderWay' = UnderWay
<1> DEFINE o == Head(channel)
<1>1. /\ pc \in {"absorb", "wait"} /\ channel # << >>
      /\ channel' = Tail(channel) /\ current' = o /\ flying' = flying
  BY DEF Receive
<1>2. channel \in Seq(Outcome)
  BY DEF TypeOK, LoopTypeOK
<1>3. o \in Outcome
  BY <1>1, <1>2
<1>4. current = Nothing
  BY <1>1 DEF OwnerIsInOrder
<1>5. o # Nothing
  <2>1. o.result \in {"disallowed", "failed", "visited"}
    BY <1>3 DEF Outcome
  <2> HIDE DEF o
  <2> QED
    BY <2>1 DEF Nothing
<1>6. Range(channel) = {o} \cup Range(Tail(channel))
  BY <1>1, <1>2, RangeOfTail
<1>7. \A i \in DOMAIN Tail(channel) : Tail(channel)[i].job # o.job
  <2> SUFFICES ASSUME NEW i \in DOMAIN Tail(channel)
               PROVE  Tail(channel)[i].job # o.job
    OBVIOUS
  <2>1. /\ i + 1 \in DOMAIN channel /\ Tail(channel)[i] = channel[i + 1]
        /\ o = channel[1] /\ 1 \in DOMAIN channel
        /\ i \in Nat /\ i # 0
    BY <1>1, <1>2, RangeOfTail
  <2> QED
    BY <2>1 DEF JobsAreApart
<1>8. ChannelJobs = {o.job} \cup {x.job : x \in Range(Tail(channel))}
  BY <1>6 DEF ChannelJobs
<1>9. o.job \notin {x.job : x \in Range(Tail(channel))}
  BY <1>7 DEF Range
<1>10. ChannelJobs' = {x.job : x \in Range(Tail(channel))}
  BY <1>1 DEF ChannelJobs
<1> HIDE DEF o
<1>11. ChannelJobs' = ChannelJobs \ {o.job} /\ o.job \in ChannelJobs
  BY <1>8, <1>9, <1>10
<1>12. \A v \in flying : v.job # o.job
  BY <1>11 DEF JobsAreApart
<1>13. Outstanding' = Outstanding \ {o.job} /\ o.job \in Outstanding
  BY <1>1, <1>11, <1>12 DEF Outstanding
<1>14. UnderWay' = UnderWay
  BY <1>1, <1>4, <1>5, <1>13 DEF UnderWay
<1> QED
  BY <1>1, <1>3, <1>4, <1>5, <1>11, <1>13, <1>14 DEF o

\* Spawning moves a job from the queue to the visits.
LEMMA DispatchMoves ==
    ASSUME TypeOK, OwnerIsInOrder, JobsAreApart, Dispatch
    PROVE  \E e \in queued :
              LET h == HostOf[e.url]
                  v == [job |-> e, rules |-> robots[h].rules, learned |-> "none"]
              IN  /\ h \in Host /\ h \notin Saturated /\ window[h] <= 0
                  /\ v \notin flying
                  /\ e \notin UnderWay /\ e \notin Outstanding
                  /\ queued' = queued \ {e}
                  /\ frontier'.sequence = frontier.sequence
                  /\ frontier'.hosts = frontier.hosts
                  /\ frontier'.pending = IF frontier.pending > 0
                                         THEN frontier.pending - 1 ELSE 0
                  /\ frontier' \in Counters
                  /\ meta'.sequence = meta.sequence
                  /\ meta'.hosts = meta.hosts
                  /\ meta'.pending = frontier'.pending
                  /\ meta' \in Counters
                  /\ window' = window
                  /\ flying' = flying \cup {v}
                  /\ inFlight' = [inFlight EXCEPT ![h] = @ + 1]
                  /\ inFlightTotal' = inFlightTotal + 1
                  /\ ChannelJobs' = ChannelJobs
                  /\ Outstanding' = Outstanding \cup {e}
                  /\ UnderWay' = UnderWay \cup {e}
                  /\ UNCHANGED <<seenVars, robots, archive, pc, todo, current,
                                 channel, shuttingDown, indexed, kills>>
<1>1. PICK e \in queued :
          LET h == HostOf[e.url]
              v == [job |-> e, rules |-> robots[h].rules, learned |-> "none"]
          IN  /\ h \in Host /\ h \notin Saturated /\ window[h] <= 0
              /\ queued' = queued \ {e}
              /\ frontier'.sequence = frontier.sequence
              /\ frontier'.hosts = frontier.hosts
              /\ frontier'.pending = IF frontier.pending > 0
                                     THEN frontier.pending - 1 ELSE 0
              /\ frontier' \in Counters
              /\ meta'.sequence = meta.sequence
              /\ meta'.hosts = meta.hosts
              /\ meta'.pending = frontier'.pending
              /\ meta' \in Counters
              /\ window' = window
              /\ flying' = flying \cup {v}
              /\ inFlight' = [inFlight EXCEPT ![h] = @ + 1]
              /\ inFlightTotal' = inFlightTotal + 1
              /\ UNCHANGED <<seenVars, robots, archive, pc, todo, current,
                             channel, shuttingDown, indexed, kills>>
  BY DispatchShape
<1> DEFINE v == [job     |-> e, rules |-> robots[HostOf[e.url]].rules,
                 learned |-> "none"]
<1>2. e \notin UnderWay /\ e \notin Outstanding
  BY DEF JobsAreApart, UnderWay
<1>3. v.job = e
  OBVIOUS
<1>4. v \notin flying
  BY <1>2, <1>3 DEF Outstanding
<1>5. ChannelJobs' = ChannelJobs
  BY <1>1 DEF ChannelJobs
<1> HIDE DEF v
<1>6. flying' = flying \cup {v}
  BY <1>1 DEF v
<1>7. Outstanding' = Outstanding \cup {e}
  BY <1>3, <1>5, <1>6 DEF Outstanding
<1>8. UnderWay' = UnderWay \cup {e}
  BY <1>1, <1>7 DEF UnderWay
<1> QED
  BY <1>1, <1>2, <1>4, <1>5, <1>7, <1>8 DEF v

-----------------------------------------------------------------------------
(* The invariant, action by action *)

\* What depends on the visits alone keeps when they do not change.
LEMMA VisitsUnchanged ==
    ASSUME UNCHANGED <<flying, channel, current>>
    PROVE  /\ ChannelJobs' = ChannelJobs
           /\ Outstanding' = Outstanding
           /\ UnderWay' = UnderWay
           /\ \A h : AtHost(Outstanding', h) = AtHost(Outstanding, h)
           /\ InFlightIsExact /\ UNCHANGED <<inFlight, inFlightTotal>>
                 => InFlightIsExact'
           /\ JobsAreApart /\ UNCHANGED queued => JobsAreApart'
<1>1. ChannelJobs' = ChannelJobs
  BY DEF ChannelJobs
<1>2. Outstanding' = Outstanding
  BY <1>1 DEF Outstanding
<1>3. UnderWay' = UnderWay
  BY <1>2 DEF UnderWay
<1> QED
  BY <1>1, <1>2, <1>3 DEF InFlightIsExact, JobsAreApart, AtHost

\* A visit reads robots.txt: its job stays with the visits.
LEMMA FetchRobotsStep ==
    ASSUME IInv, TypeOK', NEW v \in flying, FetchRobots(v)
    PROVE  IInv'
<1>1. PICK w \in Visit :
          /\ w.job = v.job
          /\ flying' = (flying \ {v}) \cup {w}
          /\ Cardinality(flying') = Cardinality(flying)
          /\ ChannelJobs' = ChannelJobs
          /\ Outstanding' = Outstanding
          /\ UnderWay' = UnderWay
  BY FetchRobotsMoves DEF IInv
<1>2. UNCHANGED <<queued, window, meta, frontier, pc, todo, current, channel,
                  inFlight, inFlightTotal, shuttingDown, indexed>>
  BY DEF FetchRobots, frontierVars
<1>3. pc \notin {"down", "seal", "save"}
  BY DEF IInv, OwnerIsInOrder, EndsComplete
<1>4. OwnerIsInOrder'
  BY <1>2, <1>3 DEF IInv, OwnerIsInOrder, LinkDepth
<1>5. JobsAreApart'
  <2>1. IsFiniteSet(flying')
    <3>1. IsFiniteSet(flying \ {v})
      BY FS_RemoveElement DEF IInv, JobsAreApart
    <3> QED
      BY <1>1, <3>1, FS_AddElement
  <2>2. \A x, y \in flying' : x.job = y.job => x = y
    BY <1>1 DEF IInv, JobsAreApart
  <2>3. \A x \in flying' : x.job \notin ChannelJobs'
    BY <1>1 DEF IInv, JobsAreApart
  <2> QED
    BY <1>1, <1>2, <2>1, <2>2, <2>3 DEF IInv, JobsAreApart
<1>6. InFlightIsExact'
  BY <1>1, <1>2 DEF IInv, InFlightIsExact, AtHost
<1>7. HostsAreKnown' /\ BudgetIsKept' /\ FrontierIsExact' /\ EndsComplete'
  BY <1>1, <1>2, <1>3
  DEF IInv, HostsAreKnown, BudgetIsKept, FrontierIsExact, EndsComplete, Known
<1> QED
  BY <1>4, <1>5, <1>6, <1>7 DEF IInv

\* A visit answers: its job passes from the visits to the channel.
LEMMA FinishStep ==
    ASSUME IInv, TypeOK', NEW v \in flying, Finish(v)
    PROVE  IInv'
<1>1. PICK o \in Outcome :
          /\ o.job = v.job
          /\ flying' = flying \ {v}
          /\ channel' = Append(channel, o)
          /\ channel \in Seq(Outcome)
          /\ ChannelJobs' = ChannelJobs \cup {v.job}
          /\ Outstanding' = Outstanding
          /\ UnderWay' = UnderWay
          /\ current' = current
  BY FinishMoves DEF IInv
<1>2. UNCHANGED <<queued, window, meta, frontier, pc, todo, inFlight,
                  inFlightTotal, shuttingDown, indexed>>
  BY DEF Finish, frontierVars
<1>3. pc \notin {"down", "seal", "save"}
  BY DEF IInv, OwnerIsInOrder, EndsComplete
<1>4. OwnerIsInOrder'
  BY <1>1, <1>2, <1>3 DEF IInv, OwnerIsInOrder
<1>5. JobsAreApart'
  <2>1. IsFiniteSet(queued') /\ IsFiniteSet(flying')
    BY <1>1, <1>2, FS_RemoveElement DEF IInv, JobsAreApart
  <2>2. /\ DOMAIN channel' = DOMAIN channel \cup {Len(channel) + 1}
        /\ \A i \in DOMAIN channel : channel'[i] = channel[i]
        /\ channel'[Len(channel) + 1] = o
    BY <1>1, RangeOfAppend
  <2>3. v.job \notin ChannelJobs
    BY DEF IInv, JobsAreApart
  <2>4. \A i \in DOMAIN channel : channel[i].job # v.job
    BY <2>3 DEF ChannelJobs, Range
  <2>5. \A i, j \in DOMAIN channel' : channel'[i].job = channel'[j].job => i = j
    BY <1>1, <2>2, <2>4 DEF IInv, JobsAreApart
  <2>6. \A w \in flying' : w.job \notin ChannelJobs'
    BY <1>1 DEF IInv, JobsAreApart
  <2> QED
    BY <1>1, <1>2, <2>1, <2>5, <2>6 DEF IInv, JobsAreApart
<1>6. InFlightIsExact'
  <2>1. Cardinality(flying') = Cardinality(flying) - 1
    BY <1>1, FS_RemoveElement DEF IInv, JobsAreApart
  <2>2. Len(channel') = Len(channel) + 1
    BY <1>1, RangeOfAppend
  <2>3. Cardinality(flying) \in Nat /\ Len(channel) \in Nat
    BY <1>1, FS_CardinalityType DEF IInv, JobsAreApart
  <2> QED
    BY <1>1, <1>2, <2>1, <2>2, <2>3 DEF IInv, InFlightIsExact, AtHost
<1>7. HostsAreKnown' /\ BudgetIsKept' /\ FrontierIsExact' /\ EndsComplete'
  BY <1>1, <1>2, <1>3
  DEF IInv, HostsAreKnown, BudgetIsKept, FrontierIsExact, EndsComplete, Known
<1> QED
  BY <1>4, <1>5, <1>6, <1>7 DEF IInv

\* An answer is received: its job passes from the channel to the owner, and is
\* booked.
LEMMA ReceiveStep ==
    ASSUME IInv, TypeOK', Receive
    PROVE  IInv'
<1> DEFINE o == Head(channel)
           h == HostOf[o.job.url]
<1>1. /\ o \in Outcome /\ o # Nothing
      /\ o.job \in ChannelJobs
      /\ o.job \in Outstanding
      /\ current = Nothing /\ current' = o
      /\ flying' = flying
      /\ channel' = Tail(channel)
      /\ ChannelJobs' = ChannelJobs \ {o.job}
      /\ Outstanding' = Outstanding \ {o.job}
      /\ UnderWay' = UnderWay
  BY ReceiveMoves DEF IInv
<1>2. h \in Host
  BY ReceiveType DEF IInv
<1>3. /\ pc \in {"absorb", "wait"} /\ pc' = "defer"
      /\ channel # << >> /\ channel \in Seq(Outcome)
      /\ UNCHANGED <<queued, window, meta, frontier, shuttingDown, indexed>>
      /\ Bookkeep(h)
  BY DEF Receive, frontierVars, IInv, TypeOK, LoopTypeOK
<1>5. /\ IsFiniteSet(Outstanding) /\ IsFiniteSet(flying)
      /\ \A g \in Host : IsFiniteSet(AtHost(Outstanding, g))
      /\ inFlight \in [Host -> Nat] /\ inFlightTotal \in Nat
  BY WorkIsFinite DEF IInv, JobsAreApart, TypeOK, LoopTypeOK
<1>6. /\ Len(channel') = Len(channel) - 1
      /\ Len(channel) \in Nat
      /\ DOMAIN channel' = 1 .. Len(channel) - 1
      /\ \A i \in DOMAIN channel' : i + 1 \in DOMAIN channel
                                     /\ channel'[i] = channel[i + 1]
  BY <1>1, <1>3, RangeOfTail
<1> HIDE DEF o, h
<1>7. OwnerIsInOrder'
  BY <1>1, <1>3 DEF OwnerIsInOrder
<1>8. JobsAreApart'
  <2>1. \A i, j \in DOMAIN channel' : channel'[i].job = channel'[j].job => i = j
    <3> SUFFICES ASSUME NEW i \in DOMAIN channel', NEW j \in DOMAIN channel',
                        channel'[i].job = channel'[j].job
                 PROVE  i = j
      OBVIOUS
    <3>1. i + 1 = j + 1
      BY <1>6 DEF IInv, JobsAreApart
    <3>2. i \in Int /\ j \in Int
      BY <1>6
    <3> QED
      BY <3>1, <3>2
  <2> QED
    BY <1>1, <1>3, <2>1 DEF IInv, JobsAreApart
<1>9. HostsAreKnown'
  BY <1>1, <1>3 DEF IInv, HostsAreKnown, Known
<1>10. inFlightTotal > 0 /\ inFlightTotal' = inFlightTotal - 1
  <2>1. Cardinality(Outstanding) # 0 /\ Cardinality(Outstanding) \in Nat
    BY <1>1, <1>5, FS_EmptySet, FS_CardinalityType
  <2>2. inFlightTotal > 0
    BY <2>1 DEF IInv, InFlightIsExact
  <2> QED
    BY <1>3, <2>2 DEF Bookkeep
<1>11. BudgetIsKept'
  <2>1. /\ inFlightTotal \in Nat /\ indexed \in Nat
        /\ MaxPages \in Nat /\ Workers \in Nat
    BY CrawlAssumption DEF IInv, TypeOK, LoopTypeOK
  <2>2. MaxPages > 0 => indexed + inFlightTotal < MaxPages + Workers
    BY <1>3, <2>1 DEF IInv, BudgetIsKept
  <2> QED
    BY <1>3, <1>10, <2>1, <2>2 DEF BudgetIsKept
<1>12. InFlightIsExact'
  <2>1. Cardinality(Outstanding') = Cardinality(Outstanding) - 1
    BY <1>1, <1>5, FS_RemoveElement
  <2>2. ASSUME NEW g \in Host
        PROVE  /\ inFlight'[g] = Cardinality(AtHost(Outstanding', g))
               /\ inFlight'[g] <= inFlight[g]
    <3>1. inFlight[g] = Cardinality(AtHost(Outstanding, g))
      BY DEF IInv, InFlightIsExact
    <3>2. CASE g = h
      <4>1. AtHost(Outstanding', g) = AtHost(Outstanding, g) \ {o.job}
            /\ o.job \in AtHost(Outstanding, g)
        BY <1>1, <3>2 DEF h, AtHost
      <4>2. Cardinality(AtHost(Outstanding', g))
               = Cardinality(AtHost(Outstanding, g)) - 1
        BY <1>5, <4>1, FS_RemoveElement, ZenonT(30)
      <4>3. Cardinality(AtHost(Outstanding, g)) # 0
        BY <1>5, <4>1, FS_EmptySet
      <4>4. inFlight[g] > 0 /\ inFlight[g] \in Nat
        BY <1>5, <3>1, <4>3
      <4>5. inFlight'[g] = inFlight[g] - 1
        BY <1>2, <1>3, <1>5, <3>2, <4>4 DEF Bookkeep
      <4> QED
        BY <3>1, <4>2, <4>4, <4>5
    <3>3. CASE g # h
      <4>1. AtHost(Outstanding', g) = AtHost(Outstanding, g)
        BY <1>1, <3>3 DEF h, AtHost
      <4>2. inFlight'[g] = inFlight[g]
        BY <1>2, <1>3, <1>5, <3>3 DEF Bookkeep
      <4> QED
        BY <1>5, <3>1, <4>1, <4>2
    <3> QED
      BY <3>2, <3>3
  <2>3. \A g \in Host : inFlight'[g] <= 1 \/ inFlight'[g] <= PerHost
    <3>1. inFlight' \in [Host -> Nat] /\ PerHost \in Nat
      BY CrawlAssumption DEF TypeOK, LoopTypeOK
    <3> QED
      BY <1>5, <2>2, <3>1 DEF IInv, InFlightIsExact
  <2>4. Cardinality(flying') = Cardinality(flying) /\ Cardinality(flying) \in Nat
    BY <1>1, <1>5, FS_CardinalityType
  <2>5. Workers \in Nat
    BY CrawlAssumption
  <2> QED
    <3>1. /\ inFlightTotal = Cardinality(Outstanding)
          /\ Cardinality(Outstanding) = Cardinality(flying) + Len(channel)
          /\ inFlightTotal <= Workers
      BY DEF IInv, InFlightIsExact
    <3>2. /\ inFlightTotal' = Cardinality(Outstanding')
          /\ inFlightTotal' <= Workers
      BY <1>5, <1>10, <2>1, <2>5, <3>1
    <3>3. Cardinality(Outstanding') = Cardinality(flying') + Len(channel')
      BY <1>6, <2>1, <2>4, <3>1
    <3> QED
      BY <2>2, <2>3, <3>2, <3>3 DEF InFlightIsExact, AtHost
<1>13. FrontierIsExact'
  BY <1>1, <1>3 DEF IInv, FrontierIsExact, Known
<1>14. EndsComplete'
  BY <1>3 DEF EndsComplete
<1> QED
  BY <1>7, <1>8, <1>9, <1>11, <1>12, <1>13, <1>14 DEF IInv

\* The window of its host opens: a host the frontier already knows.
LEMMA DeferStep ==
    ASSUME IInv, TypeOK', Defer
    PROVE  IInv'
<1> DEFINE h == HostOf[current.job.url]
           delay == PolitenessDelay(DefaultDelay, current.delay)
<1>1. current \in Outcome /\ h \in Host /\ delay \in Nat
  BY DeferType DEF IInv
<1>2. /\ pc = "defer" /\ pc' = "sitemaps"
      /\ UNCHANGED <<queued, meta, frontier, current, flying, channel, inFlight,
                     inFlightTotal, shuttingDown, indexed>>
      /\ window' = [window EXCEPT ![h] = delay]
  BY DEF Defer, DeferHost
<1>3. window \in [Host -> Nat \cup {Unknown}]
  BY DEF IInv, TypeOK, FrontierTypeOK
<1>4. current.job \in UnderWay
  <2>1. current.result \in {"disallowed", "failed", "visited"}
    BY <1>1 DEF Outcome
  <2>2. current # Nothing
    BY <2>1 DEF Nothing
  <2> QED
    BY <2>2 DEF UnderWay
<1>5. h \in Known
  BY <1>4 DEF IInv, HostsAreKnown
<1> HIDE DEF h, delay
<1>6. Known' = Known
  BY <1>1, <1>2, <1>3, <1>5 DEF Known, Unknown
<1>7. /\ UnderWay' = UnderWay /\ InFlightIsExact' /\ JobsAreApart'
  BY <1>2, VisitsUnchanged DEF IInv
<1>8. OwnerIsInOrder'
  BY <1>1, <1>2 DEF OwnerIsInOrder
<1>9. HostsAreKnown'
  BY <1>2, <1>6, <1>7 DEF IInv, HostsAreKnown
<1>10. BudgetIsKept' /\ EndsComplete'
  BY <1>2 DEF IInv, BudgetIsKept, EndsComplete
<1>11. FrontierIsExact'
  BY <1>2, <1>6, <1>7 DEF IInv, FrontierIsExact
<1> QED
  BY <1>7, <1>8, <1>9, <1>10, <1>11 DEF IInv

\* A visit is spawned: its job passes from the queue to the visits.
LEMMA DispatchStep ==
    ASSUME IInv, TypeOK', Dispatch
    PROVE  IInv'
<1>1. PICK e \in queued :
          LET h == HostOf[e.url]
              v == [job |-> e, rules |-> robots[h].rules, learned |-> "none"]
          IN  /\ h \in Host /\ h \notin Saturated /\ window[h] <= 0
              /\ v \notin flying
              /\ e \notin UnderWay /\ e \notin Outstanding
              /\ queued' = queued \ {e}
              /\ frontier'.sequence = frontier.sequence
              /\ frontier'.hosts = frontier.hosts
              /\ frontier'.pending = IF frontier.pending > 0
                                     THEN frontier.pending - 1 ELSE 0
              /\ frontier' \in Counters
              /\ meta'.sequence = meta.sequence
              /\ meta'.hosts = meta.hosts
              /\ meta'.pending = frontier'.pending
              /\ meta' \in Counters
              /\ window' = window
              /\ flying' = flying \cup {v}
              /\ inFlight' = [inFlight EXCEPT ![h] = @ + 1]
              /\ inFlightTotal' = inFlightTotal + 1
              /\ ChannelJobs' = ChannelJobs
              /\ Outstanding' = Outstanding \cup {e}
              /\ UnderWay' = UnderWay \cup {e}
              /\ UNCHANGED <<seenVars, robots, archive, pc, todo, current,
                             channel, shuttingDown, indexed, kills>>
  BY DispatchMoves DEF IInv
<1> DEFINE h == HostOf[e.url]
           v == [job |-> e, rules |-> robots[h].rules, learned |-> "none"]
<1>2. /\ v \notin flying /\ v.job = e /\ flying' = flying \cup {v}
      /\ h \in Host /\ h \notin Saturated
      /\ inFlight' = [inFlight EXCEPT ![h] = @ + 1]
  BY <1>1
<1> HIDE DEF v
<1>3. pc = "dispatch" /\ ~shuttingDown /\ inFlightTotal < Workers
  BY DEF Dispatch, HasRoom
<1>4. /\ IsFiniteSet(Outstanding) /\ IsFiniteSet(flying) /\ IsFiniteSet(queued)
      /\ \A g \in Host : IsFiniteSet(AtHost(Outstanding, g))
      /\ inFlight \in [Host -> Nat] /\ inFlightTotal \in Nat
      /\ channel \in Seq(Outcome) /\ indexed \in Nat
      /\ frontier \in Counters /\ meta \in Counters
  BY WorkIsFinite DEF IInv, JobsAreApart, TypeOK, LoopTypeOK, FrontierTypeOK
<1>5. OwnerIsInOrder'
  BY <1>1, <1>3 DEF IInv, OwnerIsInOrder
<1>6. JobsAreApart'
  <2>1. IsFiniteSet(queued') /\ IsFiniteSet(flying')
    <3>1. IsFiniteSet(queued \ {e}) /\ IsFiniteSet(flying \cup {v})
      BY <1>4, FS_RemoveElement, FS_AddElement
    <3>2. queued' = queued \ {e}
      BY <1>1
    <3> QED
      BY <1>2, <3>1, <3>2
  <2>2. \A w \in flying : w.job # e
    BY <1>1 DEF Outstanding
  <2>3. \A w, x \in flying' : w.job = x.job => w = x
    BY <1>2, <2>2 DEF IInv, JobsAreApart
  <2>4. e \notin ChannelJobs
    BY <1>1 DEF Outstanding
  <2>5. \A w \in flying' : w.job \notin ChannelJobs'
    BY <1>1, <1>2, <2>4 DEF IInv, JobsAreApart
  <2>6. current # Nothing => current.job \notin Outstanding'
    BY <1>1 DEF IInv, JobsAreApart, UnderWay
  <2> QED
    BY <1>1, <2>1, <2>3, <2>5, <2>6 DEF IInv, JobsAreApart
<1>7. HostsAreKnown'
  BY <1>1 DEF IInv, HostsAreKnown, Known
<1>8. BudgetIsKept'
  BY <1>1, <1>3, <1>4, CrawlAssumption DEF IInv, BudgetIsKept
<1>9. InFlightIsExact'
  <2>1. Cardinality(Outstanding') = Cardinality(Outstanding) + 1
    BY <1>1, <1>4, FS_AddElement
  <2>2. Cardinality(flying') = Cardinality(flying) + 1
    BY <1>2, <1>4, FS_AddElement
  <2>3. ASSUME NEW g \in Host
        PROVE  /\ inFlight'[g] = Cardinality(AtHost(Outstanding', g))
               /\ inFlight'[g] <= 1 \/ inFlight'[g] <= PerHost
    <3>1. /\ inFlight[g] = Cardinality(AtHost(Outstanding, g))
          /\ inFlight[g] <= 1 \/ inFlight[g] <= PerHost
          /\ inFlight[g] \in Nat /\ PerHost \in Nat
      BY <1>4, CrawlAssumption DEF IInv, InFlightIsExact
    <3>2. CASE g = h
      <4>1. /\ AtHost(Outstanding', g) = AtHost(Outstanding, g) \cup {e}
            /\ e \notin AtHost(Outstanding, g)
        BY <1>1, <3>2 DEF AtHost
      <4>2. Cardinality(AtHost(Outstanding', g))
               = Cardinality(AtHost(Outstanding, g)) + 1
        BY <1>4, <4>1, FS_AddElement
      <4>3. inFlight'[g] = inFlight[g] + 1
        BY <1>2, <1>4, <3>2
      <4>4. inFlight[g] = 0 \/ inFlight[g] < PerHost
        BY <1>2, <3>1, <3>2 DEF Saturated
      <4> QED
        BY <3>1, <4>2, <4>3, <4>4
    <3>3. CASE g # h
      <4>1. AtHost(Outstanding', g) = AtHost(Outstanding, g)
        BY <1>1, <3>3 DEF AtHost
      <4>2. inFlight'[g] = inFlight[g]
        BY <1>2, <1>4, <3>3
      <4> QED
        BY <3>1, <4>1, <4>2
    <3> QED
      BY <3>2, <3>3
  <2>4. /\ inFlightTotal = Cardinality(Outstanding)
        /\ Cardinality(Outstanding) = Cardinality(flying) + Len(channel)
    BY DEF IInv, InFlightIsExact
  <2>5. /\ Cardinality(Outstanding) \in Nat /\ Cardinality(flying) \in Nat
        /\ Len(channel) \in Nat /\ Workers \in Nat
    BY <1>4, FS_CardinalityType, CrawlAssumption
  <2>6. channel' = channel /\ inFlightTotal' = inFlightTotal + 1
    BY <1>1
  <2>7. /\ inFlightTotal' = Cardinality(Outstanding')
        /\ Cardinality(Outstanding') = Cardinality(flying') + Len(channel')
        /\ inFlightTotal' <= Workers
    BY <1>3, <2>1, <2>2, <2>4, <2>5, <2>6
  <2> QED
    BY <2>3, <2>7 DEF InFlightIsExact, AtHost
<1>10. FrontierIsExact'
  <2>1. Cardinality(queued') = Cardinality(queued) - 1
        /\ Cardinality(queued) \in Nat /\ Cardinality(queued) # 0
    BY <1>1, <1>4, FS_RemoveElement, FS_CardinalityType, FS_EmptySet
  <2>2. frontier = meta /\ meta.pending = Cardinality(queued)
    BY <1>3 DEF IInv, FrontierIsExact
  <2>3. frontier'.pending = Cardinality(queued')
    BY <1>1, <2>1, <2>2
  <2>4. frontier' = meta'
    BY <1>1, <2>2 DEF Counters
  <2>5. queued' \cup UnderWay' = queued \cup UnderWay
    BY <1>1
  <2>6. Known' = Known
    BY <1>1 DEF Known
  <2>7. meta'.sequence = meta.sequence /\ meta'.hosts = meta.hosts
        /\ meta'.pending = Cardinality(queued')
    BY <1>1, <2>3
  <2> QED
    BY <2>4, <2>5, <2>6, <2>7 DEF IInv, FrontierIsExact
<1>11. EndsComplete'
  BY <1>1, <1>3 DEF EndsComplete
<1> QED
  BY <1>5, <1>6, <1>7, <1>8, <1>9, <1>10, <1>11 DEF IInv

\* Pushing a job takes a key no job has, and counts the job and its host.
LEMMA PushStep ==
    ASSUME IInv, TypeOK', NEW u \in Url, NEW depth \in 0 .. Depths, pc # "down",
           Push(u, depth), UNCHANGED <<flying, channel, current, pc>>
    PROVE  /\ JobsAreApart'
           /\ HostsAreKnown'
           /\ FrontierIsExact'
<1> DEFINE h   == HostOf[u]
           new == [url |-> u, depth |-> depth, seq |-> frontier.sequence + 1]
<1>1. /\ h \in Host
      /\ new \in Job
      /\ queued' = (queued \ {e \in EntriesOf(h) :
                                 e.seq = frontier.sequence + 1}) \cup {new}
      /\ frontier'.sequence = frontier.sequence + 1
      /\ frontier'.pending = frontier.pending + 1
      /\ frontier'.hosts = frontier.hosts
                              + (IF window[h] = Unknown THEN 1 ELSE 0)
      /\ frontier' \in Counters
      /\ meta'.sequence = frontier.sequence + 1
      /\ meta'.pending = frontier.pending + 1
      /\ meta'.hosts = IF window[h] = Unknown THEN frontier.hosts + 1
                                              ELSE meta.hosts
      /\ meta' \in Counters
      /\ window' = IF window[h] = Unknown
                   THEN [window EXCEPT ![h] = 0] ELSE window
  BY PushShape DEF IInv
<1>2. /\ frontier = meta /\ frontier \in Counters
      /\ meta.pending = Cardinality(queued)
      /\ meta.hosts = Cardinality(Known)
      /\ \A d, e \in queued \cup UnderWay :
            d.seq <= meta.sequence /\ (d.seq = e.seq => d = e)
  BY DEF IInv, FrontierIsExact, TypeOK, FrontierTypeOK
<1>3. /\ frontier.sequence \in Nat /\ frontier.pending \in Nat
      /\ frontier.hosts \in Nat
  BY <1>2 DEF Counters
<1>4. new.seq = frontier.sequence + 1 /\ new.url = u
  OBVIOUS
<1> HIDE DEF new
<1>5. queued \cup UnderWay \subseteq Job
  <2>1. current # Nothing => current.job \in Job
    BY DEF IInv, OwnerIsInOrder, Outcome
  <2> QED
    BY <2>1, WorkIsFinite DEF IInv, UnderWay, TypeOK, FrontierTypeOK
<1>6. \A d \in queued \cup UnderWay : d.seq # frontier.sequence + 1
  <2> SUFFICES ASSUME NEW d \in queued \cup UnderWay
               PROVE  d.seq # frontier.sequence + 1
    OBVIOUS
  <2>1. d.seq \in Nat /\ d.seq <= frontier.sequence
    BY <1>2, <1>5 DEF Job
  <2> QED
    BY <1>3, <2>1
<1>7. queued' = queued \cup {new} /\ new \notin queued \cup UnderWay
  BY <1>1, <1>4, <1>6 DEF EntriesOf
<1>8. /\ ChannelJobs' = ChannelJobs /\ Outstanding' = Outstanding
      /\ UnderWay' = UnderWay
  BY VisitsUnchanged
<1>9. /\ IsFiniteSet(queued) /\ IsFiniteSet(Known)
      /\ window \in [Host -> Nat \cup {Unknown}]
  BY WorkIsFinite DEF IInv, JobsAreApart, TypeOK, FrontierTypeOK
<1>10. JobsAreApart'
  <2>1. IsFiniteSet(queued')
    BY <1>7, <1>9, FS_AddElement
  <2> QED
    BY <1>7, <1>8, <2>1 DEF IInv, JobsAreApart
<1>11. Known' = Known \cup {h}
  BY <1>1, <1>9 DEF Known, Unknown
<1>12. HostsAreKnown'
  BY <1>4, <1>7, <1>8, <1>11 DEF IInv, HostsAreKnown
<1>13. FrontierIsExact'
  <2>1. Cardinality(queued') = Cardinality(queued) + 1
    BY <1>7, <1>9, FS_AddElement
  <2>2. meta'.pending = Cardinality(queued')
    BY <1>1, <1>2, <2>1
  <2>3. meta'.hosts = Cardinality(Known') /\ frontier'.hosts = meta'.hosts
    <3>1. CASE window[h] = Unknown
      <4>1. h \notin Known
        BY <3>1 DEF Known
      <4>2. Cardinality(Known') = Cardinality(Known) + 1
        BY <1>9, <1>11, <4>1, FS_AddElement
      <4> QED
        BY <1>1, <1>2, <3>1, <4>2
    <3>2. CASE window[h] # Unknown
      <4>1. Known' = Known
        BY <1>1, <3>2 DEF Known
      <4> QED
        BY <1>1, <1>2, <1>3, <3>2, <4>1
    <3> QED
      BY <3>1, <3>2
  <2>4. frontier' = meta'
    BY <1>1, <2>3 DEF Counters
  <2>5. \A d, e \in queued' \cup UnderWay' :
           d.seq <= meta'.sequence /\ (d.seq = e.seq => d = e)
    <3>1. \A d \in queued \cup UnderWay : d.seq <= frontier.sequence + 1
      <4> SUFFICES ASSUME NEW d \in queued \cup UnderWay
                   PROVE  d.seq <= frontier.sequence + 1
        OBVIOUS
      <4>1. d.seq \in Nat /\ d.seq <= frontier.sequence
        BY <1>2, <1>5 DEF Job
      <4> QED
        BY <1>3, <4>1
    <3>2. new.seq <= frontier.sequence + 1
      BY <1>3, <1>4
    <3> QED
      BY <1>1, <1>2, <1>4, <1>6, <1>7, <1>8, <3>1, <3>2
  <2> QED
    BY <2>2, <2>3, <2>4, <2>5 DEF FrontierIsExact
<1> QED
  BY <1>10, <1>12, <1>13

\* Going through a link: the queue grows by a job, or nothing but the list
\* changes.
LEMMA TakeLinkStep ==
    ASSUME IInv, TypeOK', TakeSeed \/ TakeSitemap \/ TakePageLink
    PROVE  IInv'
<1>1. PICK admitted, depth :
          /\ admitted \in SUBSET Url
          /\ todo # << >> => depth \in 0 .. Depths
          /\ TakeLink(admitted, depth)
  BY TakeLinkIsTaken DEF IInv
<1>2. /\ depth \in 0 .. Depths
      /\ UNCHANGED <<robots, archive, pc, current, flying, channel,
                     inFlight, inFlightTotal, shuttingDown, indexed, kills>>
      /\ \/ UNCHANGED <<frontierVars, seenVars>>
         \/ \E u \in admitted : IsNew(u) /\ Insert(u) /\ Push(u, depth)
  BY <1>1, TakeLinkShape DEF IInv
<1>3. pc \in {"seeding", "sitemaps", "links"} /\ todo # << >>
  BY <1>1 DEF TakeSeed, TakeSitemap, TakePageLink, TakeLink
<1>4. OwnerIsInOrder'
  BY <1>2, <1>3 DEF IInv, OwnerIsInOrder, LinkDepth
<1>5. BudgetIsKept' /\ EndsComplete'
  BY <1>2, <1>3 DEF IInv, BudgetIsKept, EndsComplete
<1>6. InFlightIsExact'
  BY <1>2, VisitsUnchanged DEF IInv
<1>7. JobsAreApart' /\ HostsAreKnown' /\ FrontierIsExact'
  <2>1. CASE UNCHANGED <<frontierVars, seenVars>>
    <3>1. UNCHANGED <<queued, window, meta, frontier>>
      BY <2>1 DEF frontierVars
    <3>2. UnderWay' = UnderWay /\ JobsAreApart'
      BY <1>2, <3>1, VisitsUnchanged DEF IInv
    <3> QED
      BY <1>2, <3>1, <3>2 DEF IInv, HostsAreKnown, FrontierIsExact, Known
  <2>2. ASSUME NEW u \in admitted, Push(u, depth)
        PROVE  JobsAreApart' /\ HostsAreKnown' /\ FrontierIsExact'
    <3>1. u \in Url
      BY <1>1, <2>2
    <3>2. pc # "down" /\ UNCHANGED <<flying, channel, current, pc>>
      BY <1>2, <1>3
    <3> QED
      BY <1>2, <2>2, <3>1, <3>2, PushStep
  <2> QED
    BY <1>2, <2>1, <2>2
<1> QED
  BY <1>4, <1>5, <1>6, <1>7 DEF IInv

\* The owner lets go of the outcome.
LEMMA EndOfListStep ==
    ASSUME IInv, TypeOK', EndOfList
    PROVE  IInv'
<1>1. /\ pc \in {"seeding", "links"} /\ pc' = "absorb" /\ current' = Nothing
      /\ UNCHANGED <<queued, window, meta, frontier, todo, flying, channel,
                     inFlight, inFlightTotal, shuttingDown, indexed>>
  BY DEF EndOfList, frontierVars
<1>2. ChannelJobs' = ChannelJobs
  BY <1>1 DEF ChannelJobs
<1>3. Outstanding' = Outstanding
  BY <1>1, <1>2 DEF Outstanding
<1>4. UnderWay' = Outstanding /\ UnderWay' \subseteq UnderWay
  BY <1>1, <1>3 DEF UnderWay
<1>5. OwnerIsInOrder' /\ BudgetIsKept' /\ EndsComplete'
  BY <1>1 DEF IInv, OwnerIsInOrder, BudgetIsKept, EndsComplete
<1>6. JobsAreApart' /\ HostsAreKnown'
  BY <1>1, <1>2, <1>3, <1>4
  DEF IInv, JobsAreApart, HostsAreKnown, Known
<1>7. InFlightIsExact'
  BY <1>1, <1>3 DEF IInv, InFlightIsExact, AtHost
<1>8. FrontierIsExact'
  BY <1>1, <1>4 DEF IInv, FrontierIsExact, Known
<1> QED
  BY <1>5, <1>6, <1>7, <1>8 DEF IInv

\* A page is written: what was booked to the answer is now an indexed page.
LEMMA ConcludeStep ==
    ASSUME IInv, TypeOK', Conclude
    PROVE  IInv'
<1> USE FrontierAssumption, CrawlAssumption
<1> DEFINE o == current
           u == Landing[o.job.url]
<1>1. /\ pc = "sitemaps" /\ pc' = "links" /\ todo = << >>
      /\ UNCHANGED <<queued, window, meta, frontier, current, flying, channel,
                     inFlight, inFlightTotal, shuttingDown>>
  BY DEF Conclude, frontierVars
<1>2. \/ todo' = << >> /\ indexed' \in {indexed, indexed + 1}
      \/ Kept(o) /\ ~IsPage(o) /\ indexed' = indexed
      \/ IsPage(o) /\ ~TooDeep(o) /\ indexed' = indexed + 1
  BY <1>1 DEF Conclude
<1>3. o \in Outcome
  BY <1>1 DEF IInv, OwnerIsInOrder
<1>4. LinkDepth(o) \in 0 .. Depths \/ todo' = << >>
  <2>1. CASE Kept(o) /\ ~IsPage(o)
    BY <2>1 DEF IsPage, LinkDepth, SitemapDepth
  <2>2. CASE IsPage(o) /\ ~TooDeep(o)
    <3>1. o.job.depth \in Nat
      BY <1>3 DEF Outcome, Job
    <3>2. MaxDepth \in Nat /\ Depths \in Nat /\ MaxDepth <= Depths
      OBVIOUS
    <3>3. o.job.depth < MaxDepth
      BY ONLY <2>2, <3>1, <3>2 DEF TooDeep
    <3>4. LinkDepth(o) = 1 \/ LinkDepth(o) = o.job.depth + 1
      BY ONLY DEF LinkDepth, SitemapDepth
    <3> HIDE DEF o
    <3> QED
      BY ONLY <3>1, <3>2, <3>3, <3>4
  <2> QED
    BY <1>2, <2>1, <2>2
<1>5. OwnerIsInOrder'
  BY <1>1, <1>3, <1>4 DEF OwnerIsInOrder, LinkDepth
<1>6. BudgetIsKept'
  <2>1. /\ inFlightTotal \in Nat /\ indexed \in Nat
        /\ MaxPages \in Nat /\ Workers \in Nat
    BY DEF IInv, TypeOK, LoopTypeOK
  <2>2. MaxPages > 0 => indexed + inFlightTotal + 1 < MaxPages + Workers
    BY <1>1 DEF IInv, BudgetIsKept
  <2>3. indexed' = indexed \/ indexed' = indexed + 1
    BY <1>2
  <2>4. MaxPages > 0 => indexed' + inFlightTotal + 0 < MaxPages + Workers
    BY ONLY <2>1, <2>2, <2>3
  <2> QED
    BY <1>1, <2>4 DEF BudgetIsKept
<1>7. JobsAreApart' /\ InFlightIsExact' /\ UnderWay' = UnderWay
  BY <1>1, VisitsUnchanged DEF IInv
<1>8. HostsAreKnown' /\ FrontierIsExact' /\ EndsComplete'
  BY <1>1, <1>7 DEF IInv, HostsAreKnown, FrontierIsExact, EndsComplete, Known
<1> QED
  BY <1>5, <1>6, <1>7, <1>8 DEF IInv

\* The decisions of the loop change nothing of the queue or the visits.
LEMMA DecisionStep ==
    ASSUME IInv, TypeOK',
           \/ Decide \/ EndDispatch \/ Drained \/ WakeUp \/ Interrupt
           \/ Seal \/ Save
    PROVE  IInv'
<1> USE CrawlAssumption
<1>1. UNCHANGED <<queued, window, meta, frontier, todo, current, flying,
                  channel, inFlight, inFlightTotal, indexed>>
  BY DEF Decide, EndDispatch, Drained, WakeUp, Interrupt, Seal, Save,
         frontierVars
<1>2. /\ pc \in {"absorb", "dispatch", "wait", "seal", "save"}
      /\ pc' \in {"absorb", "dispatch", "wait", "seal", "save", "down"}
      /\ pc' = "down" => pc = "save"
  BY DEF Decide, EndDispatch, Drained, WakeUp, Interrupt, Seal, Save
<1>3. JobsAreApart' /\ InFlightIsExact' /\ UnderWay' = UnderWay
  BY <1>1, VisitsUnchanged DEF IInv
<1>4. HostsAreKnown' /\ FrontierIsExact'
  BY <1>1, <1>2, <1>3 DEF IInv, HostsAreKnown, FrontierIsExact, Known
<1>5. OwnerIsInOrder'
  BY <1>1, <1>2 DEF IInv, OwnerIsInOrder, EndsComplete
<1>6. BudgetIsKept'
  <2>1. pc' = "dispatch" /\ ~shuttingDown' /\ MaxPages > 0 => indexed < MaxPages
    <3>1. pc' = "dispatch" => Decide
      BY DEF Decide, EndDispatch, Drained, WakeUp, Interrupt, Seal, Save
    <3>2. indexed \in Nat /\ MaxPages \in Nat
      BY DEF IInv, TypeOK, LoopTypeOK
    <3>3. CASE Decide
      <4>1. shuttingDown' = (shuttingDown \/ (MaxPages > 0 /\ indexed >= MaxPages))
        BY <3>3 DEF Decide
      <4>2. ~shuttingDown' => ~(MaxPages > 0 /\ indexed >= MaxPages)
        BY <4>1, Zenon
      <4> QED
        BY <3>2, <4>2
    <3> QED
      BY <3>1, <3>3
  <2> QED
    BY <1>1, <1>2, <2>1 DEF IInv, BudgetIsKept
<1>7. EndsComplete'
  <2> SUFFICES ASSUME pc' \in {"seal", "save"}
               PROVE  /\ flying = {} /\ channel = << >> /\ current = Nothing
                      /\ ~shuttingDown' => queued = {}
                      /\ MaxPages > 0 => indexed < MaxPages + Workers
    BY <1>1 DEF EndsComplete
  <2>1. CASE Seal
    BY <2>1 DEF Seal, IInv, EndsComplete
  <2>2. CASE Decide \/ Drained
    <3>1. /\ inFlightTotal = 0 /\ pc \in {"absorb", "wait"}
          /\ \/ shuttingDown'
             \/ frontier.pending = 0
      BY <2>2 DEF Decide, Drained, Idle
    <3>2. /\ IsFiniteSet(flying) /\ IsFiniteSet(queued) /\ channel \in Seq(Outcome)
          /\ indexed \in Nat
      BY DEF IInv, JobsAreApart, TypeOK, LoopTypeOK
    <3>3. Cardinality(flying) = 0 /\ Len(channel) = 0
      <4>1. Cardinality(flying) \in Nat /\ Len(channel) \in Nat
        BY <3>2, FS_CardinalityType
      <4> QED
        BY <3>1, <4>1 DEF IInv, InFlightIsExact
    <3>4. flying = {} /\ channel = << >>
      BY <3>2, <3>3, FS_EmptySet
    <3>5. frontier.pending = 0 => queued = {}
      <4>1. frontier = meta /\ meta.pending = Cardinality(queued)
        BY <3>1 DEF IInv, FrontierIsExact
      <4> QED
        BY <3>2, <4>1, FS_EmptySet
    <3>6. current = Nothing
      BY <3>1 DEF IInv, OwnerIsInOrder
    <3>7. MaxPages > 0 => indexed < MaxPages + Workers
      BY <3>1, <3>2 DEF IInv, BudgetIsKept
    <3> QED
      BY <3>1, <3>4, <3>5, <3>6, <3>7
  <2> QED
    BY <2>1, <2>2 DEF Decide, EndDispatch, Drained, WakeUp, Interrupt, Seal, Save
<1> QED
  BY <1>3, <1>4, <1>5, <1>6, <1>7 DEF IInv

\* A process that is gone leaves the directory of the database as it was.
LEMMA GoneStep ==
    ASSUME IInv, TypeOK', Gone
    PROVE  IInv'
<1>1. /\ pc' = "down" /\ current' = Nothing /\ flying' = {} /\ channel' = << >>
      /\ inFlight' = NoVisits /\ inFlightTotal' = 0
      /\ UNCHANGED <<queued, window, meta, frontier, shuttingDown, indexed>>
  BY DEF Gone, frontierVars
<1>2. ChannelJobs' = {} /\ Outstanding' = {} /\ UnderWay' = {}
  BY <1>1 DEF ChannelJobs, Outstanding, UnderWay, Range
<1>3. OwnerIsInOrder' /\ EndsComplete'
  BY <1>1 DEF OwnerIsInOrder, EndsComplete
<1>4. JobsAreApart'
  BY <1>1, <1>2, FS_EmptySet DEF IInv, JobsAreApart
<1>5. HostsAreKnown' /\ FrontierIsExact'
  BY <1>1, <1>2 DEF IInv, HostsAreKnown, FrontierIsExact, Known
<1>6. InFlightIsExact'
  <2>1. Cardinality({}) = 0
    BY FS_EmptySet
  <2>2. \A h \in Host : AtHost(Outstanding', h) = {}
    BY <1>2 DEF AtHost
  <2> QED
    BY <1>1, <1>2, <2>1, <2>2, CrawlAssumption
    DEF InFlightIsExact, NoVisits, AtHost
<1>7. BudgetIsKept'
  <2>1. /\ inFlightTotal \in Nat /\ indexed \in Nat
        /\ MaxPages \in Nat /\ Workers \in Nat
    BY CrawlAssumption DEF IInv, TypeOK, LoopTypeOK
  <2> QED
    BY <1>1, <2>1 DEF IInv, BudgetIsKept
<1> QED
  BY <1>3, <1>4, <1>5, <1>6, <1>7 DEF IInv

\* Opening the frontier counts what is there, which is what the counters say.
LEMMA StartStep ==
    ASSUME IInv, TypeOK', Start
    PROVE  IInv'
<1>1. /\ pc = "down" /\ pc' = "seeding" /\ indexed' = 0
      /\ UNCHANGED <<queued, window, current, flying, channel, inFlight,
                     inFlightTotal>>
      /\ frontier' = [sequence |-> meta.sequence,
                      pending  |-> Cardinality(queued),
                      hosts    |-> Cardinality(Known)]
      /\ meta' = frontier'
  BY DEF Start, OpenFrontier
<1>2. flying = {} /\ channel = << >> /\ current = Nothing
  BY <1>1 DEF IInv, OwnerIsInOrder
<1>3. OwnerIsInOrder' /\ EndsComplete'
  BY <1>1, <1>2 DEF OwnerIsInOrder, EndsComplete
<1>4. JobsAreApart' /\ InFlightIsExact' /\ UnderWay' = UnderWay
  BY <1>1, VisitsUnchanged DEF IInv
<1>5. HostsAreKnown' /\ Known' = Known
  BY <1>1, <1>4 DEF IInv, HostsAreKnown, Known
<1>6. FrontierIsExact'
  BY <1>1, <1>4, <1>5 DEF IInv, FrontierIsExact
<1>7. BudgetIsKept'
  <2>1. inFlightTotal = 0
    <3>1. Cardinality(flying) = 0 /\ Len(channel) = 0
      BY <1>2, FS_EmptySet
    <3> QED
      BY <3>1 DEF IInv, InFlightIsExact
  <2> QED
    BY <1>1, <2>1, CrawlAssumption DEF BudgetIsKept
<1> QED
  BY <1>3, <1>4, <1>5, <1>6, <1>7 DEF IInv

\* Time changes windows, never whether a host has one.
LEMMA TimeStep ==
    ASSUME IInv, TypeOK', TimePasses
    PROVE  IInv'
<1>1. /\ UNCHANGED <<queued, meta, frontier, pc, todo, current, flying, channel,
                     inFlight, inFlightTotal, shuttingDown, indexed>>
      /\ \A h \in Host : window'[h] = IF window[h] > 0 THEN window[h] - 1
                                                       ELSE window[h]
  BY DEF TimePasses, WindowsPass
<1>2. Known' = Known
  BY <1>1 DEF Known, Unknown, IInv, TypeOK, FrontierTypeOK
<1>3. JobsAreApart' /\ InFlightIsExact' /\ UnderWay' = UnderWay
  BY <1>1, VisitsUnchanged DEF IInv
<1> QED
  BY <1>1, <1>2, <1>3
  DEF IInv, OwnerIsInOrder, LinkDepth, HostsAreKnown, BudgetIsKept,
      FrontierIsExact, EndsComplete

-----------------------------------------------------------------------------
(* The theorems *)

\* Before the first start nothing is queued, under way or counted.
LEMMA InitIInv == Init => IInv
<1> SUFFICES ASSUME Init PROVE IInv
  OBVIOUS
<1>1. TypeOK
  BY InitTypeOK
<1>2. /\ pc = "down" /\ current = Nothing /\ flying = {} /\ channel = << >>
      /\ queued = {} /\ window = [h \in Host |-> Unknown]
      /\ meta = Zero /\ frontier = Zero
      /\ inFlight = [h \in Host |-> 0] /\ inFlightTotal = 0 /\ indexed = 0
  BY DEF Init, FrontierInit, NoVisits
<1>3. ChannelJobs = {} /\ Outstanding = {} /\ UnderWay = {} /\ Known = {}
  BY <1>2 DEF ChannelJobs, Outstanding, UnderWay, Known, Range
<1>4. Cardinality({}) = 0 /\ IsFiniteSet({}) /\ Len(channel) = 0
  BY <1>2, FS_EmptySet
<1>5. \A h \in Host : AtHost(Outstanding, h) = {}
  BY <1>3 DEF AtHost
<1>6. InFlightIsExact
  <2>1. Cardinality(Outstanding) = 0 /\ Cardinality(flying) = 0
    BY <1>2, <1>3, <1>4
  <2>2. \A h \in Host : /\ inFlight[h] = 0
                        /\ Cardinality(AtHost(Outstanding, h)) = 0
    BY <1>2, <1>4, <1>5
  <2>3. inFlightTotal = 0 /\ Workers \in Nat
    BY <1>2, CrawlAssumption
  <2> QED
    BY <1>4, <2>1, <2>2, <2>3 DEF InFlightIsExact
<1>7. FrontierIsExact
  BY <1>2, <1>3, <1>4 DEF FrontierIsExact, Zero
<1>8. JobsAreApart /\ HostsAreKnown
  BY <1>2, <1>3, <1>4 DEF JobsAreApart, HostsAreKnown
<1>9. OwnerIsInOrder /\ EndsComplete /\ BudgetIsKept
  BY <1>2, CrawlAssumption DEF OwnerIsInOrder, EndsComplete, BudgetIsKept
<1> QED
  BY <1>1, <1>6, <1>7, <1>8, <1>9 DEF IInv

\* Every step of the process keeps the invariant.
LEMMA NextIInv == IInv /\ [Next]_vars => IInv'
<1> SUFFICES ASSUME IInv, [Next]_vars PROVE IInv'
  OBVIOUS
<1>1. TypeOK'
  BY TypeStep DEF IInv
<1>2. CASE UNCHANGED vars
  <2>1. UNCHANGED <<queued, window, meta, frontier, pc, todo, current, flying,
                    channel, inFlight, inFlightTotal, shuttingDown, indexed>>
    BY <1>2 DEF vars, frontierVars, loopVars
  <2>2. JobsAreApart' /\ InFlightIsExact' /\ UnderWay' = UnderWay
    BY <2>1, VisitsUnchanged DEF IInv
  <2> QED
    BY <1>1, <2>1, <2>2
    DEF IInv, OwnerIsInOrder, LinkDepth, HostsAreKnown, BudgetIsKept,
        FrontierIsExact, EndsComplete, Known
<1>3. CASE Start
  BY <1>1, <1>3, StartStep
<1>4. CASE TakeSeed \/ TakeSitemap \/ TakePageLink
  BY <1>1, <1>4, TakeLinkStep
<1>5. CASE EndOfList
  BY <1>1, <1>5, EndOfListStep
<1>6. CASE Receive
  BY <1>1, <1>6, ReceiveStep
<1>13. CASE Defer
  BY <1>1, <1>13, DeferStep
<1>14. ASSUME NEW v \in flying, FetchRobots(v) PROVE IInv'
  BY <1>1, <1>14, FetchRobotsStep
<1>7. CASE Conclude
  BY <1>1, <1>7, ConcludeStep
<1>8. CASE Dispatch
  BY <1>1, <1>8, DispatchStep
<1>9. CASE \/ Decide \/ EndDispatch \/ Drained \/ WakeUp \/ Interrupt
           \/ Seal \/ Save
  BY <1>1, <1>9, DecisionStep
<1>10. ASSUME NEW v \in flying, Finish(v) PROVE IInv'
  BY <1>1, <1>10, FinishStep
<1>11. CASE Kill \/ IoError
  BY <1>1, <1>11, GoneStep DEF Kill, IoError
<1>12. CASE Tick
  BY <1>1, <1>12, TimeStep DEF Tick
<1> QED
  BY <1>2, <1>3, <1>4, <1>5, <1>6, <1>7, <1>8, <1>9, <1>10, <1>11, <1>12,
     <1>13, <1>14
  DEF Next, Owner

\* The inductive invariant holds in every reachable state: every job is in one
\* place, and every count is the size of what it counts.
THEOREM SpecIInv == Spec => []IInv
<1> QED
  BY InitIInv, NextIInv, PTL DEF Spec

\* Every variable of the frontier, the filter and the owner keeps its type.
THEOREM SpecTypeOK == Spec => []TypeOK
<1>1. IInv => TypeOK
  BY DEF IInv
<1> QED
  BY <1>1, SpecIInv, PTL

\* in_flight and in_flight_total count exactly the visits that were spawned and
\* not yet booked, and stay within --workers and --per-host, for any of both.
THEOREM SpecInFlightIsExact == Spec => []InFlightIsExact
<1>1. IInv => InFlightIsExact
  BY DEF IInv
<1> QED
  BY <1>1, SpecIInv, PTL

\* The counters in the database are the numbers of its rows whenever the
\* process may be killed, and no key of the queue is given out twice.
THEOREM SpecFrontierIsExact == Spec => []FrontierIsExact
<1>1. IInv => FrontierIsExact
  BY DEF IInv
<1> QED
  BY <1>1, SpecIInv, PTL

\* The loop ends with every answer absorbed, on an empty queue unless it was
\* told to stop, and fewer than --workers pages past --max-pages.
THEOREM SpecEndsComplete == Spec => []EndsComplete
<1>1. IInv => EndsComplete
  BY DEF IInv
<1> QED
  BY <1>1, SpecIInv, PTL

-----------------------------------------------------------------------------
(***************************************************************************)
(* The refinement of CrawlOnce.  For the life of a URL a step does one of  *)
(* four things: nothing, queue a job of a URL the filter had not seen,     *)
(* pass a job from the queue to the visits, or let go of a job.            *)
(***************************************************************************)
NoMove == queued' = queued /\ UnderWay' = UnderWay /\ seen' = seen

Queues(u, e) ==
    /\ ~MayContain(seen, u)
    /\ e.url = u
    /\ queued' = queued \cup {e}
    /\ UnderWay' = UnderWay
    /\ seen' = seen \cup BitsOf[u]

Takes(e) ==
    /\ queued' = queued \ {e}
    /\ UnderWay' = UnderWay \cup {e}
    /\ seen' = seen

LetsGo(e) ==
    /\ queued' = queued
    /\ UnderWay' = UnderWay \ {e}
    /\ seen' = seen

Moves ==
    \/ NoMove
    \/ \E u \in Url, e \in Job : Queues(u, e)
    \/ \E e \in queued : Takes(e)
    \/ \E e \in UnderWay : LetsGo(e)

\* With no kill, every step is one of the four, and a process that goes down
\* has saved its filter.
LEMMA StepMoves ==
    ASSUME MaxKills = 0, IInv, IInv', OneCopyEach, [Next]_vars
    PROVE  Moves /\ (pc' = "down" => bloom' = seen')
<1> DEFINE Current == pc' = "down" => bloom' = seen'
<1>1. ASSUME UNCHANGED <<queued, flying, channel, current, seen, bloom, pc>>
      PROVE  Moves /\ Current
  BY <1>1, VisitsUnchanged DEF Moves, NoMove, OneCopyEach
<1>2. CASE UNCHANGED vars
  BY <1>1, <1>2 DEF vars, frontierVars, seenVars, loopVars
<1>3. CASE Start
  <2>1. /\ UNCHANGED <<queued, flying, channel, current>>
        /\ pc = "down" /\ seen' = bloom /\ bloom' = bloom
    BY <1>3 DEF Start, OpenFrontier, OpenSeen
  <2> QED
    BY <2>1, VisitsUnchanged DEF Moves, NoMove, OneCopyEach
<1>4. CASE TakeSeed \/ TakeSitemap \/ TakePageLink
  <2>1. PICK admitted, depth :
            /\ admitted \in SUBSET Url
            /\ todo # << >> => depth \in 0 .. Depths
            /\ TakeLink(admitted, depth)
    BY <1>4, TakeLinkIsTaken DEF IInv
  <2>2. /\ depth \in 0 .. Depths
        /\ UNCHANGED <<robots, archive, pc, current, flying, channel,
                       inFlight, inFlightTotal, shuttingDown, indexed, kills>>
        /\ \/ UNCHANGED <<frontierVars, seenVars>>
           \/ \E u \in admitted : IsNew(u) /\ Insert(u) /\ Push(u, depth)
    BY <2>1, TakeLinkShape DEF IInv
  <2>3. UnderWay' = UnderWay
    BY <2>2, VisitsUnchanged
  <2>4. pc # "down"
    BY <1>4 DEF TakeSeed, TakeSitemap, TakePageLink
  <2>5. CASE UNCHANGED <<frontierVars, seenVars>>
    BY <2>2, <2>3, <2>5, <1>1 DEF frontierVars, seenVars
  <2>6. ASSUME NEW u \in admitted, IsNew(u), Insert(u), Push(u, depth)
        PROVE  Moves /\ Current
    <3> DEFINE new == [url |-> u, depth |-> depth, seq |-> frontier.sequence + 1]
    <3>1. /\ new \in Job
          /\ queued' = (queued \ {e \in EntriesOf(HostOf[u]) :
                                     e.seq = frontier.sequence + 1}) \cup {new}
      <4>1. u \in Url
        BY <2>1, <2>6
      <4> QED
        BY <2>2, <2>6, <4>1, PushShape DEF IInv
    <3>2. new.url = u /\ u \in Url
      BY <2>1, <2>6
    <3> HIDE DEF new
    <3>3. \A e \in queued : e.seq \in Nat /\ e.seq <= frontier.sequence
      BY <2>4 DEF IInv, FrontierIsExact, TypeOK, FrontierTypeOK, Job
    <3>4. frontier.sequence \in Nat
      BY DEF IInv, TypeOK, FrontierTypeOK, Counters
    <3>5. {e \in EntriesOf(HostOf[u]) : e.seq = frontier.sequence + 1} = {}
      BY <3>3, <3>4 DEF EntriesOf
    <3>6. queued' = queued \cup {new}
      BY <3>1, <3>5
    <3>7. Queues(u, new)
      BY <2>3, <2>6, <3>2, <3>6 DEF Queues, IsNew, Insert
    <3> QED
      BY <2>2, <2>4, <3>1, <3>2, <3>7 DEF Moves
  <2> QED
    BY <2>2, <2>5, <2>6
<1>5. CASE EndOfList
  <2>1. /\ pc' = "absorb" /\ current' = Nothing
        /\ UNCHANGED <<queued, seen, flying, channel>>
    BY <1>5 DEF EndOfList, frontierVars, seenVars
  <2>2. Outstanding' = Outstanding
    BY <2>1 DEF Outstanding, ChannelJobs
  <2>3. UnderWay' = Outstanding
    BY <2>1, <2>2 DEF UnderWay
  <2>4. CASE current = Nothing
    <3>1. UnderWay = Outstanding
      BY <2>4 DEF UnderWay
    <3> QED
      BY <2>1, <2>3, <3>1 DEF Moves, NoMove
  <2>5. CASE current # Nothing
    <3>1. UnderWay = Outstanding \cup {current.job}
      BY <2>5 DEF UnderWay
    <3>2. current.job \notin Outstanding
      BY <2>5 DEF IInv, JobsAreApart
    <3>3. UnderWay' = UnderWay \ {current.job}
      BY <2>3, <3>1, <3>2
    <3> QED
      BY <2>1, <3>1, <3>3 DEF Moves, LetsGo
  <2> QED
    BY <2>4, <2>5
<1>6. CASE Receive
  <2>1. UnderWay' = UnderWay
    BY <1>6, ReceiveMoves DEF IInv
  <2>2. UNCHANGED <<queued, seen>> /\ pc' = "defer"
    BY <1>6 DEF Receive, frontierVars, seenVars
  <2> QED
    BY <2>1, <2>2 DEF Moves, NoMove
<1>13. CASE Defer
  <2>1. UNCHANGED <<queued, flying, channel, current, seen>> /\ pc' = "sitemaps"
    BY <1>13 DEF Defer, DeferHost, seenVars
  <2> QED
    BY <2>1, VisitsUnchanged DEF Moves, NoMove
<1>14. ASSUME NEW v \in flying, FetchRobots(v)
       PROVE  Moves /\ Current
  <2>1. UnderWay' = UnderWay
    BY <1>14, FetchRobotsMoves DEF IInv
  <2>2. UNCHANGED <<queued, seen, bloom, pc>>
    BY <1>14 DEF FetchRobots, frontierVars, seenVars
  <2> QED
    BY <2>1, <2>2 DEF Moves, NoMove, OneCopyEach
<1>7. CASE Conclude \/ Decide \/ EndDispatch \/ Drained \/ WakeUp \/ Interrupt
           \/ Seal
  <2>1. /\ UNCHANGED <<queued, flying, channel, current, seen>>
        /\ pc' # "down"
    BY <1>7 DEF Conclude, Decide, EndDispatch, Drained, WakeUp, Interrupt, Seal,
                frontierVars, seenVars
  <2> QED
    BY <2>1, VisitsUnchanged DEF Moves, NoMove
<1>8. CASE Save
  <2>1. /\ UNCHANGED <<queued, flying, channel, current>>
        /\ seen' = seen /\ bloom' = seen
    BY <1>8 DEF Save, SaveSeen, frontierVars
  <2> QED
    BY <2>1, VisitsUnchanged DEF Moves, NoMove
<1>9. CASE Dispatch
  <2>1. PICK e \in queued :
            /\ queued' = queued \ {e}
            /\ UnderWay' = UnderWay \cup {e}
            /\ UNCHANGED <<seenVars, pc>>
    BY <1>9, DispatchMoves DEF IInv
  <2>2. pc' # "down"
    BY <1>9, <2>1 DEF Dispatch
  <2> QED
    BY <2>1, <2>2 DEF Moves, Takes, seenVars
<1>10. ASSUME NEW v \in flying, Finish(v)
       PROVE  Moves /\ Current
  <2>1. UnderWay' = UnderWay
    BY <1>10, FinishMoves DEF IInv
  <2>2. UNCHANGED <<queued, seen, bloom, pc>>
    BY <1>10 DEF Finish, frontierVars, seenVars
  <2> QED
    BY <2>1, <2>2 DEF Moves, NoMove, OneCopyEach
<1>11. CASE Kill \/ IoError
  <2>1. kills < MaxKills /\ kills \in Nat
    BY <1>11 DEF Kill, IoError, Gone, IInv, TypeOK, LoopTypeOK
  <2> QED
    BY <2>1
<1>12. CASE Tick
  BY <1>1, <1>12 DEF Tick, TimePasses, seenVars
<1> QED
  BY <1>2, <1>3, <1>4, <1>5, <1>6, <1>7, <1>8, <1>9, <1>10, <1>11, <1>12,
     <1>13, <1>14
  DEF Next, Owner

\* Without a kill a URL is at work at most once: the four moves keep it so.
LEMMA OneCopyStep ==
    ASSUME OneCopyEach, Moves, pc' = "down" => bloom' = seen'
    PROVE  OneCopyEach'
<1>1. CASE NoMove
  BY <1>1 DEF OneCopyEach, NoMove
<1>2. ASSUME NEW u \in Url, NEW e \in Job, Queues(u, e)
      PROVE  OneCopyEach'
  <2>1. \A d \in queued \cup UnderWay : d.url # u
    BY <1>2 DEF Queues, OneCopyEach
  <2>2. /\ queued' \cup UnderWay' = (queued \cup UnderWay) \cup {e}
        /\ e.url = u
        /\ seen' = seen \cup BitsOf[u]
    BY <1>2 DEF Queues
  <2>3. \A d, f \in queued' \cup UnderWay' : d.url = f.url => d = f
    BY <2>1, <2>2 DEF OneCopyEach
  <2>4. \A w : MayContain(seen, w) => MayContain(seen', w)
    BY <2>2 DEF MayContain
  <2>5. MayContain(seen', u)
    BY <2>2 DEF MayContain
  <2>6. \A d \in queued' \cup UnderWay' : MayContain(seen', d.url)
    BY <2>2, <2>4, <2>5 DEF OneCopyEach
  <2>7. ASSUME NEW b \in seen'
        PROVE  \E w \in Url : b \in BitsOf[w] /\ MayContain(seen', w)
    <3>1. CASE b \in seen
      BY <3>1, <2>4 DEF OneCopyEach
    <3>2. CASE b \in BitsOf[u]
      BY <3>2, <2>5
    <3> QED
      BY <2>2, <3>1, <3>2
  <2> QED
    BY <2>3, <2>6, <2>7 DEF OneCopyEach
<1>3. ASSUME NEW e \in queued, Takes(e)
      PROVE  OneCopyEach'
  <2>1. queued' \cup UnderWay' = queued \cup UnderWay /\ seen' = seen
    BY <1>3 DEF Takes
  <2> QED
    BY <2>1 DEF OneCopyEach
<1>4. ASSUME NEW e \in UnderWay, LetsGo(e)
      PROVE  OneCopyEach'
  <2>1. /\ queued' \cup UnderWay' \subseteq queued \cup UnderWay
        /\ seen' = seen
    BY <1>4 DEF LetsGo
  <2> QED
    BY <2>1 DEF OneCopyEach
<1> QED
  BY <1>1, <1>2, <1>3, <1>4 DEF Moves

\* A set whose elements are all alike has at most one.
LEMMA AtMostOne ==
    ASSUME NEW S, \A d, e \in S : d = e
    PROVE  ~(Cardinality(S) > 1)
<1>1. CASE S = {}
  BY <1>1, FS_EmptySet
<1>2. ASSUME NEW d \in S
      PROVE  Cardinality(S) = 1
  <2>1. S = {d}
    BY <1>2
  <2> QED
    BY <2>1, FS_Singleton
<1> QED
  BY <1>1, <1>2

\* What the status of a URL says, when no URL is at work twice.
StatusIsPlace ==
    \A u \in Url :
        /\ \A e \in queued : e.url = u => Status[u] = "queued"
        /\ \A e \in UnderWay : e.url = u => Status[u] = "flying"
        /\ (\A e \in queued \cup UnderWay : e.url # u) =>
               Status[u] = IF MayContain(seen, u) THEN "done" ELSE "new"

\* The status of a URL is the place of its job, or what the filter says.
LEMMA StatusPlace == OneCopyEach /\ JobsAreApart => StatusIsPlace
<1> SUFFICES ASSUME OneCopyEach, JobsAreApart, NEW u \in Url
             PROVE  /\ \A e \in queued : e.url = u => Status[u] = "queued"
                    /\ \A e \in UnderWay : e.url = u => Status[u] = "flying"
                    /\ (\A e \in queued \cup UnderWay : e.url # u) =>
                           Status[u] = IF MayContain(seen, u) THEN "done" ELSE "new"
  BY DEF StatusIsPlace
<1>1. ~(Cardinality(Copies(u)) > 1)
  <2>1. \A d, e \in Copies(u) : d = e
    BY DEF Copies, OneCopyEach
  <2> QED
    BY <2>1, AtMostOne
<1>2. Status[u] = IF Copies(u) \cap queued # {} THEN "queued"
                  ELSE IF Copies(u) # {} THEN "flying"
                  ELSE IF MayContain(seen, u) THEN "done" ELSE "new"
  BY <1>1 DEF Status
<1>3. ASSUME NEW e \in queued, e.url = u
      PROVE  Status[u] = "queued"
  <2>1. e \in Copies(u) \cap queued
    BY <1>3 DEF Copies
  <2> QED
    BY <1>2, <2>1
<1>4. ASSUME NEW e \in UnderWay, e.url = u
      PROVE  Status[u] = "flying"
  <2>1. e \in Copies(u) /\ e \notin queued
    BY <1>4 DEF Copies, JobsAreApart
  <2>2. \A j \in Copies(u) : j = e
    BY <1>4, <2>1 DEF Copies, OneCopyEach
  <2>3. Copies(u) # {} /\ Copies(u) \cap queued = {}
    BY <2>1, <2>2
  <2> QED
    BY <1>2, <2>3
<1>5. ASSUME \A e \in queued \cup UnderWay : e.url # u
      PROVE  Status[u] = IF MayContain(seen, u) THEN "done" ELSE "new"
  <2>1. Copies(u) = {}
    BY <1>5 DEF Copies
  <2> QED
    BY <1>2, <2>1
<1> QED
  BY <1>3, <1>4, <1>5

\* And so it is after a step.
LEMMA StatusNext == (OneCopyEach /\ JobsAreApart)' => StatusIsPlace'
BY StatusPlace, PTL

\* Queueing a URL queues it in CrawlOnce; the URLs whose bits are now all set
\* are presumed seen there.
LEMMA QueueRefines ==
    ASSUME OneCopyEach, StatusIsPlace, StatusIsPlace',
           NEW u \in Url, NEW e, Queues(u, e)
    PROVE  Once!Queue(u)
<1>1. /\ ~MayContain(seen, u) /\ e.url = u
      /\ queued' = queued \cup {e} /\ UnderWay' = UnderWay
      /\ seen' = seen \cup BitsOf[u]
  BY DEF Queues
<1>2. \A d \in queued \cup UnderWay : d.url # u
  BY <1>1 DEF OneCopyEach
<1>3. Status[u] = "new" /\ Status'[u] = "queued"
  BY <1>1, <1>2 DEF StatusIsPlace
<1> DEFINE presumed == {v \in Url \ {u} : Status[v] = "new" /\ MayContain(seen', v)}
<1>4. ASSUME NEW v \in Url, v # u
      PROVE  Status'[v] = IF v \in presumed THEN "done" ELSE Status[v]
  <2>1. CASE \E d \in queued : d.url = v
    BY <1>1, <2>1 DEF StatusIsPlace
  <2>2. CASE \E d \in UnderWay : d.url = v
    BY <1>1, <2>2 DEF StatusIsPlace
  <2>3. CASE \A d \in queued \cup UnderWay : d.url # v
    <3>1. \A d \in queued' \cup UnderWay' : d.url # v
      BY <1>1, <1>4, <2>3
    <3>2. Status[v] = IF MayContain(seen, v) THEN "done" ELSE "new"
      BY <2>3 DEF StatusIsPlace
    <3>3. Status'[v] = IF MayContain(seen', v) THEN "done" ELSE "new"
      BY <3>1 DEF StatusIsPlace
    <3>4. MayContain(seen, v) => MayContain(seen', v)
      BY <1>1 DEF MayContain
    <3> QED
      BY <1>4, <3>2, <3>3, <3>4
  <2> QED
    BY <2>1, <2>2, <2>3
<1>5. presumed \subseteq Aliasing
  <2> SUFFICES ASSUME NEW v \in Url, v # u, Status[v] = "new", MayContain(seen', v),
                      NEW b \in BitsOf[v]
               PROVE  \E w \in Url \ {v} : b \in BitsOf[w]
    BY DEF Aliasing
  <2>1. ~MayContain(seen, v)
    <3>1. \A d \in queued \cup UnderWay : d.url # v
      BY DEF StatusIsPlace
    <3> QED
      BY <3>1 DEF StatusIsPlace
  <2>2. b \in seen \cup BitsOf[u]
    BY <1>1 DEF MayContain
  <2>3. CASE b \in seen
    <3>1. PICK w \in Url : b \in BitsOf[w] /\ MayContain(seen, w)
      BY <2>3 DEF OneCopyEach
    <3> QED
      BY <2>1, <3>1
  <2> QED
    BY <2>2, <2>3
<1>6. Status' = [v \in Url |-> Status'[v]]
  BY DEF Status
<1>7. presumed \in SUBSET {v \in Aliasing \ {u} : Status[v] = "new"}
  BY <1>5
<1> HIDE DEF presumed
<1>8. Status' = [v \in Url |-> IF v = u THEN "queued"
                              ELSE IF v \in presumed THEN "done"
                              ELSE Status[v]]
  BY <1>3, <1>4, <1>6
<1> QED
  BY <1>3, <1>7, <1>8 DEF Once!Queue

\* Passing a job to the visits takes its URL.
LEMMA TakeRefines ==
    ASSUME OneCopyEach, JobsAreApart, StatusIsPlace, StatusIsPlace',
           NEW e \in queued, e.url \in Url, Takes(e)
    PROVE  Once!Take(e.url)
<1>1. queued' = queued \ {e} /\ UnderWay' = UnderWay \cup {e} /\ seen' = seen
  BY DEF Takes
<1>2. Status[e.url] = "queued" /\ Status'[e.url] = "flying"
  BY <1>1 DEF StatusIsPlace
<1>3. ASSUME NEW v \in Url, v # e.url
      PROVE  Status'[v] = Status[v]
  <2>1. CASE \E d \in queued : d.url = v
    BY <1>1, <1>3, <2>1 DEF StatusIsPlace
  <2>2. CASE \E d \in UnderWay : d.url = v
    BY <1>1, <2>2 DEF StatusIsPlace
  <2>3. CASE \A d \in queued \cup UnderWay : d.url # v
    <3>1. \A d \in queued' \cup UnderWay' : d.url # v
      BY <1>1, <1>3, <2>3
    <3> QED
      BY <1>1, <2>3, <3>1 DEF StatusIsPlace
  <2> QED
    BY <2>1, <2>2, <2>3
<1>4. /\ Status' = [v \in Url |-> Status'[v]]
      /\ Status = [v \in Url |-> Status[v]]
  BY DEF Status
<1>5. Status' = [Status EXCEPT ![e.url] = "flying"]
  BY <1>2, <1>3, <1>4
<1> QED
  BY <1>2, <1>5 DEF Once!Take

\* Letting go of a job finishes its URL.
LEMMA FinishRefines ==
    ASSUME OneCopyEach, JobsAreApart, StatusIsPlace, StatusIsPlace',
           NEW e \in UnderWay, e.url \in Url, LetsGo(e)
    PROVE  Once!Finish(e.url)
<1>1. queued' = queued /\ UnderWay' = UnderWay \ {e} /\ seen' = seen
  BY DEF LetsGo
<1>2. Status[e.url] = "flying"
  BY DEF StatusIsPlace
<1>3. Status'[e.url] = "done"
  <2>1. \A d \in queued' \cup UnderWay' : d.url # e.url
    BY <1>1 DEF OneCopyEach, JobsAreApart
  <2>2. MayContain(seen', e.url)
    BY <1>1 DEF OneCopyEach
  <2> QED
    BY <2>1, <2>2 DEF StatusIsPlace
<1>4. ASSUME NEW v \in Url, v # e.url
      PROVE  Status'[v] = Status[v]
  <2>1. CASE \E d \in queued : d.url = v
    BY <1>1, <2>1 DEF StatusIsPlace
  <2>2. CASE \E d \in UnderWay : d.url = v
    BY <1>1, <1>4, <2>2 DEF StatusIsPlace
  <2>3. CASE \A d \in queued \cup UnderWay : d.url # v
    <3>1. \A d \in queued' \cup UnderWay' : d.url # v
      BY <1>1, <2>3
    <3> QED
      BY <1>1, <2>3, <3>1 DEF StatusIsPlace
  <2> QED
    BY <2>1, <2>2, <2>3
<1>5. /\ Status' = [v \in Url |-> Status'[v]]
      /\ Status = [v \in Url |-> Status[v]]
  BY DEF Status
<1>6. Status' = [Status EXCEPT ![e.url] = "done"]
  BY <1>3, <1>4, <1>5
<1> QED
  BY <1>2, <1>6 DEF Once!Finish

\* Every step of the process is a step of CrawlOnce, or changes no status.
LEMMA StepRefines ==
    ASSUME MaxKills = 0, IInv, IInv', OneCopyEach, StatusIsPlace, StatusIsPlace',
           [Next]_vars
    PROVE  [Once!Next]_Status
<1>1. Moves
  BY StepMoves
<1>2. \A e \in queued \cup UnderWay : e.url \in Url
  <2>1. queued \cup UnderWay \subseteq Job
    <3>1. current # Nothing => current.job \in Job
      BY DEF IInv, OwnerIsInOrder, Outcome
    <3> QED
      BY <3>1, WorkIsFinite DEF IInv, UnderWay, TypeOK, FrontierTypeOK
  <2> QED
    BY <2>1 DEF Job
<1>3. CASE NoMove
  BY <1>3 DEF NoMove, Status, Copies
<1>4. ASSUME NEW u \in Url, NEW e, Queues(u, e)
      PROVE  Once!Next
  BY <1>4, QueueRefines DEF Once!Next
<1>5. ASSUME NEW e \in queued, Takes(e)
      PROVE  Once!Next
  BY <1>2, <1>5, TakeRefines DEF Once!Next, IInv
<1>6. ASSUME NEW e \in UnderWay, LetsGo(e)
      PROVE  Once!Next
  BY <1>2, <1>6, FinishRefines DEF Once!Next, IInv
<1> QED
  BY <1>1, <1>3, <1>4, <1>5, <1>6 DEF Moves

\* Before the first start no URL is known.
LEMMA InitRefines == Init => OneCopyEach /\ Once!Init
<1> SUFFICES ASSUME Init PROVE OneCopyEach /\ Once!Init
  OBVIOUS
<1>1. /\ queued = {} /\ flying = {} /\ channel = << >> /\ current = Nothing
      /\ seen = {} /\ bloom = {}
  BY DEF Init, FrontierInit, SeenInit
<1>2. UnderWay = {}
  BY <1>1 DEF UnderWay, Outstanding, ChannelJobs, Range
<1>3. OneCopyEach
  BY <1>1, <1>2 DEF OneCopyEach
<1>4. JobsAreApart
  BY InitIInv DEF IInv
<1>5. StatusIsPlace
  BY <1>3, <1>4, StatusPlace
<1>6. \A u \in Url : ~MayContain(seen, u)
  BY <1>1, SeenAssumption, CrawlAssumption DEF MayContain
<1>7. \A u \in Url : Status[u] = "new"
  BY <1>1, <1>2, <1>5, <1>6 DEF StatusIsPlace
<1>8. Status = [u \in Url |-> Status[u]]
  BY DEF Status
<1>9. Once!Init
  BY <1>7, <1>8 DEF Once!Init
<1> QED
  BY <1>3, <1>9

\* Without a kill, over all runs, every URL is queued at most once, fetched at
\* most once and then never queued again: the crawl implements CrawlOnce, for
\* any web and any filter, with the URLs whose bits others share as the ones
\* that may be dropped unseen.
THEOREM SpecEachURLOnce ==
    ASSUME MaxKills = 0
    PROVE  Spec => EachURLOnce
<1>1. Init => IInv /\ OneCopyEach /\ Once!Init
  BY InitIInv, InitRefines
<1>2. IInv /\ [Next]_vars => IInv'
  BY NextIInv
<1>3. IInv /\ IInv' /\ OneCopyEach /\ [Next]_vars => OneCopyEach'
  BY StepMoves, OneCopyStep
<1>4. IInv /\ OneCopyEach => StatusIsPlace
  BY StatusPlace DEF IInv
<1>5. /\ IInv /\ IInv' /\ OneCopyEach
      /\ StatusIsPlace /\ StatusIsPlace'
      /\ [Next]_vars
      => [Once!Next]_Status
  BY StepRefines
<1> QED
  BY <1>1, <1>2, <1>3, <1>4, <1>5, PTL DEF Spec, EachURLOnce, Once!Spec

-----------------------------------------------------------------------------
(* The measured crawl is a crawl *)

\* Time that changes nothing is a stutter of the crawl; every other step of the
\* measured crawl is one of its steps.
LEMMA PoliteStepIsStep ==
    ASSUME IInv, [PoliteNext]_politeVars
    PROVE  [Next]_vars
<1>1. CASE TimePasses
  <2>1. CASE \E h \in Host : window[h] > 0 \/ robots[h] # Absent
    BY <1>1, <2>1 DEF Next, Tick
  <2>2. CASE \A h \in Host : ~(window[h] > 0) /\ robots[h] = Absent
    <3>1. window \in [Host -> Nat \cup {Unknown}] /\ robots \in [Host -> Cached \cup {Absent}]
      BY DEF IInv, TypeOK, FrontierTypeOK, LoopTypeOK
    <3>2. window' = window
      BY <1>1, <2>2, <3>1 DEF TimePasses, WindowsPass
    <3>3. robots' = robots
      BY <1>1, <2>2, <3>1 DEF TimePasses, Age
    <3> QED
      BY <1>1, <3>2, <3>3 DEF TimePasses, vars, frontierVars, loopVars
  <2> QED
    BY <2>1, <2>2
<1>2. CASE UNCHANGED politeVars
  BY <1>2 DEF politeVars
<1>3. CASE PoliteNext /\ ~TimePasses
  BY <1>3 DEF PoliteNext, Next, Owner
<1> QED
  BY <1>1, <1>2, <1>3

-----------------------------------------------------------------------------
(* One visit of a host *)

\* With --per-host 1, two outstanding visits are of two hosts.
LEMMA OneAtATime ==
    ASSUME PerHost <= 1, IInv
    PROVE  /\ \A h \in Host : inFlight[h] \in {0, 1}
           /\ \A j \in Outstanding : HostOf[j.url] \in Host
                                     /\ inFlight[HostOf[j.url]] = 1
           /\ \A j, k \in Outstanding : HostOf[j.url] = HostOf[k.url] => j = k
<1>1. \A h \in Host : /\ inFlight[h] \in Nat
                      /\ inFlight[h] = Cardinality(AtHost(Outstanding, h))
                      /\ inFlight[h] <= 1 \/ inFlight[h] <= PerHost
  BY DEF IInv, InFlightIsExact, TypeOK, LoopTypeOK
<1>2. PerHost \in Nat
  BY CrawlAssumption
<1>3. \A h \in Host : inFlight[h] \in {0, 1}
  BY <1>1, <1>2
<1>4. /\ Outstanding \subseteq Job
      /\ \A h \in Host : IsFiniteSet(AtHost(Outstanding, h))
  BY WorkIsFinite DEF IInv
<1>5. ASSUME NEW j \in Outstanding
      PROVE  HostOf[j.url] \in Host /\ inFlight[HostOf[j.url]] = 1
  <2>1. HostOf[j.url] \in Host
    BY <1>4, FrontierAssumption DEF Job
  <2>2. j \in AtHost(Outstanding, HostOf[j.url])
    BY DEF AtHost
  <2>3. Cardinality(AtHost(Outstanding, HostOf[j.url])) # 0
    BY <1>4, <2>1, <2>2, FS_EmptySet
  <2> QED
    BY <1>1, <1>3, <2>1, <2>3
<1>6. ASSUME NEW j \in Outstanding, NEW k \in Outstanding,
             HostOf[j.url] = HostOf[k.url], j # k
      PROVE  FALSE
  <2> DEFINE S == AtHost(Outstanding, HostOf[j.url])
  <2>1. HostOf[j.url] \in Host /\ Cardinality(S) = 1
    BY <1>1, <1>5
  <2>2. j \in S /\ k \in S \ {j} /\ IsFiniteSet(S)
    BY <1>4, <1>6, <2>1 DEF AtHost
  <2> HIDE DEF S
  <2>3. Cardinality(S \ {j}) = 0 /\ IsFiniteSet(S \ {j})
    BY <2>1, <2>2, FS_RemoveElement
  <2> QED
    BY <2>2, <2>3, FS_EmptySet
<1> QED
  BY <1>3, <1>5, <1>6

-----------------------------------------------------------------------------
(* What each step does to the hosts *)

\* The step is not one into or out of the deferral of a host.
SameDeferral ==
    \/ pc # "defer" /\ pc' # "defer"
    \/ UNCHANGED <<pc, current>>

LEMMA DeferralIsSame ==
    ASSUME SameDeferral, NEW h
    PROVE  Deferring(h)' <=> Deferring(h)
  BY DEF SameDeferral, Deferring

\* A step of the owner that neither spawns nor books a visit leaves the hosts
\* alone, except for giving a new host its row.
Quiet ==
    /\ UNCHANGED <<inFlight, flying, channel, robots, gap>>
    /\ \A h \in Host : window'[h] # window[h] => window[h] = Unknown /\ window'[h] = 0
    /\ SameDeferral

\* The delay starts again for a host that is asked.
GapRestarts == gap' = [h \in Host |-> IF Asks(h) THEN DefaultDelay ELSE gap[h]]

\* The kinds of step, by what they do to hosts, visits and answers.
LEMMA QuietStep ==
    ASSUME IInv, [PoliteNext]_politeVars
    PROVE  \/ Quiet
           \/ /\ UNCHANGED <<inFlight, window, robots, gap, pc, current>>
              /\ \E v \in flying : Finish(v)
           \/ /\ UNCHANGED <<inFlight, window, robots, channel, pc, current>>
              /\ GapRestarts
              /\ \E v \in flying : FetchRobots(v)
           \/ Receive /\ UNCHANGED gap
           \/ Defer /\ UNCHANGED gap
           \/ Dispatch /\ GapRestarts
           \/ (Kill \/ IoError) /\ UNCHANGED gap
           \/ /\ TimePasses
              /\ gap' = [h \in Host |-> IF gap[h] > 0 THEN gap[h] - 1 ELSE 0]
<1>1. ASSUME UNCHANGED <<inFlight, flying, channel, robots, gap, window>>,
             SameDeferral
      PROVE  Quiet
  BY <1>1 DEF Quiet
<1>2. CASE UNCHANGED politeVars
  BY <1>1, <1>2 DEF politeVars, vars, frontierVars, loopVars, SameDeferral
<1>3. CASE /\ \/ Start \/ EndOfList \/ Conclude \/ Decide \/ EndDispatch
              \/ Drained \/ WakeUp \/ Seal \/ Save \/ Interrupt
           /\ UNCHANGED gap
  <2>1. UNCHANGED <<inFlight, flying, channel, robots, gap, window>>
    BY <1>3
    DEF Start, OpenFrontier, EndOfList, Conclude, Decide, EndDispatch, Drained,
        WakeUp, Seal, Save, Interrupt, frontierVars
  <2>2. SameDeferral
    BY <1>3
    DEF Start, EndOfList, Conclude, Decide, EndDispatch, Drained, WakeUp, Seal,
        Save, Interrupt, SameDeferral
  <2> QED
    BY <1>1, <2>1, <2>2
<1>4. CASE (TakeSeed \/ TakeSitemap \/ TakePageLink) /\ UNCHANGED gap
  <2>1. PICK admitted, depth :
            /\ admitted \in SUBSET Url
            /\ todo # << >> => depth \in 0 .. Depths
            /\ TakeLink(admitted, depth)
    BY <1>4, TakeLinkIsTaken DEF IInv
  <2>2. /\ depth \in 0 .. Depths
        /\ UNCHANGED <<robots, flying, channel, inFlight, pc, current>>
        /\ \/ UNCHANGED <<frontierVars, seenVars>>
           \/ \E u \in admitted : Push(u, depth)
    BY <2>1, TakeLinkShape DEF IInv
  <2>5. SameDeferral
    BY <2>2 DEF SameDeferral
  <2>3. CASE UNCHANGED <<frontierVars, seenVars>>
    BY <1>1, <1>4, <2>2, <2>3, <2>5 DEF frontierVars
  <2>4. ASSUME NEW u \in admitted, Push(u, depth)
        PROVE  Quiet
    <3>1. window' = IF window[HostOf[u]] = Unknown
                    THEN [window EXCEPT ![HostOf[u]] = 0] ELSE window
      <4>1. u \in Url
        BY <2>1, <2>4
      <4> QED
        BY <2>2, <2>4, <4>1, PushShape DEF IInv
    <3>2. window \in [Host -> Nat \cup {Unknown}]
      BY DEF IInv, TypeOK, FrontierTypeOK
    <3> QED
      BY <1>4, <2>2, <2>5, <3>1, <3>2 DEF Quiet
  <2> QED
    BY <2>2, <2>3, <2>4
<1>5. ASSUME NEW v \in flying, Finish(v)
      PROVE  UNCHANGED <<inFlight, window, robots, pc, current>>
  BY <1>5 DEF Finish, frontierVars
<1>6. ASSUME NEW v \in flying, FetchRobots(v)
      PROVE  UNCHANGED <<inFlight, window, robots, channel, pc, current>>
  BY <1>6 DEF FetchRobots, frontierVars
<1>7. CASE /\ Dispatch \/ \E v \in flying : FetchRobots(v)
           /\ gap' = [h \in Host |-> IF Asks(h) THEN DefaultDelay ELSE gap[h]]
  BY <1>6, <1>7 DEF GapRestarts
<1> QED
  BY <1>2, <1>3, <1>4, <1>5, <1>7 DEF PoliteNext

-----------------------------------------------------------------------------
(* The invariant *)

\* An answer is booked for the only visit of its host.
LEMMA ReceiveShape ==
    ASSUME PerHost <= 1, IInv, Receive
    PROVE  LET o == Head(channel)
               h == HostOf[o.job.url]
           IN  /\ h \in Host /\ o \in Range(channel)
               /\ inFlight[h] = 1
               /\ inFlight' = [inFlight EXCEPT ![h] = 0]
               /\ window' = window
               /\ pc # "defer"
               /\ \A g : Deferring(g)' <=> g = h
               /\ robots' = IF o.learned = "none" THEN robots
                            ELSE [robots EXCEPT ![h] = [rules |-> o.learned,
                                                        left  |-> TtlOf(o.learned)]]
               /\ \A j \in Outstanding' : HostOf[j.url] \in Host \ {h}
               /\ flying' = flying
               /\ Range(channel') \subseteq Range(channel)
<1> DEFINE o == Head(channel)
           h == HostOf[o.job.url]
<1>1. /\ o \in Outcome
      /\ o.job \in Outstanding
      /\ flying' = flying
      /\ channel' = Tail(channel)
      /\ Outstanding' = Outstanding \ {o.job}
  BY ReceiveMoves DEF IInv
<1>2. /\ h \in Host /\ inFlight[h] = 1
      /\ \A j \in Outstanding : HostOf[j.url] \in Host
      /\ \A j \in Outstanding : HostOf[j.url] = h => j = o.job
  BY <1>1, OneAtATime
<1>3. /\ inFlight' = [inFlight EXCEPT ![h] = IF inFlight[h] > 0 THEN inFlight[h] - 1 ELSE 0]
      /\ window' = window
      /\ robots' = IF o.learned = "none" THEN robots
                   ELSE [robots EXCEPT ![h] = [rules |-> o.learned,
                                               left  |-> TtlOf(o.learned)]]
      /\ channel # << >>
      /\ pc \in {"absorb", "wait"} /\ pc' = "defer" /\ current' = o
  BY DEF Receive, Bookkeep, frontierVars
<1>4. pc # "defer" /\ \A g : Deferring(g)' <=> g = h
  BY <1>3 DEF Deferring
<1>6. Range(channel) = {o} \cup Range(Tail(channel))
  BY <1>3, RangeOfTail DEF IInv, TypeOK, LoopTypeOK
<1>7. inFlight' = [inFlight EXCEPT ![h] = 0]
  BY <1>2, <1>3
<1> QED
  BY <1>1, <1>2, <1>3, <1>4, <1>6, <1>7

\* The window of the host whose visit was booked opens.
LEMMA DeferShape ==
    ASSUME IInv, Defer
    PROVE  LET h == HostOf[current.job.url]
               delay == PolitenessDelay(DefaultDelay, current.delay)
           IN  /\ h \in Host
               /\ window' = [window EXCEPT ![h] = delay]
               /\ delay \in Nat /\ DefaultDelay <= delay
               /\ UNCHANGED <<inFlight, robots, flying, channel>>
               /\ \A g : Deferring(g) <=> g = h
               /\ \A g : ~Deferring(g)'
<1> DEFINE h == HostOf[current.job.url]
           delay == PolitenessDelay(DefaultDelay, current.delay)
<1>1. current \in Outcome /\ h \in Host /\ delay \in Nat
  BY DeferType DEF IInv
<1>2. current.delay \in Nat /\ DefaultDelay \in Nat
  BY <1>1, CrawlAssumption DEF Outcome
<1>3. DefaultDelay <= delay
  BY <1>2 DEF PolitenessDelay
<1>4. /\ window' = [window EXCEPT ![h] = delay]
      /\ UNCHANGED <<inFlight, robots, flying, channel>>
      /\ pc = "defer" /\ pc' = "sitemaps"
  BY DEF Defer, DeferHost
<1>5. (\A g : Deferring(g) <=> g = h) /\ (\A g : ~Deferring(g)')
  BY <1>4 DEF Deferring
<1> QED
  BY <1>1, <1>3, <1>4, <1>5

\* A host that is asked has a visit, which may have begun in this step.
LEMMA AskedIsVisited ==
    ASSUME PerHost <= 1, IInv, NEW h \in Host, Asks(h)
    PROVE  inFlight'[h] > inFlight[h] \/ inFlight[h] = 1
<1>1. \A v \in flying : v.job \in Outstanding
  BY DEF Outstanding
<1> QED
  BY <1>1, OneAtATime DEF Asks

\* Answers, visits and time leave no window under a visit, and no rules under
\* one that has to learn them.
LEMMA PoliteInvStep ==
    ASSUME PerHost <= 1, IInv, IInv', WindowIsOver, RulesAreMissing,
           [PoliteNext]_politeVars
    PROVE  WindowIsOver' /\ RulesAreMissing'
<1>1. /\ window \in [Host -> Nat \cup {Unknown}]
      /\ inFlight \in [Host -> Nat]
      /\ robots \in [Host -> Cached \cup {Absent}]
      /\ flying \subseteq Visit /\ channel \in Seq(Outcome)
  BY DEF IInv, TypeOK, FrontierTypeOK, LoopTypeOK
<1>2. CASE Quiet
  <2>1. WindowIsOver'
    BY <1>1, <1>2, DeferralIsSame DEF Quiet, WindowIsOver
  <2>2. RulesAreMissing'
    BY <1>2 DEF Quiet, RulesAreMissing
  <2> QED
    BY <2>1, <2>2
<1>3. ASSUME NEW v \in flying, Finish(v),
             UNCHANGED <<inFlight, window, robots, pc, current>>
      PROVE  WindowIsOver' /\ RulesAreMissing'
  <2>1. PICK works \in BOOLEAN : channel' = Append(channel, Answer(v, works))
    BY <1>3 DEF Finish
  <2> DEFINE o == Answer(v, works)
  <2>2. o.job = v.job /\ o.learned = v.learned
    BY <1>1, AnswerType
  <2>3. o \in Outcome
    BY <1>1, AnswerType
  <2> HIDE DEF o
  <2>4. Range(channel') = Range(channel) \cup {o}
    BY <1>1, <2>1, <2>3, RangeOfAppend DEF o
  <2>5. flying' \subseteq flying
    BY <1>3 DEF Finish
  <2>6. WindowIsOver'
    BY <1>3 DEF WindowIsOver, Deferring
  <2> QED
    BY <1>3, <2>2, <2>4, <2>5, <2>6 DEF RulesAreMissing
<1>8. ASSUME NEW v \in flying, FetchRobots(v),
             UNCHANGED <<inFlight, window, robots, channel, pc, current>>
      PROVE  WindowIsOver' /\ RulesAreMissing'
  <2>1. PICK w \in Visit :
            /\ w.job = v.job /\ v.rules = "none" /\ w.rules \in Rules
            /\ flying' = (flying \ {v}) \cup {w}
    BY <1>8, FetchRobotsMoves DEF IInv
  <2>2. WindowIsOver'
    BY <1>8 DEF WindowIsOver, Deferring
  <2> QED
    BY <1>8, <2>1, <2>2 DEF RulesAreMissing
<1>9. CASE Defer
  <2> DEFINE h == HostOf[current.job.url]
             delay == PolitenessDelay(DefaultDelay, current.delay)
  <2>1. /\ h \in Host
        /\ window' = [window EXCEPT ![h] = delay]
        /\ UNCHANGED <<inFlight, robots, flying, channel>>
        /\ \A g : Deferring(g) <=> g = h
        /\ \A g : ~Deferring(g)'
    BY <1>9, DeferShape
  <2> HIDE DEF h, delay
  <2>2. inFlight[h] = 0
    BY <2>1 DEF WindowIsOver
  <2>3. WindowIsOver'
    BY <1>1, <2>1, <2>2 DEF WindowIsOver
  <2> QED
    BY <2>1, <2>3 DEF RulesAreMissing
<1>4. CASE Receive
  <2> DEFINE o == Head(channel)
             h == HostOf[o.job.url]
  <2>1. /\ h \in Host
        /\ inFlight[h] = 1
        /\ inFlight' = [inFlight EXCEPT ![h] = 0]
        /\ window' = window
        /\ \A g : Deferring(g)' <=> g = h
        /\ robots' = IF o.learned = "none" THEN robots
                     ELSE [robots EXCEPT ![h] = [rules |-> o.learned,
                                                 left  |-> TtlOf(o.learned)]]
        /\ \A j \in Outstanding' : HostOf[j.url] \in Host \ {h}
        /\ flying' = flying
        /\ Range(channel') \subseteq Range(channel)
    BY <1>4, ReceiveShape
  <2> HIDE DEF h, o
  <2>2. WindowIsOver'
    BY <1>1, <2>1 DEF WindowIsOver
  <2>3. \A g \in Host \ {h} : robots'[g] = robots[g]
    BY <1>1, <2>1
  <2>4. /\ \A v \in flying' : v.job \in Outstanding'
        /\ \A a \in Range(channel') : a.job \in Outstanding'
    BY DEF Outstanding, ChannelJobs
  <2>5. RulesAreMissing'
    BY <2>1, <2>3, <2>4 DEF RulesAreMissing
  <2> QED
    BY <2>2, <2>5
<1>5. CASE Dispatch
  <2>1. PICK e \in queued :
            LET h == HostOf[e.url]
            IN  /\ h \in Host /\ h \notin Saturated /\ window[h] <= 0
                /\ window' = window
                /\ flying' = flying \cup {[job |-> e, rules |-> robots[h].rules,
                                            learned |-> "none"]}
                /\ inFlight' = [inFlight EXCEPT ![h] = @ + 1]
                /\ UNCHANGED <<robots, channel, pc, current>>
    BY <1>5, DispatchMoves DEF IInv
  <2> DEFINE h == HostOf[e.url]
             v == [job |-> e, rules |-> robots[h].rules, learned |-> "none"]
  <2>2. WindowIsOver'
    <3>1. \A g : ~Deferring(g)'
      BY <1>5, <2>1 DEF Dispatch, Deferring
    <3> QED
      BY <1>1, <2>1, <3>1 DEF WindowIsOver
  <2>3. v.learned = "none" /\ (v.rules = "none" => robots[HostOf[v.job.url]] = Absent)
    BY <1>1, <2>1 DEF Cached, Rules
  <2> HIDE DEF v
  <2>4. RulesAreMissing'
    BY <2>1, <2>3 DEF RulesAreMissing, v
  <2> QED
    BY <2>2, <2>4
<1>6. CASE Kill \/ IoError
  <2>1. flying' = {} /\ channel' = << >> /\ inFlight' = NoVisits
    BY <1>6 DEF Kill, IoError, Gone
  <2>2. Range(channel') = {}
    BY <2>1 DEF Range
  <2>3. \A g : ~Deferring(g)'
    BY <1>6 DEF Kill, IoError, Gone, Deferring
  <2> QED
    BY <2>1, <2>2, <2>3 DEF WindowIsOver, RulesAreMissing, NoVisits
<1>7. CASE TimePasses
  <2>1. /\ UNCHANGED <<inFlight, flying, channel, pc, current>>
        /\ \A h \in Host : window'[h] = IF window[h] > 0 THEN window[h] - 1
                                                         ELSE window[h]
        /\ \A h \in Host : robots'[h] = Age(robots[h])
    BY <1>7 DEF TimePasses, WindowsPass
  <2>2. WindowIsOver'
    BY <1>1, <2>1 DEF WindowIsOver, Unknown, Deferring
  <2>3. Age(Absent) = Absent
    BY DEF Age
  <2>4. /\ \A v \in flying : HostOf[v.job.url] \in Host
        /\ \A o \in Range(channel) : HostOf[o.job.url] \in Host
    <3>1. /\ \A v \in flying : v.job \in Outstanding
          /\ \A o \in Range(channel) : o.job \in Outstanding
      BY DEF Outstanding, ChannelJobs
    <3> QED
      BY <3>1, OneAtATime
  <2>5. RulesAreMissing'
    BY <2>1, <2>3, <2>4 DEF RulesAreMissing
  <2> QED
    BY <2>2, <2>5
<1> QED
  BY <1>2, <1>3, <1>4, <1>5, <1>6, <1>7, <1>8, <1>9, QuietStep

\* What is left of the default delay stays covered, as long as no kill takes the
\* outstanding visits away before their windows are opened.
LEMMA GapStep ==
    ASSUME PerHost <= 1, MaxKills = 0, IInv, IInv', GapIsCovered,
           [PoliteNext]_politeVars
    PROVE  GapIsCovered'
<1>1. /\ window \in [Host -> Nat \cup {Unknown}] /\ Unknown = -1
      /\ inFlight \in [Host -> Nat]
      /\ DefaultDelay \in Nat
  BY CrawlAssumption DEF IInv, TypeOK, FrontierTypeOK, LoopTypeOK, Unknown
<1>2. /\ gap \in [Host -> Nat]
      /\ \A h \in Host : gap[h] <= DefaultDelay
      /\ \A h \in Host : inFlight[h] = 0 /\ ~Deferring(h)
                            => gap[h] = 0 \/ gap[h] <= window[h]
  BY DEF GapIsCovered
<1>3. CASE Quiet
  <2>1. UNCHANGED <<inFlight, gap>>
    BY <1>3 DEF Quiet
  <2>2. ASSUME NEW h \in Host, inFlight[h] = 0, ~Deferring(h)'
        PROVE  gap[h] = 0 \/ gap[h] <= window'[h]
    <3>1. gap[h] \in Nat /\ (gap[h] = 0 \/ gap[h] <= window[h])
      BY <1>2, <1>3, <2>2, DeferralIsSame DEF Quiet
    <3>2. window'[h] = window[h] \/ window[h] = -1
      BY <1>1, <1>3 DEF Quiet
    <3> QED
      BY <3>1, <3>2
  <2> QED
    BY <1>2, <2>1, <2>2 DEF GapIsCovered
<1>4. CASE UNCHANGED <<inFlight, window, gap, pc, current>>
  BY <1>4 DEF GapIsCovered, Deferring
<1>5. CASE Receive /\ UNCHANGED gap
  <2> DEFINE h == HostOf[Head(channel).job.url]
  <2>1. /\ h \in Host
        /\ inFlight' = [inFlight EXCEPT ![h] = 0]
        /\ window' = window
        /\ pc # "defer"
        /\ \A g : Deferring(g)' <=> g = h
    BY <1>5, ReceiveShape
  <2> HIDE DEF h
  <2>2. ASSUME NEW g \in Host, inFlight'[g] = 0, ~Deferring(g)'
        PROVE  gap[g] = 0 \/ gap[g] <= window'[g]
    <3>1. g # h /\ ~Deferring(g)
      BY <2>1, <2>2 DEF Deferring
    <3>2. inFlight[g] = 0
      BY <1>1, <2>1, <2>2, <3>1
    <3> QED
      BY <1>2, <2>1, <3>1, <3>2
  <2> QED
    BY <1>2, <1>5, <2>2 DEF GapIsCovered
<1>9. CASE Defer /\ UNCHANGED gap
  <2> DEFINE h == HostOf[current.job.url]
             delay == PolitenessDelay(DefaultDelay, current.delay)
  <2>1. /\ h \in Host
        /\ window' = [window EXCEPT ![h] = delay]
        /\ delay \in Nat /\ DefaultDelay <= delay
        /\ inFlight' = inFlight
        /\ \A g : Deferring(g) <=> g = h
    BY <1>9, DeferShape
  <2> HIDE DEF h, delay
  <2>2. ASSUME NEW g \in Host, inFlight[g] = 0
        PROVE  gap[g] = 0 \/ gap[g] <= window'[g]
    <3>1. CASE g = h
      BY <1>1, <1>2, <2>1, <3>1
    <3>2. CASE g # h
      <4>1. window'[g] = window[g] /\ ~Deferring(g)
        BY <1>1, <2>1, <3>2
      <4> QED
        BY <1>2, <2>2, <4>1
    <3> QED
      BY <3>1, <3>2
  <2> QED
    BY <1>2, <1>9, <2>1, <2>2 DEF GapIsCovered
<1>10. CASE /\ UNCHANGED <<inFlight, window, pc, current>>
            /\ GapRestarts
  <2>1. gap' \in [Host -> Nat] /\ \A g \in Host : gap'[g] <= DefaultDelay
    BY <1>1, <1>2, <1>10 DEF GapRestarts
  <2>2. ASSUME NEW g \in Host, inFlight[g] = 0, ~Deferring(g)
        PROVE  gap'[g] = 0 \/ gap'[g] <= window[g]
    <3>1. ~Asks(g)
      BY <1>1, <1>10, <2>2, AskedIsVisited
    <3>2. gap'[g] = gap[g]
      BY <1>10, <3>1 DEF GapRestarts
    <3> QED
      BY <1>2, <2>2, <3>2
  <2> QED
    BY <1>10, <2>1, <2>2 DEF GapIsCovered, Deferring
<1>6. CASE Dispatch /\ GapRestarts
  <2>1. PICK e \in queued :
            LET h == HostOf[e.url]
            IN  /\ h \in Host
                /\ window' = window
                /\ inFlight' = [inFlight EXCEPT ![h] = @ + 1]
    BY <1>6, DispatchMoves DEF IInv
  <2> DEFINE h == HostOf[e.url]
  <2>2. gap' \in [Host -> Nat] /\ \A g \in Host : gap'[g] <= DefaultDelay
    BY <1>1, <1>2, <1>6 DEF GapRestarts
  <2>4. \A g : ~Deferring(g)
    BY <1>6 DEF Dispatch, Deferring
  <2>3. ASSUME NEW g \in Host, inFlight'[g] = 0
        PROVE  gap'[g] = 0 \/ gap'[g] <= window'[g]
    <3>1. g # h /\ inFlight'[g] = inFlight[g]
      BY <1>1, <2>1, <2>3
    <3>2. ~Asks(g)
      BY <1>1, <2>3, <3>1, AskedIsVisited
    <3>3. gap'[g] = gap[g]
      BY <1>6, <3>2 DEF GapRestarts
    <3> QED
      BY <1>2, <2>1, <2>3, <2>4, <3>1, <3>3
  <2> QED
    BY <2>2, <2>3 DEF GapIsCovered
<1>7. CASE Kill \/ IoError
  <2>1. kills < MaxKills /\ kills \in Nat
    BY <1>7 DEF Kill, IoError, Gone, IInv, TypeOK, LoopTypeOK
  <2> QED
    BY <2>1
<1>8. CASE /\ TimePasses
           /\ gap' = [h \in Host |-> IF gap[h] > 0 THEN gap[h] - 1 ELSE 0]
  <2>1. /\ UNCHANGED <<inFlight, pc, current>>
        /\ \A h \in Host : window'[h] = IF window[h] > 0 THEN window[h] - 1
                                                         ELSE window[h]
    BY <1>8 DEF TimePasses, WindowsPass
  <2>2. gap' \in [Host -> Nat] /\ \A h \in Host : gap'[h] <= DefaultDelay
    BY <1>1, <1>2, <1>8
  <2>3. ASSUME NEW h \in Host, inFlight[h] = 0, ~Deferring(h)
        PROVE  gap'[h] = 0 \/ gap'[h] <= window'[h]
    <3>1. gap[h] \in Nat /\ (gap[h] = 0 \/ gap[h] <= window[h])
      BY <1>2, <2>3
    <3>2. window[h] \in Int
      BY <1>1
    <3>3. gap'[h] = IF gap[h] > 0 THEN gap[h] - 1 ELSE 0
      BY <1>8
    <3> QED
      BY <2>1, <3>1, <3>2, <3>3
  <2> QED
    BY <2>1, <2>2, <2>3 DEF GapIsCovered, Deferring
<1> QED
  BY <1>3, <1>4, <1>5, <1>6, <1>7, <1>8, <1>9, <1>10, QuietStep

-----------------------------------------------------------------------------
(* The theorems *)

\* Before the first start no host has a window, a visit or rules.
LEMMA PoliteInitInv ==
    ASSUME PoliteInit
    PROVE  WindowIsOver /\ RulesAreMissing /\ GapIsCovered
<1>1. /\ inFlight = [h \in Host |-> 0] /\ flying = {} /\ channel = << >>
      /\ gap = [h \in Host |-> 0] /\ pc = "down"
  BY DEF PoliteInit, Init, NoVisits
<1>2. Range(channel) = {}
  BY <1>1 DEF Range
<1>3. DefaultDelay \in Nat
  BY CrawlAssumption
<1> QED
  BY <1>1, <1>2, <1>3 DEF WindowIsOver, RulesAreMissing, GapIsCovered, Deferring

\* The two hold in every reachable state.
LEMMA PoliteSpecInv ==
    ASSUME PerHost <= 1
    PROVE  PoliteSpec => [](IInv /\ WindowIsOver /\ RulesAreMissing)
<1>1. PoliteInit => IInv /\ WindowIsOver /\ RulesAreMissing
  BY PoliteInitInv, InitIInv DEF PoliteInit
<1>2. IInv /\ [PoliteNext]_politeVars => IInv'
  BY PoliteStepIsStep, NextIInv
<1>3. IInv /\ IInv' /\ WindowIsOver /\ RulesAreMissing /\ [PoliteNext]_politeVars
         => WindowIsOver' /\ RulesAreMissing'
  BY PoliteInvStep
<1> QED
  BY <1>1, <1>2, <1>3, PTL DEF PoliteSpec

\* One visit of a host at a time, no answer shortens the politeness window of its host,
\* though defer_host overwrites it: for any delays, and whatever is killed.
THEOREM SpecWindowIsNeverCut ==
    ASSUME PerHost <= 1
    PROVE  PoliteSpec => WindowIsNeverCut
<1> DEFINE Cut == \A h \in Host : window'[h] < window[h] => TimePasses
<1>1. ASSUME IInv, WindowIsOver, [PoliteNext]_politeVars
      PROVE  Cut
  <2>1. window \in [Host -> Nat \cup {Unknown}] /\ Unknown = -1
    BY <1>1 DEF IInv, TypeOK, FrontierTypeOK, Unknown
  <2> SUFFICES ASSUME NEW g \in Host, window'[g] < window[g]
               PROVE  TimePasses
    OBVIOUS
  <2>2. window[g] \in Int
    BY <2>1
  <2>3. CASE Quiet
    BY <2>1, <2>2, <2>3 DEF Quiet
  <2>4. CASE UNCHANGED window
    BY <2>2, <2>4
  <2>8. Receive => UNCHANGED window
    BY DEF Receive, frontierVars
  <2>5. CASE Defer
    <3> DEFINE h == HostOf[current.job.url]
               delay == PolitenessDelay(DefaultDelay, current.delay)
    <3>1. /\ h \in Host /\ Deferring(h) /\ delay \in Nat
          /\ window' = [window EXCEPT ![h] = delay]
      BY <1>1, <2>5, DeferShape
    <3> HIDE DEF h, delay
    <3>2. window[h] <= 0
      BY <1>1, <3>1 DEF WindowIsOver
    <3> QED
      BY <2>1, <2>2, <3>1, <3>2
  <2>6. CASE Dispatch
    <3>1. window' = window
      BY <1>1, <2>6, DispatchMoves DEF IInv
    <3> QED
      BY <2>2, <3>1
  <2>7. CASE Kill \/ IoError
    <3>1. window' = window
      BY <2>7 DEF Kill, IoError, Gone, frontierVars
    <3> QED
      BY <2>2, <3>1
  <2> QED
    BY <1>1, <2>3, <2>4, <2>5, <2>6, <2>7, <2>8, QuietStep
<1>2. IInv /\ WindowIsOver /\ [PoliteNext]_politeVars => [Cut]_politeVars
  BY <1>1
<1> QED
  BY <1>2, PoliteSpecInv, PTL DEF PoliteSpec, WindowIsNeverCut

\* One visit of a host at a time, an outage never replaces the rules that a host gave:
\* for any lifetimes of the cache, and whatever is killed.
THEOREM SpecFileOutlivesOutage ==
    ASSUME PerHost <= 1
    PROVE  PoliteSpec => FileOutlivesOutage
<1> DEFINE FileStays == \A h \in Host : robots[h].rules = "file"
                                     => robots'[h].rules \in {"file", "none"}
<1>1. ASSUME IInv, RulesAreMissing, [PoliteNext]_politeVars
      PROVE  FileStays
  <2>1. robots \in [Host -> Cached \cup {Absent}]
    BY <1>1 DEF IInv, LoopTypeOK, TypeOK
  <2> SUFFICES ASSUME NEW g \in Host, robots[g].rules = "file"
               PROVE  robots'[g].rules \in {"file", "none"}
    OBVIOUS
  <2>2. CASE UNCHANGED robots
    BY <2>2
  <2>3. CASE Receive
    <3> DEFINE o == Head(channel)
               h == HostOf[o.job.url]
    <3>1. /\ o \in Range(channel)
          /\ robots' = IF o.learned = "none" THEN robots
                       ELSE [robots EXCEPT ![h] = [rules |-> o.learned,
                                                   left  |-> TtlOf(o.learned)]]
      BY <1>1, <2>3, ReceiveShape
    <3>2. o.learned # "none" => robots[h] = Absent
      BY <1>1, <3>1 DEF RulesAreMissing
    <3>3. Absent.rules = "none"
      BY DEF Absent
    <3>4. o.learned # "none" => g # h
      BY <3>2, <3>3
    <3> HIDE DEF h, o
    <3>5. robots'[g] = robots[g]
      BY <2>1, <3>1, <3>4
    <3> QED
      BY <3>5
  <2>4. CASE TimePasses
    <3>1. robots'[g] = Age(robots[g])
      BY <2>4 DEF TimePasses
    <3>2. robots[g] \in Cached
      BY <2>1 DEF Absent
    <3>3. Age(robots[g]).rules \in {"file", "none"}
      BY <3>2 DEF Age, Cached, Absent
    <3> QED
      BY <3>1, <3>3
  <2>5. Dispatch => UNCHANGED robots
    BY DEF Dispatch
  <2>6. Kill \/ IoError \/ Defer => UNCHANGED robots
    BY DEF Kill, IoError, Gone, Defer
  <2> QED
    BY <1>1, <2>2, <2>3, <2>4, <2>5, <2>6, QuietStep DEF Quiet
<1>2. IInv /\ RulesAreMissing /\ [PoliteNext]_politeVars => [FileStays]_politeVars
  BY <1>1
<1> QED
  BY <1>2, PoliteSpecInv, PTL DEF PoliteSpec, FileOutlivesOutage

\* One visit at a time and no kill, the default delay passes between the last
\* request of a visit and the start of the next one of its host, however long
\* the visits take.
THEOREM SpecGapIsKept ==
    ASSUME PerHost <= 1, MaxKills = 0
    PROVE  PoliteSpec => GapIsKept
<1> DEFINE Waits == \A h \in Host : inFlight'[h] > inFlight[h] => gap[h] = 0
<1>1. ASSUME IInv, GapIsCovered, [PoliteNext]_politeVars
      PROVE  Waits
  <2>1. inFlight \in [Host -> Nat] /\ window \in [Host -> Nat \cup {Unknown}]
        /\ Unknown = -1 /\ PerHost \in Nat
    BY <1>1, CrawlAssumption
    DEF IInv, TypeOK, FrontierTypeOK, LoopTypeOK, Unknown
  <2> SUFFICES ASSUME NEW g \in Host, inFlight'[g] > inFlight[g]
               PROVE  gap[g] = 0
    OBVIOUS
  <2>2. inFlight[g] \in Nat
    BY <2>1
  <2>3. CASE UNCHANGED inFlight
    BY <2>2, <2>3
  <2>4. CASE Receive
    <3> DEFINE h == HostOf[Head(channel).job.url]
    <3>1. h \in Host /\ inFlight' = [inFlight EXCEPT ![h] = 0]
      BY <1>1, <2>4, ReceiveShape
    <3> HIDE DEF h
    <3> QED
      BY <2>1, <2>2, <3>1
  <2>5. CASE Dispatch
    <3>1. PICK e \in queued :
              LET h == HostOf[e.url]
              IN  /\ h \in Host /\ h \notin Saturated /\ window[h] <= 0
                  /\ inFlight' = [inFlight EXCEPT ![h] = @ + 1]
      BY <1>1, <2>5, DispatchMoves DEF IInv
    <3>2. g = HostOf[e.url]
      BY <2>1, <2>2, <3>1
    <3>3. inFlight[g] = 0
      <4>1. ~(inFlight[g] > 0 /\ inFlight[g] >= PerHost)
        BY <3>1, <3>2 DEF Saturated
      <4> QED
        BY <2>1, <2>2, <4>1
    <3>4. gap[g] \in Nat /\ (gap[g] = 0 \/ gap[g] <= window[g])
      BY <1>1, <2>5, <3>3 DEF GapIsCovered, Deferring, Dispatch
    <3> QED
      BY <2>1, <3>1, <3>2, <3>4
  <2>6. CASE Kill \/ IoError
    <3>1. inFlight' = [h \in Host |-> 0]
      BY <2>6 DEF Kill, IoError, Gone, NoVisits
    <3> QED
      BY <2>2, <3>1
  <2>7. TimePasses \/ Defer => inFlight' = inFlight
    BY DEF TimePasses, Defer
  <2> QED
    BY <1>1, <2>3, <2>4, <2>5, <2>6, <2>7, QuietStep DEF Quiet
<1>2. IInv /\ GapIsCovered /\ [PoliteNext]_politeVars => [Waits]_politeVars
  BY <1>1
<1>3. PoliteInit => IInv /\ GapIsCovered
  BY PoliteInitInv, InitIInv DEF PoliteInit
<1>4. IInv /\ [PoliteNext]_politeVars => IInv'
  BY PoliteStepIsStep, NextIInv
<1>5. IInv /\ IInv' /\ GapIsCovered /\ [PoliteNext]_politeVars => GapIsCovered'
  BY GapStep
<1> QED
  BY <1>2, <1>3, <1>4, <1>5, PTL DEF PoliteSpec, GapIsKept
=============================================================================
