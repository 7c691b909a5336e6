---------------------------- MODULE FetcherProofs ----------------------------
(***************************************************************************)
(* A fetch is bounded and asks again only in turn, for any answers, limits *)
(* and widths of the integers the backoff is computed in.                  *)
(***************************************************************************)
EXTENDS Fetcher, LoopTheorems

-----------------------------------------------------------------------------
(* Powers of two *)

\* The powers up to the n-th, as far as they have been worked out.
Table(n, t) ==
    /\ t \in [0 .. n -> Nat] /\ t[0] = 1
    /\ \A i \in 1 .. n : t[i] = 2 * t[i - 1]

\* There is a table up to every n.
LEMMA TableExists == \A n \in Nat : \E t : Table(n, t)
<1> DEFINE S == {n \in Nat : \E t : Table(n, t)}
<1>1. 0 \in S
  <2>1. Table(0, [i \in 0 .. 0 |-> 1])
    BY DEF Table
  <2> QED
    BY <2>1
<1>2. ASSUME NEW n \in Nat, n \in S PROVE n + 1 \in S
  <2>1. PICK t : Table(n, t)
    BY <1>2
  <2> DEFINE longer == [i \in 0 .. n + 1 |-> IF i = n + 1 THEN 2 * t[n] ELSE t[i]]
  <2>2. Table(n + 1, longer)
    <3>1. t \in [0 .. n -> Nat] /\ t[0] = 1 /\ \A i \in 1 .. n : t[i] = 2 * t[i - 1]
      BY <2>1 DEF Table
    <3>2. longer \in [0 .. n + 1 -> Nat] /\ longer[0] = 1
      BY <3>1
    <3>3. longer[n + 1] = 2 * t[n] /\ \A i \in 0 .. n : longer[i] = t[i]
      OBVIOUS
    <3> HIDE DEF longer
    <3>4. ASSUME NEW i \in 1 .. n + 1 PROVE longer[i] = 2 * longer[i - 1]
      <4>1. i - 1 \in 0 .. n /\ (i = n + 1 => i - 1 = n) /\ (i # n + 1 => i \in 1 .. n)
        OBVIOUS
      <4> QED
        BY <3>1, <3>3, <4>1
    <3> QED
      BY <3>2, <3>4 DEF Table
  <2> QED
    BY <2>2
<1> HIDE DEF S
<1>3. Nat \subseteq S
  BY <1>1, <1>2, NatBySteps
<1> QED
  BY <1>3 DEF S

\* Two tables agree as far as both go.
LEMMA TablesAgree ==
    ASSUME NEW m \in Nat, NEW n \in Nat, NEW t, NEW u, Table(m, t), Table(n, u)
    PROVE  \A i \in Nat : i <= m /\ i <= n => t[i] = u[i]
<1> DEFINE S == {i \in Nat : i <= m /\ i <= n => t[i] = u[i]}
<1>1. 0 \in S
  BY DEF Table
<1>2. ASSUME NEW i \in Nat, i \in S PROVE i + 1 \in S
  <2> SUFFICES ASSUME i + 1 <= m, i + 1 <= n PROVE t[i + 1] = u[i + 1]
    OBVIOUS
  <2>1. t[i] = u[i]
    BY <1>2
  <2>2. i + 1 \in 1 .. m /\ i + 1 \in 1 .. n /\ (i + 1) - 1 = i
    OBVIOUS
  <2>3. t[i + 1] = 2 * t[(i + 1) - 1] /\ u[i + 1] = 2 * u[(i + 1) - 1]
    BY <2>2 DEF Table
  <2> QED
    BY <2>1, <2>2, <2>3
<1> HIDE DEF S
<1>3. Nat \subseteq S
  BY <1>1, <1>2, NatBySteps
<1> QED
  BY <1>3 DEF S

\* The definition of the powers defines them.
LEMMA PowerOf2IsDefined ==
    /\ PowerOf2 \in [Nat -> Nat] /\ PowerOf2[0] = 1
    /\ \A n \in Nat : PowerOf2[n + 1] = 2 * PowerOf2[n]
<1> DEFINE table(n) == CHOOSE t : Table(n, t)
           p == [n \in Nat |-> table(n)[n]]
<1>1. \A n \in Nat : Table(n, table(n))
  BY TableExists
<1> HIDE DEF table
<1>2. \A n \in Nat : p[n] \in Nat
  BY <1>1 DEF Table
<1>3. p[0] = 1
  BY <1>1 DEF Table
<1>4. ASSUME NEW n \in Nat PROVE p[n + 1] = 2 * p[n]
  <2>1. Table(n, table(n)) /\ Table(n + 1, table(n + 1))
    BY <1>1
  <2>2. table(n + 1)[n] = table(n)[n]
    BY <2>1, TablesAgree
  <2>3. table(n + 1)[n + 1] = 2 * table(n + 1)[(n + 1) - 1]
    BY <2>1 DEF Table
  <2> QED
    BY <2>2, <2>3
<1>5. p = [n \in Nat |-> IF n = 0 THEN 1 ELSE 2 * p[n - 1]]
  <2>1. ASSUME NEW n \in Nat PROVE p[n] = IF n = 0 THEN 1 ELSE 2 * p[n - 1]
    <3>1. CASE n = 0
      BY <1>3, <3>1
    <3>2. CASE n # 0
      <4>1. n - 1 \in Nat /\ (n - 1) + 1 = n
        BY <3>2
      <4>2. p[(n - 1) + 1] = 2 * p[n - 1]
        BY <1>4, <4>1
      <4> QED
        BY <3>2, <4>1, <4>2
    <3> QED
      BY <3>1, <3>2
  <2> HIDE DEF p
  <2> SUFFICES p = [n \in Nat |-> p[n]]
    BY <2>1
  <2> QED
    BY DEF p
<1>6. \E f : f = [n \in Nat |-> IF n = 0 THEN 1 ELSE 2 * f[n - 1]]
  BY <1>5
<1>7. PowerOf2 = [n \in Nat |-> IF n = 0 THEN 1 ELSE 2 * PowerOf2[n - 1]]
  BY <1>6 DEF PowerOf2
<1> HIDE DEF p
<1>8. PowerOf2[0] = 1 /\ \A n \in Nat : PowerOf2[n + 1] = 2 * PowerOf2[n]
  BY <1>7
<1> DEFINE S == {n \in Nat : PowerOf2[n] \in Nat}
<1>9. 0 \in S /\ \A n \in Nat : n \in S => n + 1 \in S
  BY <1>8
<1> HIDE DEF S
<1>10. Nat \subseteq S
  BY <1>9, NatBySteps
<1> QED
  BY <1>7, <1>8, <1>10 DEF S

\* They grow.
LEMMA PowerOf2Grows ==
    ASSUME NEW m \in Nat, NEW n \in Nat, m <= n
    PROVE  PowerOf2[m] <= PowerOf2[n] /\ PowerOf2[m] >= 1 /\ PowerOf2[n] >= 1
<1> DEFINE S == {k \in Nat : PowerOf2[m + k] >= PowerOf2[m]}
           One == {k \in Nat : PowerOf2[k] >= 1}
<1>1. 0 \in S /\ 0 \in One
  BY PowerOf2IsDefined
<1>2. ASSUME NEW k \in Nat, k \in S PROVE k + 1 \in S
  <2>1. /\ PowerOf2[(m + k) + 1] = 2 * PowerOf2[m + k] /\ (m + k) + 1 = m + (k + 1)
        /\ PowerOf2[m] \in Nat /\ PowerOf2[m + k] \in Nat
    BY PowerOf2IsDefined
  <2> QED
    BY <1>2, <2>1
<1>3. ASSUME NEW k \in Nat, k \in One PROVE k + 1 \in One
  BY <1>3, PowerOf2IsDefined
<1> HIDE DEF S, One
<1>4. Nat \subseteq S /\ Nat \subseteq One
  BY <1>1, <1>2, <1>3, NatBySteps
<1>5. n - m \in Nat /\ m + (n - m) = n
  OBVIOUS
<1> QED
  BY <1>4, <1>5 DEF S, One

\* Each of them is a positive number.
LEMMA PowersArePositive == \A n \in Nat : PowerOf2[n] \in Nat /\ PowerOf2[n] >= 1
<1> SUFFICES ASSUME NEW n \in Nat PROVE PowerOf2[n] \in Nat /\ PowerOf2[n] >= 1
  OBVIOUS
<1>1. n <= n
  OBVIOUS
<1> QED
  BY <1>1, PowerOf2Grows, PowerOf2IsDefined

-----------------------------------------------------------------------------
(* The pause *)

\* No backoff is longer than the cap.
LEMMA BackoffIsCapped ==
    ASSUME NEW n \in Nat, NEW base \in Nat, NEW cap \in Nat
    PROVE  Backoff(n, base, cap) \in 0 .. cap
<1> DEFINE shift == Smaller(n, Width - 1)
           power == PowerOf2[shift]
           top == PowerOf2[Width] - 1
<1>1. shift \in Nat /\ Width \in Nat
  BY FetcherAssumption DEF Smaller
<1> HIDE DEF shift
<1>2. power \in Nat /\ top \in Nat
  BY <1>1, PowersArePositive
<1>3. Backoff(n, base, cap) = Smaller(Smaller(base * power, top), cap)
  BY DEF Backoff, shift
<1> HIDE DEF power, top
<1>4. base * power \in Nat
  BY <1>2
<1> QED
  BY <1>2, <1>3, <1>4 DEF Smaller

\* Below half the range, saturation and the limit of the shift change nothing.
LEMMA BackoffExact ==
    ASSUME NEW n \in Nat, NEW base \in Nat, NEW cap \in Nat,
           cap < PowerOf2[Width - 1]
    PROVE  Backoff(n, base, cap) = Smaller(base * PowerOf2[n], cap)
<1> DEFINE shift == Smaller(n, Width - 1)
           power == PowerOf2[shift]
           half == PowerOf2[Width - 1]
           top == PowerOf2[Width] - 1
           exact == PowerOf2[n]
<1>1. Width - 1 \in Nat /\ (Width - 1) + 1 = Width
  BY FetcherAssumption
<1>2. shift \in Nat /\ (n <= Width - 1 => shift = n)
      /\ (~(n <= Width - 1) => shift = Width - 1)
  BY <1>1 DEF Smaller
<1>3. half \in Nat /\ half >= 1 /\ top = 2 * half - 1 /\ exact \in Nat
  <2>1. PowerOf2[(Width - 1) + 1] = 2 * PowerOf2[Width - 1]
    BY <1>1, PowerOf2IsDefined
  <2>2. half \in Nat /\ half >= 1 /\ exact \in Nat
    BY <1>1, PowersArePositive
  <2> QED
    BY <1>1, <2>1, <2>2
<1>4. Backoff(n, base, cap) = Smaller(Smaller(base * power, top), cap)
  BY DEF Backoff
<1>5. CASE n <= Width - 1
  <2>1. power = exact
    BY <1>2, <1>5
  <2> HIDE DEF power, top, half, exact
  <2>2. cap <= top
    BY <1>3 DEF half
  <2>3. base * exact \in Nat /\ top \in Nat
    BY <1>3
  <2>4. Smaller(Smaller(base * exact, top), cap) = Smaller(base * exact, cap)
    BY <2>2, <2>3 DEF Smaller
  <2> QED
    BY <1>4, <2>1, <2>4 DEF exact
<1>6. CASE ~(n <= Width - 1)
  <2>1. power = half
    BY <1>2, <1>6
  <2>2. exact >= half
    BY <1>1, <1>6, PowerOf2Grows
  <2> HIDE DEF power, top, half, exact
  <2>3. base = 0 \/ (base * half >= half /\ base * exact >= exact)
    <3>1. ASSUME base # 0, NEW x \in Nat PROVE base * x >= x
      <4>1. base * x = (base - 1) * x + x /\ (base - 1) * x \in Nat
        BY <3>1
      <4> QED
        BY <4>1
    <3> QED
      BY <1>3, <3>1
  <2>4. cap < half
    BY DEF half
  <2>5. base * half \in Nat /\ base * exact \in Nat /\ top \in Nat /\ cap <= top
    BY <1>3, <2>4
  <2>6. CASE base = 0
    <3>1. base * half = 0 /\ base * exact = 0
      BY <1>3, <2>6
    <3> QED
      BY <1>4, <2>1, <2>5, <3>1 DEF Smaller, exact
  <2>7. CASE base # 0
    <3>1. base * half > cap /\ base * exact > cap
      BY <1>3, <2>2, <2>3, <2>4, <2>5, <2>7
    <3>2. Smaller(Smaller(base * half, top), cap) = cap /\ Smaller(base * exact, cap) = cap
      BY <2>5, <3>1 DEF Smaller
    <3> QED
      BY <1>4, <2>1, <3>2 DEF exact
  <2> QED
    BY <2>6, <2>7
<1> QED
  BY <1>5, <1>6

\* What is waited for is at most the cap and the jitter.
LEMMA PauseIsBounded ==
    ASSUME NEW n \in Nat, NEW after \in Nat, after <= BackoffCap,
           NEW jitter \in 0 .. MaxJitter
    PROVE  LET delay == Larger(after, Backoff(n, BackoffBase, BackoffCap) + jitter)
           IN  delay \in Nat /\ delay <= BackoffCap + MaxJitter /\ delay >= after
<1> DEFINE backoff == Backoff(n, BackoffBase, BackoffCap)
<1>1. /\ BackoffBase \in Nat /\ BackoffCap \in Nat /\ MaxJitter \in Nat
  BY FetcherAssumption
<1>2. backoff \in 0 .. BackoffCap
  BY <1>1, BackoffIsCapped
<1> HIDE DEF backoff
<1> QED
  BY <1>1, <1>2 DEF Larger, backoff

-----------------------------------------------------------------------------
(* The steps of a call *)

\* The invariant, each part with what it says at the place a call is at.
LEMMA FetchFacts ==
    ASSUME FetchIInv
    PROVE  /\ attempt \in Nat /\ contacts \in Nat /\ buffered \in Nat /\ pause \in Nat
           /\ slept \in Nat /\ asHtml \in BOOLEAN
           /\ answer \in Answers \cup {NoAnswer}
           /\ failure \in [retryable : BOOLEAN, after : Nat]
           /\ page \in [kind : {"none", "text", "raw"}, size : Nat]
           /\ MaxRetries \in Nat /\ BackoffCap \in Nat /\ MaxJitter \in Nat
           /\ MaxBody \in Nat /\ Second \in Nat
           /\ phase # "returned" => page.kind = "none" /\ page.size = 0
           /\ phase = "reading" => /\ answer \in Answers /\ answer \in Answer
                                   /\ answer.status \in 200 .. 299
                                   /\ buffered <= answer.body.size
           /\ buffered <= MaxBody
  BY FetcherAssumption DEF FetchIInv, FetchTypeOK, ReadsAnAnswer, BodyIsWhole

\* A call that begins has asked nothing, waited for nothing and returned nothing.
LEMMA InitFetchIInv == FetchInit => FetchIInv
<1> SUFFICES ASSUME FetchInit PROVE FetchIInv
  OBVIOUS
<1>1. /\ phase = "asking" /\ asHtml \in BOOLEAN
      /\ attempt = 0 /\ contacts = 0 /\ answer = NoAnswer /\ buffered = 0
      /\ failure = [retryable |-> FALSE, after |-> 0] /\ pause = 0 /\ slept = 0
      /\ page = [kind |-> "none", size |-> 0]
  BY DEF FetchInit, NoFailure, NoPage
<1>2. MaxRetries \in Nat /\ BackoffCap \in Nat /\ MaxJitter \in Nat /\ MaxBody \in Nat
  BY FetcherAssumption
<1>3. FetchTypeOK
  BY <1>1 DEF FetchTypeOK
<1>4. CallIsBounded
  BY <1>1, <1>2 DEF CallIsBounded
<1>5. FailureIsOfAnswer /\ WaitsInTurn
  BY <1>1 DEF FailureIsOfAnswer, WaitsInTurn
<1>6. ReadsAnAnswer /\ BodyIsWhole
  BY <1>1, <1>2 DEF ReadsAnAnswer, BodyIsWhole
<1> QED
  BY <1>3, <1>4, <1>5, <1>6 DEF FetchIInv

\* A step that judges an answer, or the lack of one: what is needed of it.
LEMMA FailStep ==
    ASSUME FetchIInv, NEW retryable \in BOOLEAN, NEW after \in Nat,
           Fail(retryable, after), phase \in {"asking", "reading"},
           UNCHANGED <<asHtml, attempt, pause, slept, page>>,
           contacts' = IF phase = "asking" THEN contacts + 1 ELSE contacts,
           buffered' \in Nat, buffered' <= MaxBody,
           answer' \in Answers \cup {NoAnswer},
           retryable => /\ answer'.status \in FaultOfTheMoment
                        /\ answer' # NoAnswer /\ answer'.status \notin 200 .. 299 =>
                              after = RetryAfter(answer'.after)
    PROVE  FetchIInv'
<1>1. /\ failure' = [retryable |-> retryable, after |-> after] /\ phase' = "judging"
      /\ failure'.retryable = retryable /\ failure'.after = after
  BY DEF Fail
<1>2. /\ attempt \in Nat /\ contacts \in Nat /\ buffered \in Nat /\ pause \in Nat
      /\ slept \in Nat /\ asHtml \in BOOLEAN
      /\ page \in [kind : {"none", "text", "raw"}, size : Nat]
      /\ page.kind = "none" /\ page.size = 0 /\ MaxBody \in Nat
  BY FetchFacts
<1>3. FetchTypeOK'
  <2>1. failure' \in [retryable : BOOLEAN, after : Nat]
    BY <1>1
  <2>2. contacts' \in Nat
    BY <1>2
  <2> QED
    BY <1>1, <1>2, <2>1, <2>2 DEF FetchTypeOK
<1>4. CallIsBounded'
  BY <1>1, <1>2 DEF FetchIInv, CallIsBounded
<1>5. FailureIsOfAnswer'
  BY <1>1 DEF FailureIsOfAnswer
<1>6. WaitsInTurn'
  BY <1>1 DEF WaitsInTurn
<1>7. ReadsAnAnswer' /\ BodyIsWhole'
  BY <1>1, <1>2 DEF ReadsAnAnswer, BodyIsWhole
<1> QED
  BY <1>3, <1>4, <1>5, <1>6, <1>7 DEF FetchIInv

\* A request that fails on the way leaves no answer to judge.
LEMMA NotAnsweredStep ==
    ASSUME FetchIInv, NEW transient \in BOOLEAN, NotAnswered(transient)
    PROVE  FetchIInv'
<1>1. /\ phase = "asking" /\ contacts' = contacts + 1 /\ answer' = NoAnswer
      /\ Fail(transient, 0)
      /\ UNCHANGED <<asHtml, attempt, buffered, pause, slept, page>>
  BY DEF NotAnswered
<1>2. NoAnswer.status \in FaultOfTheMoment
  BY DEF NoAnswer, FaultOfTheMoment
<1>3. buffered \in Nat /\ buffered <= MaxBody
  BY FetchFacts
<1> QED
  BY <1>1, <1>2, <1>3, FailStep

\* An answer fails for one of its faults, or its body is read.
LEMMA AnsweredStep ==
    ASSUME FetchIInv, NEW a \in Answers, Answered(a)
    PROVE  FetchIInv'
<1>1. /\ phase = "asking" /\ contacts' = contacts + 1 /\ answer' = a /\ buffered' = 0
      /\ Judge(a)
      /\ UNCHANGED <<asHtml, attempt, pause, slept, page>>
  BY DEF Answered
<1>2. /\ a \in Answer /\ MaxBody \in Nat
      /\ a.body.size \in Nat /\ a.status \in Nat
      /\ a.after \in [form : {"absent", "date", "seconds"}, n : Nat]
  BY FetcherAssumption DEF Answer
<1>3. RetryAfter(a.after) \in Nat
  BY <1>2, FetcherAssumption DEF RetryAfter
<1>3a. /\ phase \in {"asking", "reading"}
       /\ contacts' = IF phase = "asking" THEN contacts + 1 ELSE contacts
       /\ buffered' \in Nat /\ buffered' <= MaxBody
       /\ answer' \in Answers \cup {NoAnswer}
  BY <1>1, <1>2
<1>4. CASE Fail(FALSE, 0)
  BY <1>1, <1>3a, <1>4, FailStep
<1>5. CASE IsRetryableStatus(a.status) /\ Fail(TRUE, RetryAfter(a.after))
  <2>1. a.status \in FaultOfTheMoment
    BY <1>5 DEF IsRetryableStatus, FaultOfTheMoment
  <2>2. /\ answer'.status \in FaultOfTheMoment
        /\ answer' # NoAnswer /\ answer'.status \notin 200 .. 299 =>
              RetryAfter(a.after) = RetryAfter(answer'.after)
    BY <1>1, <2>1
  <2> QED
    BY <1>1, <1>3, <1>3a, <1>5, <2>2, FailStep
<1>6. CASE phase' = "reading" /\ a.status \in 200 .. 299 /\ UNCHANGED failure
  <2>1. /\ attempt \in Nat /\ contacts \in Nat /\ pause \in Nat
        /\ slept \in Nat /\ asHtml \in BOOLEAN
        /\ failure \in [retryable : BOOLEAN, after : Nat]
        /\ page \in [kind : {"none", "text", "raw"}, size : Nat]
        /\ page.kind = "none" /\ page.size = 0
    BY <1>1, FetchFacts
  <2>2. FetchTypeOK'
    BY <1>1, <1>6, <2>1 DEF FetchTypeOK
  <2>3. CallIsBounded'
    BY <1>1, <1>6, <2>1 DEF FetchIInv, CallIsBounded
  <2>4. FailureIsOfAnswer' /\ WaitsInTurn'
    BY <1>6 DEF FailureIsOfAnswer, WaitsInTurn
  <2>5. ReadsAnAnswer' /\ BodyIsWhole'
    BY <1>1, <1>2, <1>6, <2>1 DEF ReadsAnAnswer, BodyIsWhole
  <2> QED
    BY <2>2, <2>3, <2>4, <2>5 DEF FetchIInv
<1>7. \/ Fail(FALSE, 0)
      \/ IsRetryableStatus(a.status) /\ Fail(TRUE, RetryAfter(a.after))
      \/ phase' = "reading" /\ a.status \in 200 .. 299 /\ UNCHANGED failure
  BY <1>1, ZenonT(30) DEF Judge
<1> QED
  BY <1>4, <1>5, <1>6, <1>7

\* A piece of the body fits in the buffer, or ends the call.
LEMMA ChunkStep ==
    ASSUME FetchIInv, NEW n \in 1 .. MaxBody, Chunk(n)
    PROVE  FetchIInv'
<1>1. /\ phase = "reading" /\ buffered + n <= answer.body.size
      /\ UNCHANGED <<asHtml, attempt, contacts, answer, pause, slept, page>>
  BY DEF Chunk
<1>2. /\ attempt \in Nat /\ contacts \in Nat /\ pause \in Nat /\ buffered \in Nat
      /\ slept \in Nat /\ asHtml \in BOOLEAN /\ answer \in Answers
      /\ failure \in [retryable : BOOLEAN, after : Nat]
      /\ page \in [kind : {"none", "text", "raw"}, size : Nat]
      /\ page.kind = "none" /\ page.size = 0 /\ MaxBody \in Nat
      /\ answer.status \in 200 .. 299 /\ buffered <= MaxBody
  BY <1>1, FetchFacts
<1>3. CASE buffered + n > MaxBody
  <2>1. Fail(FALSE, 0) /\ buffered' = buffered
    BY <1>3 DEF Chunk
  <2>2. /\ phase \in {"asking", "reading"}
        /\ contacts' = IF phase = "asking" THEN contacts + 1 ELSE contacts
        /\ buffered' \in Nat /\ buffered' <= MaxBody
        /\ answer' \in Answers \cup {NoAnswer}
    BY <1>1, <1>2, <2>1
  <2> QED
    BY <1>1, <2>1, <2>2, FailStep
<1>4. CASE ~(buffered + n > MaxBody)
  <2>1. buffered' = buffered + n /\ phase' = "reading" /\ failure' = failure
    BY <1>1, <1>4 DEF Chunk
  <2>2. buffered' \in Nat /\ buffered' <= MaxBody
    BY <1>2, <1>4, <2>1
  <2>3. FetchTypeOK'
    BY <1>1, <1>2, <2>1, <2>2 DEF FetchTypeOK
  <2>4. CallIsBounded'
    BY <1>1, <1>2, <2>1 DEF FetchIInv, CallIsBounded
  <2>5. FailureIsOfAnswer' /\ WaitsInTurn'
    BY <2>1 DEF FailureIsOfAnswer, WaitsInTurn
  <2>6. ReadsAnAnswer' /\ BodyIsWhole'
    BY <1>1, <1>2, <2>1, <2>2 DEF ReadsAnAnswer, BodyIsWhole
  <2> QED
    BY <2>3, <2>4, <2>5, <2>6 DEF FetchIInv
<1> QED
  BY <1>3, <1>4

\* A body that ends too early is worth another attempt.
LEMMA InterruptedStep ==
    ASSUME FetchIInv, Interrupted
    PROVE  FetchIInv'
<1>1. /\ phase = "reading" /\ Fail(TRUE, 0)
      /\ UNCHANGED <<asHtml, attempt, contacts, answer, buffered, pause, slept, page>>
  BY DEF Interrupted
<1>2. /\ answer \in Answers /\ answer.status \in 200 .. 299
      /\ buffered \in Nat /\ buffered <= MaxBody
  BY <1>1, FetchFacts
<1>3. answer'.status \in FaultOfTheMoment /\ answer'.status \in 200 .. 299
  BY <1>1, <1>2 DEF FaultOfTheMoment
<1> QED
  BY <1>1, <1>2, <1>3, FailStep

\* A body that has come in is returned, unpacked as far as the cap.
LEMMA EndOfBodyStep ==
    ASSUME FetchIInv, EndOfBody
    PROVE  FetchIInv'
<1>1. /\ phase = "reading" /\ buffered = answer.body.size /\ phase' = "returned"
      /\ page' = Unpack(answer.body)
      /\ UNCHANGED <<asHtml, attempt, contacts, answer, buffered, failure, pause, slept>>
  BY DEF EndOfBody
<1>2. /\ attempt \in Nat /\ contacts \in Nat /\ pause \in Nat /\ buffered \in Nat
      /\ slept \in Nat /\ asHtml \in BOOLEAN /\ answer \in Answers
      /\ failure \in [retryable : BOOLEAN, after : Nat]
      /\ MaxBody \in Nat /\ answer \in Answer /\ buffered <= MaxBody
  BY <1>1, FetchFacts
<1> DEFINE body == answer.body
<1>3. /\ body.size \in Nat /\ body.expands \in Nat
      /\ body.gzip \in BOOLEAN /\ body.broken \in BOOLEAN
      /\ body.size <= MaxBody
  BY <1>1, <1>2 DEF Answer
<1> HIDE DEF body
<1>4. /\ page'.kind \in {"text", "raw"} /\ page'.size \in Nat /\ page'.size <= MaxBody
      /\ page' \in [kind : {"none", "text", "raw"}, size : Nat]
      /\ page'.kind = "raw" => body.gzip /\ page'.size = body.size
      /\ page'.kind = "text" =>
            /\ page'.size = IF body.gzip THEN Smaller(body.expands, MaxBody) ELSE body.size
            /\ body.gzip /\ body.broken => body.expands >= MaxBody
  <2>1. page' = Unpack(body)
    BY <1>1 DEF body
  <2>2. CASE ~body.gzip
    <3>1. page' = [kind |-> "text", size |-> body.size]
      BY <2>1, <2>2 DEF Unpack
    <3> QED
      BY <1>3, <2>2, <3>1
  <2>3. CASE body.gzip /\ body.broken /\ body.expands < MaxBody
    <3>1. page' = [kind |-> "raw", size |-> body.size]
      BY <2>1, <2>3 DEF Unpack
    <3> QED
      BY <1>3, <2>3, <3>1
  <2>4. CASE body.gzip /\ ~(body.broken /\ body.expands < MaxBody)
    <3>1. page' = [kind |-> "text", size |-> Smaller(body.expands, MaxBody)]
      BY <2>1, <2>4 DEF Unpack
    <3>2. Smaller(body.expands, MaxBody) \in Nat /\ Smaller(body.expands, MaxBody) <= MaxBody
      BY <1>2, <1>3 DEF Smaller
    <3>3. body.broken => body.expands >= MaxBody
      BY <1>2, <1>3, <2>4
    <3> QED
      BY <2>4, <3>1, <3>2, <3>3
  <2> QED
    BY <2>2, <2>3, <2>4
<1>5. FetchTypeOK'
  BY <1>1, <1>2, <1>4 DEF FetchTypeOK
<1>6. CallIsBounded'
  BY <1>1, <1>2 DEF FetchIInv, CallIsBounded
<1>7. FailureIsOfAnswer' /\ WaitsInTurn'
  BY <1>1 DEF FailureIsOfAnswer, WaitsInTurn
<1>8. ReadsAnAnswer' /\ BodyIsWhole'
  BY <1>1, <1>2, <1>4 DEF ReadsAnAnswer, BodyIsWhole, body
<1> QED
  BY <1>5, <1>6, <1>7, <1>8 DEF FetchIInv

\* A failure that is not worth waiting for, or the last, ends the call.
LEMMA ReturnStep ==
    ASSUME FetchIInv, Return
    PROVE  FetchIInv'
<1>1. /\ phase = "judging" /\ phase' = "returned"
      /\ UNCHANGED <<asHtml, attempt, contacts, answer, buffered, failure, pause,
                     slept, page>>
  BY DEF Return
<1>2. page.kind = "none" /\ page.size = 0
  BY <1>1, FetchFacts
<1>3. FetchTypeOK' /\ CallIsBounded'
  BY <1>1 DEF FetchIInv, FetchTypeOK, CallIsBounded
<1>4. FailureIsOfAnswer' /\ WaitsInTurn'
  BY <1>1 DEF FailureIsOfAnswer, WaitsInTurn
<1>5. ReadsAnAnswer' /\ BodyIsWhole'
  BY <1>1, <1>2 DEF FetchIInv, ReadsAnAnswer, BodyIsWhole
<1> QED
  BY <1>3, <1>4, <1>5 DEF FetchIInv

\* The pause is what the failure and the attempt call for.
LEMMA BackOffStep ==
    ASSUME FetchIInv, NEW jitter \in 0 .. MaxJitter, BackOff(jitter)
    PROVE  FetchIInv'
<1>1. /\ phase = "judging" /\ phase' = "sleeping" /\ ~(attempt >= MaxRetries)
      /\ failure.retryable /\ failure.after <= BackoffCap
      /\ pause' = Larger(failure.after, Backoff(attempt, BackoffBase, BackoffCap) + jitter)
      /\ UNCHANGED <<asHtml, attempt, contacts, answer, buffered, failure, slept, page>>
  BY DEF BackOff, GiveUp, IsWorthWaiting, Delay
<1>2. /\ attempt \in Nat /\ MaxRetries \in Nat /\ failure.after \in Nat
      /\ page.kind = "none" /\ page.size = 0
  BY <1>1, FetchFacts
<1>3. pause' \in Nat /\ pause' <= BackoffCap + MaxJitter
  BY <1>1, <1>2, PauseIsBounded
<1>4. FetchTypeOK'
  BY <1>1, <1>3 DEF FetchIInv, FetchTypeOK
<1>5. CallIsBounded'
  BY <1>1, <1>2, <1>3 DEF FetchIInv, CallIsBounded
<1>6. FailureIsOfAnswer'
  BY <1>1 DEF FetchIInv, FailureIsOfAnswer
<1>7. WaitsInTurn'
  <2>1. WaitedFor(attempt)'
    BY <1>1 DEF WaitedFor
  <2> QED
    BY <1>1, <2>1 DEF WaitsInTurn
<1>8. ReadsAnAnswer' /\ BodyIsWhole'
  BY <1>1, <1>2 DEF FetchIInv, ReadsAnAnswer, BodyIsWhole
<1> QED
  BY <1>4, <1>5, <1>6, <1>7, <1>8 DEF FetchIInv

\* The next attempt has waited for the one before.
LEMMA RetryStep ==
    ASSUME FetchIInv, Retry
    PROVE  FetchIInv'
<1>1. /\ phase = "sleeping" /\ phase' = "asking"
      /\ slept' = slept + pause /\ attempt' = attempt + 1
      /\ UNCHANGED <<asHtml, contacts, answer, buffered, failure, pause, page>>
  BY DEF Retry
<1>2. /\ attempt \in Nat /\ slept \in Nat /\ pause \in Nat /\ contacts \in Nat
      /\ MaxRetries \in Nat /\ BackoffCap \in Nat /\ MaxJitter \in Nat
      /\ page.kind = "none" /\ page.size = 0
  BY <1>1, FetchFacts
<1>3. /\ attempt < MaxRetries /\ pause <= BackoffCap + MaxJitter
      /\ slept <= attempt * (BackoffCap + MaxJitter) /\ contacts = attempt + 1
  BY <1>1 DEF FetchIInv, CallIsBounded
<1>4. FetchTypeOK'
  BY <1>1, <1>2 DEF FetchIInv, FetchTypeOK
<1>5. CallIsBounded'
  <2> DEFINE longest == BackoffCap + MaxJitter
  <2>1. longest \in Nat
    BY <1>2
  <2> HIDE DEF longest
  <2>2. (attempt + 1) * longest = attempt * longest + longest /\ attempt * longest \in Nat
    BY <1>2, <2>1
  <2>3. slept + pause <= (attempt + 1) * longest
    BY <1>2, <1>3, <2>1, <2>2 DEF longest
  <2> QED
    BY <1>1, <1>2, <1>3, <2>3 DEF CallIsBounded, longest
<1>6. FailureIsOfAnswer'
  BY <1>1 DEF FetchIInv, FailureIsOfAnswer
<1>7. WaitsInTurn'
  <2>1. WaitedFor(attempt) /\ attempt' - 1 = attempt
    BY <1>1, <1>2 DEF FetchIInv, WaitsInTurn
  <2>2. /\ failure'.retryable /\ failure'.after <= BackoffCap
        /\ \E jitter \in 0 .. MaxJitter :
              pause' = Larger(failure'.after,
                              Backoff(attempt' - 1, BackoffBase, BackoffCap) + jitter)
    BY <1>1, <2>1 DEF WaitedFor
  <2> QED
    BY <1>1, <2>2 DEF WaitsInTurn, WaitedFor
<1>8. ReadsAnAnswer' /\ BodyIsWhole'
  BY <1>1, <1>2 DEF FetchIInv, ReadsAnAnswer, BodyIsWhole
<1> QED
  BY <1>4, <1>5, <1>6, <1>7, <1>8 DEF FetchIInv

\* Every step of a call keeps the invariant.
LEMMA NextFetchIInv == FetchIInv /\ [FetchNext]_fetchVars => FetchIInv'
<1> SUFFICES ASSUME FetchIInv, [FetchNext]_fetchVars PROVE FetchIInv'
  OBVIOUS
<1>1. CASE UNCHANGED fetchVars
  BY <1>1 DEF fetchVars, FetchIInv, FetchTypeOK, CallIsBounded, FailureIsOfAnswer,
              WaitsInTurn, WaitedFor, ReadsAnAnswer, BodyIsWhole
<1>2. CASE FetchStep
  BY <1>2, NotAnsweredStep, AnsweredStep, ChunkStep, InterruptedStep, EndOfBodyStep,
     ReturnStep, BackOffStep, RetryStep DEF FetchStep
<1> QED
  BY <1>1, <1>2 DEF FetchNext

-----------------------------------------------------------------------------
(* What a call promises *)

\* The inductive invariant of a call of fetch or fetch_text (fetcher.rs:245-385).
THEOREM SpecFetchIInv == FetchSpec => []FetchIInv
  BY InitFetchIInv, NextFetchIInv, PTL DEF FetchSpec

\* Whatever a server sends and wherever it stops, the page returned is the whole
\* body or the part of its expansion that fits the cap (fetcher.rs:357-437).
THEOREM SpecBodyIsWhole == FetchSpec => []BodyIsWhole
<1>1. FetchIInv => BodyIsWhole
  BY DEF FetchIInv
<1> QED
  BY <1>1, SpecFetchIInv, PTL

\* However a server answers, and whatever it asks to wait, a worker is held for no
\* more than the configured attempts and pauses (fetcher.rs:264-303).
THEOREM SpecStallIsBounded == FetchSpec => []StallIsBounded
<1>1. ASSUME FetchIInv PROVE StallIsBounded
  <2> DEFINE longest == BackoffCap + MaxJitter
  <2>1. /\ attempt \in Nat /\ contacts \in Nat /\ slept \in Nat /\ MaxRetries \in Nat
        /\ BackoffCap \in Nat /\ MaxJitter \in Nat
    BY <1>1, FetchFacts
  <2>2. attempt <= MaxRetries /\ contacts <= attempt + 1 /\ slept <= attempt * longest
    BY <1>1, <2>1 DEF FetchIInv, CallIsBounded
  <2>3. longest \in Nat
    BY <2>1
  <2> HIDE DEF longest
  <2>4. attempt * longest <= MaxRetries * longest
    <3>1. MaxRetries * longest = attempt * longest + (MaxRetries - attempt) * longest
      BY <2>1, <2>2, <2>3
    <3>2. /\ (MaxRetries - attempt) * longest \in Nat
          /\ attempt * longest \in Nat
      BY <2>1, <2>2, <2>3
    <3> QED
      BY <3>1, <3>2
  <2>5. attempt * longest \in Nat /\ MaxRetries * longest \in Nat
    BY <2>1, <2>3
  <2>6. slept <= MaxRetries * longest
    BY <2>1, <2>2, <2>4, <2>5
  <2> QED
    BY <2>1, <2>2, <2>6 DEF StallIsBounded, longest
<1> QED
  BY <1>1, SpecFetchIInv, PTL

\* The backoff is exact for a cap below half the range of the integers it is
\* computed in: the pause is never a number that wrapped (fetcher.rs:91-96).
THEOREM SpecBackoffIsExact ==
    ASSUME BackoffCap < PowerOf2[Width - 1]
    PROVE  FetchSpec => []BackoffIsExact
<1>1. ASSUME FetchIInv PROVE BackoffIsExact
  <2>1. ASSUME phase = "sleeping", failure.after = 0
        PROVE  pause - Smaller(BackoffBase * PowerOf2[attempt], BackoffCap) \in 0 .. MaxJitter
    <3>1. /\ attempt \in Nat /\ BackoffBase \in Nat /\ BackoffCap \in Nat
          /\ MaxJitter \in Nat
      BY <1>1, FetchFacts, FetcherAssumption
    <3> DEFINE backoff == Backoff(attempt, BackoffBase, BackoffCap)
    <3>2. PICK jitter \in 0 .. MaxJitter : pause = Larger(0, backoff + jitter)
      BY <1>1, <2>1 DEF FetchIInv, WaitsInTurn, WaitedFor
    <3>3. backoff = Smaller(BackoffBase * PowerOf2[attempt], BackoffCap)
      BY <3>1, BackoffExact
    <3>4. backoff \in 0 .. BackoffCap
      BY <3>1, BackoffIsCapped
    <3> HIDE DEF backoff
    <3>5. pause - backoff = jitter
      BY <3>1, <3>2, <3>4 DEF Larger
    <3> QED
      BY <3>3, <3>5
  <2>2. ASSUME NEW base \in 0 .. PowerOf2[Width - 1] - 1,
               NEW cap \in 0 .. PowerOf2[Width - 1] - 1, NEW n \in 0 .. 2 * Width
        PROVE  Backoff(n, base, cap) = Smaller(base * PowerOf2[n], cap)
    <3> DEFINE half == PowerOf2[Width - 1]
    <3>1. Width \in Nat /\ Width - 1 \in Nat /\ 2 * Width \in Nat
      BY FetcherAssumption
    <3>2. half \in Nat
      BY <3>1, PowersArePositive
    <3> HIDE DEF half
    <3>3. base \in Nat /\ cap \in Nat /\ cap < half
      BY <3>2 DEF half
    <3>4. n \in Nat
      BY <3>1
    <3> QED
      BY <3>3, <3>4, BackoffExact DEF half
  <2> QED
    BY <2>1, <2>2 DEF BackoffIsExact
<1> QED
  BY <1>1, SpecFetchIInv, PTL

\* A server is asked again only after a fault of the moment, and only when its own
\* pause and ours are over (fetcher.rs:264-303), with the cap as above.
THEOREM SpecAsksAgainOnlyInTurn ==
    ASSUME BackoffCap < PowerOf2[Width - 1]
    PROVE  FetchSpec => AsksAgainOnlyInTurn
<1> DEFINE Again ==
       contacts' > contacts /\ contacts > 0 =>
          /\ failure.retryable
          /\ answer.status \in {0} \cup (200 .. 299) \cup {429} \cup (500 .. 599)
          /\ pause >= Smaller(BackoffBase * PowerOf2[attempt - 1], BackoffCap)
          /\ answer # NoAnswer /\ answer.status \notin 200 .. 299 /\ answer.after.form = "seconds" =>
                answer.after.n * Second <= Smaller(pause, BackoffCap)
<1>1. ASSUME FetchIInv, [FetchNext]_fetchVars PROVE [Again]_fetchVars
  <2> SUFFICES ASSUME contacts' > contacts, contacts > 0 PROVE Again
    OBVIOUS
  <2>1. contacts \in Nat /\ attempt \in Nat /\ pause \in Nat
        /\ failure \in [retryable : BOOLEAN, after : Nat]
    BY <1>1, FetchFacts
  <2>2. phase = "asking"
    <3>1. contacts' # contacts
      BY <2>1
    <3> QED
      BY <1>1, <3>1 DEF fetchVars, FetchNext, FetchStep, NotAnswered, Answered, Chunk,
                        Interrupted, EndOfBody, Return, BackOff, Retry
  <2>3. attempt > 0 /\ attempt - 1 \in Nat
    BY <1>1, <2>1, <2>2 DEF FetchIInv, CallIsBounded
  <2>4. /\ failure.retryable /\ failure.after <= BackoffCap /\ failure.after \in Nat
        /\ \E jitter \in 0 .. MaxJitter :
              pause = Larger(failure.after, Backoff(attempt - 1, BackoffBase, BackoffCap) + jitter)
    BY <1>1, <2>1, <2>2, <2>3 DEF FetchIInv, WaitsInTurn, WaitedFor
  <2>5. /\ answer.status \in FaultOfTheMoment
        /\ answer # NoAnswer /\ answer.status \notin 200 .. 299 =>
              failure.after = RetryAfter(answer.after)
    BY <1>1, <2>2, <2>4 DEF FetchIInv, FailureIsOfAnswer
  <2> DEFINE backoff == Backoff(attempt - 1, BackoffBase, BackoffCap)
  <2>6. BackoffBase \in Nat /\ BackoffCap \in Nat /\ MaxJitter \in Nat
    BY FetcherAssumption
  <2>7. backoff = Smaller(BackoffBase * PowerOf2[attempt - 1], BackoffCap)
    BY <2>3, <2>6, BackoffExact
  <2>8. backoff \in 0 .. BackoffCap
    BY <2>3, <2>6, BackoffIsCapped
  <2>9. pause >= backoff /\ pause >= failure.after
    <3>1. PICK jitter \in 0 .. MaxJitter : pause = Larger(failure.after, backoff + jitter)
      BY <2>4
    <3>2. jitter \in Nat
      BY <2>6
    <3> HIDE DEF backoff
    <3> QED
      BY <2>4, <2>8, <3>1, <3>2 DEF Larger
  <2>10. failure.after <= Smaller(pause, BackoffCap)
    BY <2>1, <2>4, <2>6, <2>9 DEF Smaller
  <2>11. answer # NoAnswer /\ answer.status \notin 200 .. 299 /\ answer.after.form = "seconds" =>
            answer.after.n * Second <= Smaller(pause, BackoffCap)
    BY <2>5, <2>10 DEF RetryAfter
  <2> QED
    BY <2>4, <2>5, <2>7, <2>9, <2>11 DEF FaultOfTheMoment
<1> QED
  BY <1>1, SpecFetchIInv, PTL DEF FetchSpec, AsksAgainOnlyInTurn
=============================================================================
