------------------------------ MODULE Fetcher -------------------------------
(***************************************************************************)
(* One call of Fetcher::fetch or fetch_text (fetcher.rs): attempts, the    *)
(* judgement of every answer, the pauses between attempts, and the body    *)
(* read in chunks against a cap and unpacked.  The server is external and  *)
(* may answer anything in Answers, or not at all, each time it is asked.   *)
(* Lengths are counted in pieces, times in ticks, both by definition small *)
(* numbers; Width is the width of the integers the backoff is computed in. *)
(***************************************************************************)
EXTENDS Naturals, FiniteSets

CONSTANTS
    Answers,      \* [status, after, type, declares, body] a server may send
    MaxRetries, BackoffBase, BackoffCap, MaxJitter, MaxBody,
    Second,       \* ticks in a second of Retry-After
    Width         \* bits of the integers (64 in the code)

\* What a server may send: a Retry-After is read by its form, a body is bytes
\* that may be a compressed stream, whole or broken.
Answer == [status : Nat,
           after : [form : {"absent", "date", "seconds"}, n : Nat],
           type : {"absent", "html", "xml", "plain"},
           declares : BOOLEAN,
           body : [size : Nat, gzip : BOOLEAN, expands : Nat, broken : BOOLEAN]]

\* 1 << n, before it is cut to any width.
PowerOf2[n \in Nat] == IF n = 0 THEN 1 ELSE 2 * PowerOf2[n - 1]

ASSUME FetcherAssumption ==
    /\ Answers \subseteq Answer
    /\ {MaxRetries, BackoffBase, BackoffCap, MaxJitter, MaxBody} \subseteq Nat
    /\ Second \in Nat /\ Width \in Nat \ {0}
    /\ BackoffCap + MaxJitter < PowerOf2[Width]

VARIABLES
    phase,      \* "asking", "reading", "judging", "sleeping", "returned"
    asHtml,     \* require_html: fetch, or fetch_text for robots.txt
    attempt,    \* retries made so far
    contacts,   \* history: requests sent
    answer,     \* the answer being read
    buffered,   \* pieces of the body held
    failure,    \* what went wrong: [retryable, after]
    pause,      \* the delay being slept
    slept,      \* history: all of the pauses
    page        \* what was returned

fetchVars == <<phase, asHtml, attempt, contacts, answer, buffered, failure,
               pause, slept, page>>

NoAnswer == [status |-> 0]
NoFailure == [retryable |-> FALSE, after |-> 0]
NoPage == [kind |-> "none", size |-> 0]

Smaller(m, n) == IF m < n THEN m ELSE n
Larger(m, n) == IF m > n THEN m ELSE n

(***************************************************************************)
(* backoff_ms: base * 2^attempt in saturating arithmetic, then the cap.    *)
(***************************************************************************)
\* (mutant: plain multiplication wraps)
WrappingBackoff(n, base, cap) == Smaller((base * PowerOf2[n]) % PowerOf2[Width], cap)

Backoff(n, base, cap) ==
    LET shift == Smaller(n, Width - 1)
    IN  Smaller(Smaller(base * PowerOf2[shift], PowerOf2[Width] - 1), cap)

IsRetryableStatus(status) == status = 429 \/ status \in 500 .. 599

\* No content type, or one that names HTML or XML.
IsHtmlContentType(type) == type \in {"absent", "html", "xml"}

\* Only the seconds form is read; a date, or no header, asks for nothing.
RetryAfter(header) == IF header.form = "seconds" THEN header.n * Second ELSE 0

(***************************************************************************)
(* gunzip_if_compressed: at most MaxBody pieces of the expansion; a stream *)
(* that breaks before that is returned as it came.                         *)
(***************************************************************************)
Unpack(body) ==
    IF ~body.gzip THEN [kind |-> "text", size |-> body.size]
    ELSE IF body.broken /\ body.expands < MaxBody
         THEN [kind |-> "raw", size |-> body.size]
         ELSE [kind |-> "text", size |-> Smaller(body.expands, MaxBody)]

-----------------------------------------------------------------------------
Fail(retryable, after) ==
    /\ failure' = [retryable |-> retryable, after |-> after]
    /\ phase' = "judging"

\* send() fails: a timeout, a refused connection or a broken request may work
\* next time; too many redirects or a URL that cannot be sent will not.
NotAnswered(transient) ==
    /\ phase = "asking"
    /\ contacts' = contacts + 1
    /\ answer' = NoAnswer
    /\ Fail(transient, 0)
    /\ UNCHANGED <<asHtml, attempt, buffered, pause, slept, page>>

Judge(a) ==
    IF a.status \notin 200 .. 299
    THEN IF IsRetryableStatus(a.status) THEN Fail(TRUE, RetryAfter(a.after))
                                        ELSE Fail(FALSE, 0)
    ELSE IF asHtml /\ ~IsHtmlContentType(a.type) THEN Fail(FALSE, 0)
    ELSE IF a.declares /\ a.body.size > MaxBody THEN Fail(FALSE, 0)
    ELSE phase' = "reading" /\ UNCHANGED failure

Answered(a) ==
    /\ phase = "asking"
    /\ contacts' = contacts + 1
    /\ answer' = a
    /\ buffered' = 0
    /\ Judge(a)
    /\ UNCHANGED <<asHtml, attempt, pause, slept, page>>

Chunk(n) ==
    /\ phase = "reading" /\ buffered + n <= answer.body.size
    /\ IF buffered + n > MaxBody
       THEN Fail(FALSE, 0) /\ UNCHANGED buffered
       ELSE buffered' = buffered + n /\ UNCHANGED <<phase, failure>>
    /\ UNCHANGED <<asHtml, attempt, contacts, answer, pause, slept, page>>

\* (mutant: an interrupted body is taken for the whole of it)
TakeInterrupted ==
    /\ phase = "reading" /\ buffered < answer.body.size
    /\ page' = [kind |-> "text", size |-> buffered]
    /\ phase' = "returned"
    /\ UNCHANGED <<asHtml, attempt, contacts, answer, buffered, failure, pause, slept>>

\* The stream ends with an error: worth retrying rather than half a document.
Interrupted ==
    /\ phase = "reading" /\ buffered < answer.body.size
    /\ Fail(TRUE, 0)
    /\ UNCHANGED <<asHtml, attempt, contacts, answer, buffered, pause, slept, page>>

EndOfBody ==
    /\ phase = "reading" /\ buffered = answer.body.size
    /\ page' = Unpack(answer.body)
    /\ phase' = "returned"
    /\ UNCHANGED <<asHtml, attempt, contacts, answer, buffered, failure, pause, slept>>

\* (mutant: one retry more than configured)
OneMore == attempt > MaxRetries

GiveUp == attempt >= MaxRetries

\* (mutant: the header replaces the backoff)
ServerDelay(jitter) ==
    IF failure.after > 0 THEN failure.after
    ELSE Backoff(attempt, BackoffBase, BackoffCap) + jitter

\* Retry-After is a floor under the backoff and its jitter.
Delay(jitter) ==
    Larger(failure.after, Backoff(attempt, BackoffBase, BackoffCap) + jitter)

\* A server that asks for longer than the cap is not asked again.
IsWorthWaiting == failure.retryable /\ failure.after <= BackoffCap

\* (mutant: the last failure is neither returned nor retried)
ReturnUnlessSpent ==
    /\ phase = "judging" /\ ~IsWorthWaiting
    /\ phase' = "returned"
    /\ UNCHANGED <<asHtml, attempt, contacts, answer, buffered, failure, pause,
                   slept, page>>

Return ==
    /\ phase = "judging" /\ (GiveUp \/ ~IsWorthWaiting)
    /\ phase' = "returned"
    /\ UNCHANGED <<asHtml, attempt, contacts, answer, buffered, failure, pause,
                   slept, page>>

BackOff(jitter) ==
    /\ phase = "judging" /\ ~GiveUp /\ IsWorthWaiting
    /\ pause' = Delay(jitter)
    /\ phase' = "sleeping"
    /\ UNCHANGED <<asHtml, attempt, contacts, answer, buffered, failure, slept, page>>

Retry ==
    /\ phase = "sleeping"
    /\ slept' = slept + pause
    /\ attempt' = attempt + 1
    /\ phase' = "asking"
    /\ UNCHANGED <<asHtml, contacts, answer, buffered, failure, pause, page>>

FetchInit ==
    /\ phase = "asking" /\ asHtml \in BOOLEAN
    /\ attempt = 0 /\ contacts = 0 /\ answer = NoAnswer /\ buffered = 0
    /\ failure = NoFailure /\ pause = 0 /\ slept = 0 /\ page = NoPage

FetchStep ==
    \/ \E transient \in BOOLEAN : NotAnswered(transient)
    \/ \E a \in Answers : Answered(a)
    \/ \E n \in 1 .. MaxBody : Chunk(n)
    \/ Interrupted \/ EndOfBody \/ Return
    \/ \E jitter \in 0 .. MaxJitter : BackOff(jitter)
    \/ Retry

\* The call has returned; nothing more happens to it.
FetchNext == FetchStep \/ (phase = "returned" /\ UNCHANGED fetchVars)

\* Every attempt is bounded by the client's timeout, and a timer always fires:
\* a call that can take a step takes one.
FetchSpec == FetchInit /\ [][FetchNext]_fetchVars /\ WF_fetchVars(FetchStep)

-----------------------------------------------------------------------------
(***************************************************************************)
(* No page and no buffer is larger than the cap, compressed or not, and    *)
(* what is returned is the whole document: the only pages cut short are    *)
(* compressed ones whose expansion passes the cap (gunzip takes `cap'      *)
(* bytes of output and does not say that there was more).                  *)
(***************************************************************************)
BodyIsWhole ==
    /\ buffered <= MaxBody /\ page.size <= MaxBody
    /\ page.kind = "raw" => answer.body.gzip /\ page.size = answer.body.size
    /\ page.kind = "text" =>
          /\ page.size = IF answer.body.gzip THEN Smaller(answer.body.expands, MaxBody)
                                             ELSE answer.body.size
          /\ answer.body.gzip /\ answer.body.broken => answer.body.expands >= MaxBody

(***************************************************************************)
(* A server is asked again only after a fault of the moment: no answer, an *)
(* interrupted body, 429 or 5xx; never after a statement about the page or *)
(* a pause it asked for that is longer than the cap; never before the      *)
(* pause it asked for and our own backoff are over.                        *)
(***************************************************************************)
AsksAgainOnlyInTurn ==
    [][contacts' > contacts /\ contacts > 0 =>
          /\ failure.retryable
          /\ answer.status \in {0} \cup (200 .. 299) \cup {429} \cup (500 .. 599)
          /\ pause >= Smaller(BackoffBase * PowerOf2[attempt - 1], BackoffCap)
          /\ answer # NoAnswer /\ answer.status \notin 200 .. 299 /\ answer.after.form = "seconds" =>
                answer.after.n * Second <= Smaller(pause, BackoffCap)]_fetchVars

(***************************************************************************)
(* A worker is never held by one page for longer than its attempts: at     *)
(* most MaxRetries + 1 requests and MaxRetries pauses of at most the cap   *)
(* and the jitter, whatever the server asks for.                           *)
(***************************************************************************)
StallIsBounded ==
    /\ contacts <= MaxRetries + 1
    /\ slept <= MaxRetries * (BackoffCap + MaxJitter)

(***************************************************************************)
(* The pause slept is base * 2^n below the cap, not a wrapped number; and  *)
(* the saturating arithmetic of backoff_ms gives that for every base and   *)
(* cap below half the integer range and every n, however large.            *)
(***************************************************************************)
BackoffIsExact ==
    phase = "sleeping" =>
        /\ failure.after = 0 =>
              pause - Smaller(BackoffBase * PowerOf2[attempt], BackoffCap) \in 0 .. MaxJitter
        /\ \A base, cap \in 0 .. PowerOf2[Width - 1] - 1, n \in 0 .. 2 * Width :
              Backoff(n, base, cap) = Smaller(base * PowerOf2[n], cap)

\* Whatever the server does, the call returns.
FetchReturns == <>(phase = "returned")

-----------------------------------------------------------------------------
(***************************************************************************)
(* The inductive invariant behind the safety properties: what is counted   *)
(* goes with the attempts, what is judged is the answer that was read, and *)
(* what is slept is the pause for the attempt before.                      *)
(***************************************************************************)
FetchTypeOK ==
    /\ phase \in {"asking", "reading", "judging", "sleeping", "returned"}
    /\ asHtml \in BOOLEAN
    /\ {attempt, contacts, buffered, pause, slept} \subseteq Nat
    /\ answer \in Answers \cup {NoAnswer}
    /\ failure \in [retryable : BOOLEAN, after : Nat]
    /\ page \in [kind : {"none", "text", "raw"}, size : Nat]

CallIsBounded ==
    /\ attempt <= MaxRetries
    /\ contacts = IF phase = "asking" THEN attempt ELSE attempt + 1
    /\ slept <= attempt * (BackoffCap + MaxJitter)
    /\ phase = "sleeping" => attempt < MaxRetries /\ pause <= BackoffCap + MaxJitter

FaultOfTheMoment == {0} \cup (200 .. 299) \cup {429} \cup (500 .. 599)

FailureIsOfAnswer ==
    phase \in {"judging", "sleeping", "asking"} /\ failure.retryable =>
        /\ answer.status \in FaultOfTheMoment
        /\ answer # NoAnswer /\ answer.status \notin 200 .. 299 =>
              failure.after = RetryAfter(answer.after)

WaitedFor(n) ==
    /\ failure.retryable /\ failure.after <= BackoffCap
    /\ \E jitter \in 0 .. MaxJitter :
          pause = Larger(failure.after, Backoff(n, BackoffBase, BackoffCap) + jitter)

WaitsInTurn ==
    /\ phase = "sleeping" => WaitedFor(attempt)
    /\ phase = "asking" /\ attempt > 0 => WaitedFor(attempt - 1)

ReadsAnAnswer ==
    /\ phase = "reading" => /\ answer \in Answers /\ answer.status \in 200 .. 299
                            /\ buffered <= answer.body.size
    /\ IF page.kind = "none" THEN page.size = 0 ELSE phase = "returned" /\ answer \in Answers

FetchIInv ==
    /\ FetchTypeOK
    /\ CallIsBounded
    /\ FailureIsOfAnswer
    /\ WaitsInTurn
    /\ ReadsAnAnswer
    /\ BodyIsWhole
=============================================================================
