------------------------------ MODULE GlobMatch -----------------------------
(***************************************************************************)
(* glob_matches of robots.rs, one turn of its loop a step: a pattern with  *)
(* `*' against a path, with the last star to go back to.  match_path       *)
(* strips a final `$' and passes it as `anchored'.  Positions count the    *)
(* characters consumed.                                                    *)
(***************************************************************************)
EXTENDS Naturals, Sequences

CONSTANTS
    Letter,       \* characters a path is made of
    Star,         \* the wildcard, no letter
    MaxPattern, MaxText   \* bounds: lengths

ASSUME GlobAssumption == Star \notin Letter /\ {MaxPattern, MaxText} \subseteq Nat

VARIABLES
    pattern, text, anchored,   \* the arguments
    patternAt, pathAt,         \* characters consumed
    starAt,                    \* where the last star is, 0 before any
    resumeAt,                  \* where the text matched by it ends
    verdict                    \* "running", "match", "no match"

globVars == <<pattern, text, anchored, patternAt, pathAt, starAt, resumeAt, verdict>>
arguments == <<pattern, text, anchored>>

SeqUpTo(S, n) == UNION {[1 .. k -> S] : k \in 0 .. n}

AtStar == patternAt < Len(pattern) /\ pattern[patternAt + 1] = Star
AtMatch ==
    /\ patternAt < Len(pattern) /\ pathAt < Len(text)
    /\ pattern[patternAt + 1] = text[pathAt + 1]

TakeStar ==
    /\ AtStar
    /\ starAt' = patternAt + 1
    /\ resumeAt' = pathAt
    /\ patternAt' = patternAt + 1
    /\ UNCHANGED <<arguments, pathAt, verdict>>

Consume ==
    /\ ~AtStar /\ AtMatch
    /\ patternAt' = patternAt + 1
    /\ pathAt' = pathAt + 1
    /\ UNCHANGED <<arguments, starAt, resumeAt, verdict>>

\* Pattern exhausted: a prefix is enough unless it is anchored.
Exhausted ==
    /\ ~AtStar /\ ~AtMatch /\ patternAt = Len(pattern)
    /\ verdict' = IF anchored /\ pathAt < Len(text) THEN "no match" ELSE "match"
    /\ UNCHANGED <<arguments, patternAt, pathAt, starAt, resumeAt>>

\* (mutant: the star is not given one character more)
StuckStar ==
    /\ ~AtStar /\ ~AtMatch /\ patternAt < Len(pattern)
    /\ verdict' = "no match"
    /\ UNCHANGED <<arguments, patternAt, pathAt, starAt, resumeAt>>

Backtrack ==
    /\ ~AtStar /\ ~AtMatch /\ patternAt < Len(pattern)
    /\ IF starAt = 0 \/ resumeAt + 1 > Len(text)
       THEN /\ verdict' = "no match"
            /\ UNCHANGED <<patternAt, pathAt, resumeAt>>
       ELSE /\ resumeAt' = resumeAt + 1
            /\ patternAt' = starAt
            /\ pathAt' = resumeAt + 1
            /\ UNCHANGED verdict
    /\ UNCHANGED <<arguments, starAt>>

GlobBegin(p, t, a) ==
    /\ pattern = p /\ text = t /\ anchored = a
    /\ patternAt = 0 /\ pathAt = 0 /\ starAt = 0 /\ resumeAt = 0
    /\ verdict = "running"

GlobInit ==
    \E p \in SeqUpTo(Letter \cup {Star}, MaxPattern), t \in SeqUpTo(Letter, MaxText),
       a \in BOOLEAN : GlobBegin(p, t, a)

GlobNext == verdict = "running" /\ (TakeStar \/ Consume \/ Exhausted \/ Backtrack)

GlobSpec == GlobInit /\ [][GlobNext]_globVars

-----------------------------------------------------------------------------
(***************************************************************************)
(* What a pattern means, said without a matcher: Cuts(p, t, n) are the     *)
(* ways to cut the path t where each of the first n characters of p ends,  *)
(* a letter after one more character of t, which it equals, a star after   *)
(* any number more.  A pattern covers a path that can be cut so, if it is  *)
(* anchored with nothing left over.                                        *)
(***************************************************************************)
Cuts(p, t, n) ==
    {cut \in [0 .. n -> 0 .. Len(t)] :
        /\ cut[0] = 0
        /\ \A i \in 1 .. n :
              IF p[i] = Star THEN cut[i - 1] <= cut[i]
              ELSE cut[i] = cut[i - 1] + 1 /\ t[cut[i]] = p[i]}

Covers(p, t, a) == \E cut \in Cuts(p, t, Len(p)) : a => cut[Len(p)] = Len(t)

(***************************************************************************)
(* A path that glob_matches accepts is covered; without `$', or without a  *)
(* star, one it rejects is not.  (With both it can reject a path that is   *)
(* covered: it does not go back to the star once the pattern is exhausted, *)
(* so that `/*a$' does not match /aa.)                                     *)
(***************************************************************************)
GlobIsSound ==
    /\ verdict = "match" => Covers(pattern, text, anchored)
    /\ verdict = "no match" /\ (~anchored \/ \A i \in DOMAIN pattern : pattern[i] # Star)
           => ~Covers(pattern, text, anchored)
    /\ resumeAt <= pathAt /\ pathAt <= Len(text) /\ patternAt <= Len(pattern)

-----------------------------------------------------------------------------
(***************************************************************************)
(* The inductive invariant behind it.  The characters consumed are one way *)
(* to cut the path, and so are those up to the last star; and no way to    *)
(* cut the whole pattern is further left: greed loses nothing.             *)
(***************************************************************************)
GlobTypeOK ==
    /\ pattern \in Seq(Letter \cup {Star}) /\ text \in Seq(Letter)
    /\ anchored \in BOOLEAN
    /\ patternAt \in 0 .. Len(pattern) /\ pathAt \in 0 .. Len(text)
    /\ starAt \in 0 .. patternAt /\ resumeAt \in 0 .. pathAt
    /\ verdict \in {"running", "match", "no match"}

Reached ==
    /\ \E cut \in Cuts(pattern, text, patternAt) : cut[patternAt] = pathAt
    /\ \E cut \in Cuts(pattern, text, starAt) : cut[starAt] = resumeAt
    /\ IF starAt = 0 THEN resumeAt = 0 ELSE pattern[starAt] = Star

Leftmost ==
    \A cut \in Cuts(pattern, text, Len(pattern)) :
        /\ cut[starAt] >= resumeAt /\ cut[patternAt] >= pathAt
        /\ cut[starAt] = resumeAt => cut[patternAt] = pathAt

GlobIInv == GlobTypeOK /\ Reached /\ Leftmost /\ GlobIsSound
=============================================================================
