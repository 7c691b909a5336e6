----------------------------- MODULE PageProofs ------------------------------
(***************************************************************************)
(* What a page is made into, for any page, names and links: no boilerplate *)
(* in the content and no content lost, and links that are the anchors;     *)
(* what becomes of the links, for any URLs and flags: one URL of each      *)
(* document; and of its text: references decoded once, words kept.         *)
(***************************************************************************)
EXTENDS PageParser, UrlPolicy, Entities, FiniteSetTheorems, LoopTheorems

Names == Boilerplate \cup Plain
Token ==
    [kind : {"start", "end", "text", "link", "base", "meta"},
     what : Names \cup Href \cup BaseHref \cup {"body", "title", "description", "og"}]

PageTypeOK ==
    /\ tokens \in Seq(Token) /\ open \in Seq(Names) /\ skipDepth \in Nat
    /\ textAt \in Seq(DOMAIN tokens) /\ hrefs \in Seq(Href)
    /\ base \in BaseHref \cup {"none"}
    /\ {titleAt, description, ogDescription} \subseteq 0 .. Len(tokens)

-----------------------------------------------------------------------------
(* Pages as sequences: a page f of n tokens, about to see token n + 1 *)

\* How often a tag is among the first n.
CountIn(f, tag, n) == Cardinality({m \in 1 .. n : f[m] = tag})

\* Level and Inside, of any page.
LevelIn(f, name, i) ==
    CountIn(f, [kind |-> "start", what |-> name], i - 1)
        - CountIn(f, [kind |-> "end", what |-> name], i - 1)
StartsBoilerplate(f, j) == f[j].kind = "start" /\ f[j].what \in Boilerplate
InsideIn(f, i) ==
    {j \in 1 .. i - 1 :
        /\ StartsBoilerplate(f, j)
        /\ \A m \in j + 1 .. i : LevelIn(f, f[j].what, m) > LevelIn(f, f[j].what, j)}

\* Tags whose end skip_depth waits for: as many as it says, no fewer of a name
\* than are open, and each opens at most one level up from the one before it, so
\* that the end tag that is the last one's takes the level back to its own.
\* They are all that the next token can be inside of.
OpenAs(stack, name) == {k \in DOMAIN stack : stack[k] = name}
Waiting(f, due, name) == {j \in due : f[j].what = name}
Chained(f, n, due, name) ==
    \A j \in Waiting(f, due, name), p \in Waiting(f, due, name) \cup {n + 1} :
        j < p /\ (\A q \in Waiting(f, due, name) : q <= j \/ q >= p)
          => LevelIn(f, name, p) <= LevelIn(f, name, j) + 1
Due(f, n, stack, depth, due) ==
    /\ due \in SUBSET (1 .. n) /\ IsFiniteSet(due) /\ Cardinality(due) = depth
    /\ \A j \in due : StartsBoilerplate(f, j)
    /\ \A name \in Boilerplate :
          /\ Cardinality(OpenAs(stack, name)) <= Cardinality(Waiting(f, due, name))
          /\ Chained(f, n, due, name)
    /\ InsideIn(f, n + 1) \subseteq due

\* WellNested, of any page: what an end tag at i of a name must find.
Closes(f, i, name) ==
    \E j \in 1 .. i - 1 :
        /\ f[j] = [kind |-> "start", what |-> name]
        /\ \A other \in Names :
              /\ LevelIn(f, other, i) = LevelIn(f, other, j + 1)
              /\ \A m \in j + 1 .. i : LevelIn(f, other, m) >= LevelIn(f, other, j + 1)
NestedIn(f, n) == \A i \in 1 .. n : f[i].kind = "end" => Closes(f, i, f[i].what)

\* Where the open elements of a well nested page were opened, after a bottom that
\* stands for the page: each opened at the level its parent left, and no level
\* fell below that since.
At(place, k) == IF k = 0 THEN 0 ELSE place[k]
Opens(f, n, stack, depth, place) ==
    /\ place \in [DOMAIN stack -> 1 .. n]
    /\ \A k, l \in DOMAIN stack : k < l => place[k] < place[l]
    /\ \A k \in DOMAIN stack : f[place[k]] = [kind |-> "start", what |-> stack[k]]
    /\ \A name \in Names :
          /\ LevelIn(f, name, n + 1) = LevelIn(f, name, At(place, Len(stack)) + 1)
          /\ \A k \in DOMAIN stack :
                LevelIn(f, name, place[k]) = LevelIn(f, name, At(place, k - 1) + 1)
          /\ \A k \in 0 .. Len(stack) : \A m \in At(place, k) + 1 .. n + 1 :
                LevelIn(f, name, m) >= LevelIn(f, name, At(place, k) + 1)
    /\ depth = Cardinality({k \in DOMAIN stack : stack[k] \in Boilerplate})

\* The inductive invariant of the parser.
SkipCountsTheOpen ==
    \E due \in SUBSET (DOMAIN tokens) : Due(tokens, Len(tokens), open, skipDepth, due)
OpenIsUnclosed ==
    WellNested => \E place \in [DOMAIN open -> DOMAIN tokens] :
                      Opens(tokens, Len(tokens), open, skipDepth, place)
PageIInv == PageTypeOK /\ SkipCountsTheOpen /\ OpenIsUnclosed /\ TextIsContent

-----------------------------------------------------------------------------
(* Levels of a page that grows *)

\* A count as n grows by one.
LEMMA CountStep ==
    ASSUME NEW f, NEW tag, NEW j \in Nat
    PROVE  /\ CountIn(f, tag, j) \in Nat
           /\ CountIn(f, tag, j + 1) = CountIn(f, tag, j) + (IF f[j + 1] = tag THEN 1 ELSE 0)
<1> DEFINE S(n) == {m \in 1 .. n : f[m] = tag}
<1>1. IsFiniteSet(S(j))
  <2>1. S(j) \in SUBSET (1 .. j)
    OBVIOUS
  <2>2. IsFiniteSet(1 .. j)
    BY FS_Interval
  <2> HIDE DEF S
  <2> QED
    BY <2>1, <2>2, FS_Subset
<1>2. Cardinality(S(j)) \in Nat
  BY <1>1, FS_CardinalityType
<1>3. S(j + 1) = IF f[j + 1] = tag THEN S(j) \cup {j + 1} ELSE S(j)
  OBVIOUS
<1>4. j + 1 \notin S(j)
  OBVIOUS
<1>5. \A n \in Nat : CountIn(f, tag, n) = Cardinality(S(n))
  BY DEF CountIn
<1> HIDE DEF S
<1>6. Cardinality(S(j) \cup {j + 1}) = Cardinality(S(j)) + 1
  BY <1>1, <1>4, FS_AddElement
<1> QED
  BY <1>2, <1>3, <1>5, <1>6

\* A level is a number, none before the first token, and goes up and down by one.
Shift(token, name) ==
    IF token = [kind |-> "start", what |-> name] THEN 1
    ELSE IF token = [kind |-> "end", what |-> name] THEN -1 ELSE 0

LEMMA LevelSteps ==
    ASSUME NEW f, NEW name
    PROVE  /\ \A i \in Nat \ {0} : LevelIn(f, name, i) \in Int
           /\ LevelIn(f, name, 1) = 0
           /\ \A i \in Nat \ {0} : LevelIn(f, name, i + 1) = LevelIn(f, name, i) + Shift(f[i], name)
<1> DEFINE s == [kind |-> "start", what |-> name]
           e == [kind |-> "end", what |-> name]
<1>1. \A tag : \A n \in Nat :
          /\ CountIn(f, tag, n) \in Nat
          /\ CountIn(f, tag, n + 1) = CountIn(f, tag, n) + (IF f[n + 1] = tag THEN 1 ELSE 0)
  BY CountStep
<1>2. \A tag : CountIn(f, tag, 0) = 0
  <2>1. \A tag : {m \in 1 .. 0 : f[m] = tag} = {}
    OBVIOUS
  <2> QED
    BY <2>1, FS_EmptySet DEF CountIn
<1>3. s # e
  OBVIOUS
<1>4. \A i \in Nat \ {0} : LevelIn(f, name, i) = CountIn(f, s, i - 1) - CountIn(f, e, i - 1)
  BY DEF LevelIn
<1>5. \A i \in Nat \ {0} : Shift(f[i], name) = IF f[i] = s THEN 1 ELSE IF f[i] = e THEN -1 ELSE 0
  BY DEF Shift
<1> HIDE DEF s, e
<1> SUFFICES ASSUME NEW i \in Nat \ {0}
             PROVE  /\ LevelIn(f, name, i) \in Int
                    /\ LevelIn(f, name, i + 1) = LevelIn(f, name, i) + Shift(f[i], name)
  BY <1>2, <1>4
<1>6. i - 1 \in Nat /\ (i - 1) + 1 = i /\ i + 1 \in Nat \ {0} /\ (i + 1) - 1 = i
  OBVIOUS
<1>7. /\ LevelIn(f, name, i) = CountIn(f, s, i - 1) - CountIn(f, e, i - 1)
      /\ LevelIn(f, name, i + 1) = CountIn(f, s, i) - CountIn(f, e, i)
  BY <1>4, <1>6
<1>8. /\ CountIn(f, s, i - 1) \in Nat /\ CountIn(f, e, i - 1) \in Nat
      /\ CountIn(f, s, i) = CountIn(f, s, i - 1) + (IF f[i] = s THEN 1 ELSE 0)
      /\ CountIn(f, e, i) = CountIn(f, e, i - 1) + (IF f[i] = e THEN 1 ELSE 0)
  BY <1>1, <1>6
<1> QED
  BY <1>3, <1>5, <1>7, <1>8

LEMMA LevelStep ==
    ASSUME NEW f, NEW name, NEW i \in Nat \ {0}
    PROVE  LevelIn(f, name, i + 1) = LevelIn(f, name, i) + Shift(f[i], name)
BY LevelSteps

\* Levels do not depend on what comes later.
LEMMA LevelsStand ==
    ASSUME NEW f, NEW g, NEW name, NEW i \in Nat, \A m \in 1 .. i - 1 : f[m] = g[m]
    PROVE  LevelIn(f, name, i) = LevelIn(g, name, i)
<1>1. \A tag : {m \in 1 .. i - 1 : f[m] = tag} = {m \in 1 .. i - 1 : g[m] = tag}
  OBVIOUS
<1> QED
  BY <1>1 DEF LevelIn, CountIn

\* A page g is f and one token more.
Grown(f, g, n, token) == (\A m \in 1 .. n : g[m] = f[m]) /\ g[n + 1] = token

LEMMA LevelsKept ==
    ASSUME NEW f, NEW g, NEW n \in Nat, NEW token, NEW name, Grown(f, g, n, token)
    PROVE  \A i \in 1 .. n + 1 : LevelIn(g, name, i) = LevelIn(f, name, i)
<1> SUFFICES ASSUME NEW i \in 1 .. n + 1 PROVE LevelIn(g, name, i) = LevelIn(f, name, i)
  OBVIOUS
<1>1. i \in Nat /\ \A m \in 1 .. i - 1 : g[m] = f[m]
  BY DEF Grown
<1> QED
  BY <1>1, LevelsStand

LEMMA LevelShifts ==
    ASSUME NEW f, NEW g, NEW n \in Nat, NEW token, NEW name, Grown(f, g, n, token)
    PROVE  LevelIn(g, name, n + 2) = LevelIn(f, name, n + 1) + Shift(token, name)
<1>1. /\ \A i \in Nat \ {0} : LevelIn(g, name, i) \in Int
      /\ \A i \in Nat \ {0} : LevelIn(g, name, i + 1) = LevelIn(g, name, i) + Shift(g[i], name)
  BY LevelSteps
<1>2. n + 1 \in Nat \ {0} /\ n + 2 = (n + 1) + 1 /\ n + 1 \in 1 .. n + 1
  OBVIOUS
<1>3. LevelIn(g, name, n + 1) = LevelIn(f, name, n + 1)
  BY <1>2, LevelsKept
<1> QED
  BY <1>1, <1>2, <1>3 DEF Grown

LEMMA LevelsAreNumbers ==
    ASSUME NEW g, NEW n \in Nat, NEW name
    PROVE  \A i \in 1 .. n + 2 : LevelIn(g, name, i) \in Int
<1>1. \A i \in Nat \ {0} : LevelIn(g, name, i) \in Int
  BY LevelSteps
<1> QED
  BY <1>1

\* What a token is inside of, it was inside of one token before.
LEMMA GrownInside ==
    ASSUME NEW f, NEW g, NEW n \in Nat, NEW token, Grown(f, g, n, token)
    PROVE  /\ \A i \in 1 .. n + 1 : InsideIn(g, i) = InsideIn(f, i)
           /\ InsideIn(g, n + 2) \subseteq InsideIn(f, n + 1) \cup {n + 1}
           /\ \A j \in InsideIn(g, n + 2) :
                 /\ StartsBoilerplate(g, j)
                 /\ LevelIn(g, g[j].what, n + 2) > LevelIn(g, g[j].what, j)
<1>1. \A name : \A i \in 1 .. n + 1 : LevelIn(g, name, i) = LevelIn(f, name, i)
  BY LevelsKept
<1>2. \A j \in 1 .. n : g[j] = f[j] /\ (StartsBoilerplate(g, j) <=> StartsBoilerplate(f, j))
  BY DEF Grown, StartsBoilerplate
<1>3. ASSUME NEW i \in 1 .. n + 1 PROVE InsideIn(g, i) = InsideIn(f, i)
  <2>1. ASSUME NEW j \in 1 .. i - 1 PROVE j \in InsideIn(g, i) <=> j \in InsideIn(f, i)
    <3>1. j \in 1 .. n /\ j \in 1 .. n + 1 /\ \A m \in j + 1 .. i : m \in 1 .. n + 1
      OBVIOUS
    <3>2. LevelIn(g, f[j].what, j) = LevelIn(f, f[j].what, j)
      BY <1>1, <3>1
    <3>3. \A m \in j + 1 .. i : LevelIn(g, f[j].what, m) = LevelIn(f, f[j].what, m)
      BY <1>1, <3>1
    <3> QED
      BY <1>2, <3>1, <3>2, <3>3 DEF InsideIn
  <2> QED
    BY <2>1 DEF InsideIn
<1>4. ASSUME NEW j \in InsideIn(g, n + 2)
      PROVE  /\ j \in InsideIn(g, n + 1) \cup {n + 1}
             /\ StartsBoilerplate(g, j)
             /\ LevelIn(g, g[j].what, n + 2) > LevelIn(g, g[j].what, j)
  <2>1. /\ j \in 1 .. n + 1 /\ StartsBoilerplate(g, j)
        /\ \A m \in j + 1 .. n + 2 : LevelIn(g, g[j].what, m) > LevelIn(g, g[j].what, j)
    BY DEF InsideIn
  <2>2. n + 2 \in j + 1 .. n + 2 /\ \A m \in j + 1 .. n + 1 : m \in j + 1 .. n + 2
    BY <2>1
  <2>3. j = n + 1 \/ j \in 1 .. (n + 1) - 1
    BY <2>1
  <2> QED
    BY <2>1, <2>2, <2>3 DEF InsideIn
<1>5. n + 1 \in 1 .. n + 1
  OBVIOUS
<1> QED
  BY <1>3, <1>4, <1>5

\* A set of places and what is left of it, counted.
LEMMA CountedPlaces ==
    ASSUME NEW n \in Nat, NEW S \in SUBSET (1 .. n)
    PROVE  /\ IsFiniteSet(S) /\ Cardinality(S) \in Nat
           /\ \A T \in SUBSET S : IsFiniteSet(T) /\ Cardinality(T) <= Cardinality(S)
           /\ \A x \in S : Cardinality(S \ {x}) = Cardinality(S) - 1
           /\ \A x : x \notin S => Cardinality(S \cup {x}) = Cardinality(S) + 1
           /\ Cardinality(S) = 0 <=> S = {}
<1>1. IsFiniteSet(1 .. n)
  BY FS_Interval
<1>2. IsFiniteSet(S)
  BY <1>1, FS_Subset
<1>3. Cardinality(S) \in Nat
  BY <1>2, FS_CardinalityType
<1>4. \A T \in SUBSET S : IsFiniteSet(T) /\ Cardinality(T) <= Cardinality(S)
  BY <1>2, FS_Subset
<1>5. \A x \in S : Cardinality(S \ {x}) = Cardinality(S) - 1
  BY <1>2, FS_RemoveElement
<1>6. \A x : x \notin S => Cardinality(S \cup {x}) = Cardinality(S) + 1
  BY <1>2, FS_AddElement
<1>7. Cardinality(S) = 0 <=> S = {}
  BY <1>2, FS_EmptySet
<1> QED
  BY <1>2, <1>3, <1>4, <1>5, <1>6, <1>7

-----------------------------------------------------------------------------
(* What skip_depth waits for *)

\* A token that raises no level of boilerplate, while no more of it is open, leaves
\* what is waited for as it is.
LEMMA DueStays ==
    ASSUME NEW f, NEW g, NEW n \in Nat, NEW token, Grown(f, g, n, token),
           NEW stack, NEW rest, NEW depth, NEW due, Due(f, n, stack, depth, due),
           \A name \in Boilerplate : Shift(token, name) \in {0, -1},
           \A name \in Boilerplate :
               Cardinality(OpenAs(rest, name)) <= Cardinality(OpenAs(stack, name)),
           \A name \in Boilerplate :
               {Cardinality(OpenAs(rest, name)), Cardinality(OpenAs(stack, name))} \subseteq Nat,
           ~(token.kind = "start" /\ token.what \in Boilerplate)
    PROVE  Due(g, n + 1, rest, depth, due)
<1>1. /\ due \in SUBSET (1 .. n) /\ IsFiniteSet(due) /\ Cardinality(due) = depth
      /\ \A j \in due : StartsBoilerplate(f, j)
      /\ InsideIn(f, n + 1) \subseteq due
  BY DEF Due
<1>2. /\ \A m \in 1 .. n : g[m] = f[m]
      /\ g[n + 1] = token
      /\ \A j \in due : StartsBoilerplate(g, j)
      /\ ~StartsBoilerplate(g, n + 1)
  BY <1>1 DEF Grown, StartsBoilerplate
<1>3. due \in SUBSET (1 .. n + 1)
  BY <1>1
<1>4. ASSUME NEW name \in Boilerplate
      PROVE  /\ Cardinality(OpenAs(rest, name)) <= Cardinality(Waiting(g, due, name))
             /\ Chained(g, n + 1, due, name)
  <2>1. Waiting(g, due, name) = Waiting(f, due, name)
    BY <1>1, <1>2 DEF Waiting
  <2>2. Waiting(f, due, name) \in SUBSET (1 .. n)
    BY <1>1 DEF Waiting
  <2>3. Cardinality(OpenAs(stack, name)) <= Cardinality(Waiting(f, due, name))
    BY DEF Due
  <2>4. Cardinality(Waiting(f, due, name)) \in Nat
    BY <2>2, CountedPlaces
  <2>5. Cardinality(OpenAs(rest, name)) <= Cardinality(Waiting(g, due, name))
    BY <2>1, <2>3, <2>4
  <2>6. \A i \in 1 .. n + 1 : LevelIn(g, name, i) = LevelIn(f, name, i)
    BY LevelsKept
  <2>6a. \A i \in 1 .. n + 2 : LevelIn(g, name, i) \in Int
    BY LevelsAreNumbers
  <2>6b. LevelIn(g, name, n + 2) = LevelIn(f, name, n + 1) + Shift(token, name)
    BY LevelShifts
  <2>7. Chained(f, n, due, name)
    BY DEF Due
  <2> DEFINE W == Waiting(f, due, name)
  <2>8. ASSUME NEW j \in W, NEW p \in W \cup {n + 2}, j < p, \A q \in W : q <= j \/ q >= p
        PROVE  LevelIn(g, name, p) <= LevelIn(g, name, j) + 1
    <3>1. j \in 1 .. n /\ j \in 1 .. n + 1 /\ n + 1 \in 1 .. n + 1 /\ n + 1 \in 1 .. n + 2
      BY <2>2
    <3>2. LevelIn(g, name, j) = LevelIn(f, name, j) /\ LevelIn(g, name, j) \in Int
      BY <2>6, <2>6a, <3>1
    <3>3. CASE p = n + 2
      <4>1. \A q \in W : q <= j \/ q >= n + 1
        BY <2>2, <2>8, <3>3
      <4>2. LevelIn(f, name, n + 1) <= LevelIn(f, name, j) + 1
        BY <2>7, <3>1, <4>1 DEF Chained
      <4>3. LevelIn(f, name, n + 1) \in Int
        BY <2>6, <2>6a, <3>1
      <4> QED
        BY <2>6a, <2>6b, <3>2, <3>3, <4>2, <4>3
    <3>4. CASE p \in W
      <4>1. LevelIn(f, name, p) <= LevelIn(f, name, j) + 1
        BY <2>7, <2>8, <3>4 DEF Chained
      <4>2. p \in 1 .. n + 1
        BY <2>2, <3>4
      <4> QED
        BY <2>6, <3>2, <4>1, <4>2
    <3> QED
      BY <3>3, <3>4
  <2>9. n + 2 = (n + 1) + 1
    OBVIOUS
  <2>10. Chained(g, n + 1, due, name)
    BY <2>1, <2>8, <2>9 DEF Chained
  <2> QED
    BY <2>5, <2>10
<1>5. InsideIn(g, (n + 1) + 1) \subseteq due
  <2>1. InsideIn(g, n + 2) \subseteq due
    BY <1>1, <1>2, GrownInside
  <2> QED
    BY <2>1
<1> QED
  BY <1>1, <1>2, <1>3, <1>4, <1>5 DEF Due

\* The start tag of a boilerplate element: one more to wait for.
LEMMA DueStarts ==
    ASSUME NEW f, NEW g, NEW n \in Nat, NEW own \in Boilerplate,
           Grown(f, g, n, [kind |-> "start", what |-> own]),
           NEW depth \in Nat, NEW stack \in Seq(Names), NEW due, Due(f, n, stack, depth, due)
    PROVE  Due(g, n + 1, Append(stack, own), depth + 1, due \cup {n + 1})
<1> DEFINE token == [kind |-> "start", what |-> own]
           all == due \cup {n + 1}
<1>1. /\ due \in SUBSET (1 .. n) /\ IsFiniteSet(due) /\ Cardinality(due) = depth
      /\ \A j \in due : StartsBoilerplate(f, j)
      /\ InsideIn(f, n + 1) \subseteq due
  BY DEF Due
<1>2. /\ \A m \in 1 .. n : g[m] = f[m]
      /\ g[n + 1] = token /\ g[n + 1].what = own
      /\ \A j \in all : StartsBoilerplate(g, j)
  BY <1>1 DEF Grown, StartsBoilerplate
<1>3. all \in SUBSET (1 .. n + 1) /\ n + 1 \notin due
  BY <1>1
<1>4. IsFiniteSet(all) /\ Cardinality(all) = depth + 1
  BY <1>1, <1>3, FS_AddElement
<1>5. \A name \in Boilerplate : Shift(token, name) = IF name = own THEN 1 ELSE 0
  BY DEF Shift
<1>6. PICK size \in Nat : size = Len(stack) /\ DOMAIN stack = 1 .. size
  OBVIOUS
<1>7. ASSUME NEW name \in Boilerplate
      PROVE  /\ Cardinality(OpenAs(Append(stack, own), name)) <= Cardinality(Waiting(g, all, name))
             /\ Chained(g, n + 1, all, name)
  <2> DEFINE W == Waiting(f, due, name)
             V == Waiting(g, all, name)
  <2>1. V = IF name = own THEN W \cup {n + 1} ELSE W
    BY <1>1, <1>2 DEF Waiting
  <2>2. W \in SUBSET (1 .. n)
    BY <1>1 DEF Waiting
  <2>3. OpenAs(Append(stack, own), name)
          = IF name = own THEN OpenAs(stack, name) \cup {size + 1} ELSE OpenAs(stack, name)
    BY <1>6 DEF OpenAs
  <2>4. OpenAs(stack, name) \in SUBSET (1 .. size) /\ size + 1 \notin OpenAs(stack, name)
    BY <1>6 DEF OpenAs
  <2>5. Cardinality(OpenAs(stack, name)) <= Cardinality(W) /\ Chained(f, n, due, name)
    BY DEF Due
  <2>6. \A i \in 1 .. n + 1 : LevelIn(g, name, i) = LevelIn(f, name, i)
    BY LevelsKept
  <2>7. \A i \in 1 .. n + 2 : LevelIn(g, name, i) \in Int
    BY LevelsAreNumbers
  <2>8. LevelIn(g, name, n + 2) = LevelIn(f, name, n + 1) + Shift(token, name)
    BY LevelShifts
  <2> HIDE DEF W, V, token, all
  <2>9. Cardinality(OpenAs(Append(stack, own), name)) <= Cardinality(V)
    <3>1. /\ Cardinality(OpenAs(stack, name)) \in Nat
          /\ Cardinality(OpenAs(stack, name) \cup {size + 1}) = Cardinality(OpenAs(stack, name)) + 1
      BY <2>4, CountedPlaces
    <3>2. Cardinality(W) \in Nat /\ Cardinality(W \cup {n + 1}) = Cardinality(W) + 1
      <4>1. n + 1 \notin W
        BY <2>2
      <4> QED
        BY <2>2, <4>1, CountedPlaces
    <3> QED
      BY <2>1, <2>3, <2>5, <3>1, <3>2
  <2>10. ASSUME NEW j \in V, NEW p \in V \cup {n + 2}, j < p, \A q \in V : q <= j \/ q >= p
         PROVE  LevelIn(g, name, p) <= LevelIn(g, name, j) + 1
    <3>1. j \in 1 .. n + 1 /\ n + 1 \in 1 .. n + 1 /\ n + 1 \in 1 .. n + 2
      BY <2>1, <2>2
    <3>2. LevelIn(g, name, j) = LevelIn(f, name, j) /\ LevelIn(g, name, j) \in Int
      BY <2>6, <2>7, <3>1
    <3>3. LevelIn(f, name, n + 1) \in Int
      BY <2>6, <2>7, <3>1
    <3>4. CASE p = n + 2 /\ name = own
      <4>1. j = n + 1
        BY <2>1, <2>10, <3>1, <3>4
      <4> QED
        BY <1>5, <2>8, <3>2, <3>3, <3>4, <4>1
    <3>5. CASE p = n + 2 /\ name # own
      <4>1. j \in W /\ j < n + 1 /\ \A q \in W : q <= j \/ q >= n + 1
        BY <2>1, <2>2, <2>10, <3>5
      <4>2. LevelIn(f, name, n + 1) <= LevelIn(f, name, j) + 1
        BY <2>5, <4>1 DEF Chained, W
      <4> QED
        BY <1>5, <2>8, <3>2, <3>3, <3>5, <4>2
    <3>6. CASE p # n + 2
      <4>1. p \in V /\ p \in W \cup {n + 1} /\ p \in 1 .. n + 1
        BY <2>1, <2>2, <3>6
      <4>2. j \in W /\ \A q \in W : q <= j \/ q >= p
        BY <2>1, <2>2, <2>10, <4>1
      <4>3. LevelIn(f, name, p) <= LevelIn(f, name, j) + 1
        BY <2>5, <2>10, <4>1, <4>2 DEF Chained, W
      <4> QED
        BY <2>6, <3>2, <4>1, <4>3
    <3> QED
      BY <3>4, <3>5, <3>6
  <2>11. n + 2 = (n + 1) + 1
    OBVIOUS
  <2>12. Chained(g, n + 1, all, name)
    BY <2>10, <2>11 DEF Chained, V
  <2> QED
    BY <2>9, <2>12 DEF V
<1>8. InsideIn(g, (n + 1) + 1) \subseteq all
  <2>1. InsideIn(g, n + 2) \subseteq all
    BY <1>1, GrownInside
  <2> QED
    BY <2>1
<1> HIDE DEF token, all
<1>9. Due(g, n + 1, Append(stack, own), depth + 1, all)
  BY <1>2, <1>3, <1>4, <1>7, <1>8 DEF Due
<1> QED
  BY <1>9 DEF all

\* The end tag of one that is open: the last of its name is waited for no longer,
\* and nothing is inside it any more.
LEMMA DueEnds ==
    ASSUME NEW f, NEW g, NEW n \in Nat, NEW own \in Boilerplate,
           Grown(f, g, n, [kind |-> "end", what |-> own]),
           NEW depth \in Nat, NEW stack \in Seq(Names), NEW due, Due(f, n, stack, depth, due),
           NEW rest, NEW last \in OpenAs(stack, own),
           OpenAs(rest, own) \subseteq OpenAs(stack, own) \ {last},
           \A name \in Boilerplate : OpenAs(rest, name) \subseteq OpenAs(stack, name)
    PROVE  \E left \in SUBSET (1 .. n) : depth > 0 /\ Due(g, n + 1, rest, depth - 1, left)
<1> DEFINE token == [kind |-> "end", what |-> own]
           W == Waiting(f, due, own)
<1>1. /\ due \in SUBSET (1 .. n) /\ IsFiniteSet(due) /\ Cardinality(due) = depth
      /\ \A j \in due : StartsBoilerplate(f, j)
      /\ InsideIn(f, n + 1) \subseteq due
  BY DEF Due
<1>2. PICK size \in Nat : size = Len(stack) /\ DOMAIN stack = 1 .. size
  OBVIOUS
<1>3. \A name : OpenAs(stack, name) \in SUBSET (1 .. size)
  BY <1>2 DEF OpenAs
<1>4. W \in SUBSET (1 .. n) /\ W \subseteq due
  BY <1>1 DEF Waiting
<1>5. Cardinality(W) \in Nat /\ W # {}
  <2>1. Cardinality(OpenAs(stack, own)) \in Nat /\ Cardinality(OpenAs(stack, own)) # 0
    BY <1>3, CountedPlaces
  <2>2. Cardinality(OpenAs(stack, own)) <= Cardinality(W)
    BY DEF Due
  <2>3. Cardinality(W) \in Nat /\ (Cardinality(W) = 0 <=> W = {})
    BY <1>4, CountedPlaces
  <2> QED
    BY <2>1, <2>2, <2>3
<1>6. PICK top \in W : \A q \in W : q <= top
  <2> HIDE DEF W
  <2>1. W \subseteq 0 .. n
    BY <1>4
  <2> QED
    BY <1>5, <2>1, GreatestOf
<1> DEFINE left == due \ {top}
<1>7. left \in SUBSET (1 .. n) /\ top \in due /\ top \in 1 .. n
  BY <1>1, <1>4
<1>8. IsFiniteSet(left) /\ Cardinality(left) = depth - 1 /\ depth > 0
  <2>1. Cardinality(due) # 0
    BY <1>1, <1>7, FS_EmptySet
  <2>2. IsFiniteSet(left) /\ Cardinality(left) = Cardinality(due) - 1
    <3> HIDE DEF W
    <3> QED
      BY <1>1, <1>7, FS_RemoveElement
  <2> QED
    BY <1>1, <2>1, <2>2
<1>9. /\ \A m \in 1 .. n : g[m] = f[m]
      /\ g[n + 1] = token
      /\ \A j \in due : StartsBoilerplate(g, j)
      /\ ~StartsBoilerplate(g, n + 1)
  BY <1>1 DEF Grown, StartsBoilerplate
<1>10. \A name : Shift(token, name) = IF name = own THEN -1 ELSE 0
  <2>1. \A name : /\ token # [kind |-> "start", what |-> name]
                  /\ token = [kind |-> "end", what |-> name] <=> name = own
    OBVIOUS
  <2> HIDE DEF token
  <2> QED
    BY <2>1 DEF Shift
<1>11. ASSUME NEW name \in Boilerplate
       PROVE  /\ Cardinality(OpenAs(rest, name)) <= Cardinality(Waiting(g, left, name))
              /\ Chained(g, n + 1, left, name)
  <2> DEFINE U == Waiting(f, due, name)
             V == Waiting(g, left, name)
  <2>1. V = IF name = own THEN U \ {top} ELSE U
    BY <1>4, <1>7, <1>9 DEF Waiting
  <2>2. U \in SUBSET (1 .. n) /\ (name = own => U = W)
    BY <1>1 DEF Waiting
  <2>3. Cardinality(OpenAs(stack, name)) <= Cardinality(U) /\ Chained(f, n, due, name)
    BY DEF Due
  <2>4. \A i \in 1 .. n + 1 : LevelIn(g, name, i) = LevelIn(f, name, i)
    BY LevelsKept
  <2>5. \A i \in 1 .. n + 2 : LevelIn(g, name, i) \in Int
    BY LevelsAreNumbers
  <2>6. LevelIn(g, name, n + 2) = LevelIn(f, name, n + 1) + Shift(token, name)
    BY LevelShifts
  <2> HIDE DEF W, U, V, token, left
  <2>7. Cardinality(OpenAs(rest, name)) <= Cardinality(V)
    <3>1. Cardinality(U) \in Nat /\ (name = own => Cardinality(U \ {top}) = Cardinality(U) - 1)
      BY <1>6, <2>2, CountedPlaces
    <3>2. OpenAs(stack, name) \in SUBSET (1 .. size)
      BY <1>3
    <3>3. /\ Cardinality(OpenAs(stack, name)) \in Nat
          /\ \A T \in SUBSET OpenAs(stack, name) :
                IsFiniteSet(T) /\ Cardinality(T) <= Cardinality(OpenAs(stack, name))
      BY <3>2, CountedPlaces
    <3>4. Cardinality(OpenAs(rest, name)) \in Nat
      BY <3>3, FS_CardinalityType
    <3>5. CASE name = own
      <4>1. last \in OpenAs(stack, name) /\ OpenAs(rest, name) \subseteq OpenAs(stack, name) \ {last}
        BY <3>5
      <4>2. Cardinality(OpenAs(stack, name) \ {last}) = Cardinality(OpenAs(stack, name)) - 1
        BY <3>2, <4>1, CountedPlaces
      <4>3. OpenAs(stack, name) \ {last} \in SUBSET (1 .. size)
        BY <3>2
      <4>4. Cardinality(OpenAs(rest, name)) <= Cardinality(OpenAs(stack, name) \ {last})
        BY <4>1, <4>3, CountedPlaces
      <4> QED
        BY <2>1, <2>3, <3>1, <3>3, <3>4, <3>5, <4>2, <4>4
    <3>6. CASE name # own
      <4>1. Cardinality(OpenAs(rest, name)) <= Cardinality(OpenAs(stack, name))
        BY <3>3
      <4> QED
        BY <2>1, <2>3, <3>1, <3>3, <3>4, <3>6, <4>1
    <3> QED
      BY <3>5, <3>6
  <2>8. ASSUME NEW j \in V, NEW p \in V \cup {n + 2}, j < p, \A q \in V : q <= j \/ q >= p
        PROVE  LevelIn(g, name, p) <= LevelIn(g, name, j) + 1
    <3>1. j \in U /\ j \in 1 .. n /\ j \in 1 .. n + 1 /\ n + 1 \in 1 .. n + 1 /\ n + 1 \in 1 .. n + 2
      BY <2>1, <2>2
    <3>2. LevelIn(g, name, j) = LevelIn(f, name, j) /\ LevelIn(g, name, j) \in Int
      BY <2>4, <2>5, <3>1
    <3>3. LevelIn(f, name, n + 1) \in Int
      BY <2>4, <2>5, <3>1
    <3>4. CASE p = n + 2 /\ name = own
      <4>1. top \in U /\ top \in 1 .. n + 1 /\ top \in 1 .. n /\ j < top
        BY <1>6, <1>7, <2>1, <2>2, <3>1, <3>4
      <4>2. \A q \in U : q <= j \/ q >= top
        BY <2>1, <2>2, <2>8, <3>4
      <4>3. LevelIn(f, name, top) <= LevelIn(f, name, j) + 1
        BY <2>3, <3>1, <4>1, <4>2 DEF Chained, U
      <4>4. \A q \in U : q <= top \/ q >= n + 1
        BY <1>6, <2>2, <3>4
      <4>5. LevelIn(f, name, n + 1) <= LevelIn(f, name, top) + 1
        BY <2>3, <4>1, <4>4 DEF Chained, U
      <4>6. LevelIn(f, name, top) \in Int
        BY <2>4, <2>5, <4>1
      <4> QED
        BY <1>10, <2>6, <3>2, <3>3, <3>4, <4>3, <4>5, <4>6
    <3>5. CASE p = n + 2 /\ name # own
      <4>1. \A q \in U : q <= j \/ q >= n + 1
        BY <2>1, <2>2, <2>8, <3>5
      <4>2. LevelIn(f, name, n + 1) <= LevelIn(f, name, j) + 1
        BY <2>3, <3>1, <4>1 DEF Chained, U
      <4> QED
        BY <1>10, <2>6, <3>2, <3>3, <3>5, <4>2
    <3>6. CASE p # n + 2
      <4>1. p \in V /\ p \in U /\ p \in 1 .. n /\ p \in 1 .. n + 1
        BY <2>1, <2>2, <3>6
      <4>2. \A q \in U : q <= j \/ q >= p
        BY <1>6, <2>1, <2>2, <2>8, <4>1
      <4>3. LevelIn(f, name, p) <= LevelIn(f, name, j) + 1
        BY <2>3, <2>8, <3>1, <4>1, <4>2 DEF Chained, U
      <4> QED
        BY <2>4, <3>2, <4>1, <4>3
    <3> QED
      BY <3>4, <3>5, <3>6
  <2>9. n + 2 = (n + 1) + 1
    OBVIOUS
  <2>10. Chained(g, n + 1, left, name)
    BY <2>8, <2>9 DEF Chained, V
  <2> QED
    BY <2>7, <2>10 DEF V
<1>12. InsideIn(g, (n + 1) + 1) \subseteq left
  <2>1. InsideIn(g, n + 2) \subseteq due
    BY <1>1, <1>9, GrownInside
  <2>2. top \notin InsideIn(g, n + 2)
    <3>1. g[top].what = own
      BY <1>4, <1>7, <1>9 DEF Waiting
    <3>2. Chained(f, n, due, own)
      BY DEF Due
    <3>3. top < n + 1 /\ \A q \in W : q <= top \/ q >= n + 1
      BY <1>6, <1>7
    <3>4. LevelIn(f, own, n + 1) <= LevelIn(f, own, top) + 1
      BY <3>2, <3>3 DEF Chained
    <3>5. \A i \in 1 .. n + 1 : LevelIn(g, own, i) = LevelIn(f, own, i)
      BY LevelsKept
    <3>6. \A i \in 1 .. n + 2 : LevelIn(g, own, i) \in Int
      BY LevelsAreNumbers
    <3>7. LevelIn(g, own, n + 2) = LevelIn(f, own, n + 1) + Shift(token, own)
      BY LevelShifts
    <3> HIDE DEF W, token
    <3>8. LevelIn(g, own, top) = LevelIn(f, own, top) /\ LevelIn(g, own, top) \in Int
      BY <1>7, <3>5, <3>6
    <3>9. LevelIn(f, own, n + 1) \in Int
      BY <3>5, <3>6
    <3>10. LevelIn(g, own, n + 2) <= LevelIn(g, own, top)
      BY <1>10, <3>4, <3>7, <3>8, <3>9
    <3>11. \A i \in InsideIn(g, n + 2) : LevelIn(g, g[i].what, n + 2) > LevelIn(g, g[i].what, i)
      BY GrownInside
    <3>12. LevelIn(g, own, n + 2) \in Int
      BY <3>6
    <3> QED
      BY <3>1, <3>8, <3>10, <3>11, <3>12
  <2> QED
    BY <2>1, <2>2
<1> HIDE DEF token, left, W
<1>13. \A j \in left : StartsBoilerplate(g, j)
  BY <1>9 DEF left
<1>14. left \in SUBSET (1 .. n + 1)
  BY <1>7
<1> QED
  BY <1>7, <1>8, <1>11, <1>12, <1>13, <1>14 DEF Due

-----------------------------------------------------------------------------
(* What is open on a well nested page *)

\* A token that shifts no level.
LEMMA OpensStays ==
    ASSUME NEW f, NEW g, NEW n \in Nat, NEW token, Grown(f, g, n, token),
           \A name \in Names : Shift(token, name) = 0,
           NEW stack \in Seq(Names), NEW depth, NEW place, Opens(f, n, stack, depth, place)
    PROVE  Opens(g, n + 1, stack, depth, place)
<1>1. PICK size \in Nat : size = Len(stack) /\ DOMAIN stack = 1 .. size
  OBVIOUS
<1>2. /\ place \in [DOMAIN stack -> 1 .. n]
      /\ \A k, l \in DOMAIN stack : k < l => place[k] < place[l]
      /\ \A k \in DOMAIN stack : f[place[k]] = [kind |-> "start", what |-> stack[k]]
      /\ depth = Cardinality({k \in DOMAIN stack : stack[k] \in Boilerplate})
  BY DEF Opens
<1>3. \A k \in DOMAIN stack : g[place[k]] = [kind |-> "start", what |-> stack[k]]
  BY <1>2 DEF Grown
<1>4. \A k \in 0 .. size : At(place, k) \in 0 .. n
  BY <1>1, <1>2 DEF At
<1>5. ASSUME NEW name \in Names
      PROVE  /\ LevelIn(g, name, (n + 1) + 1) = LevelIn(g, name, At(place, size) + 1)
             /\ \A k \in 1 .. size : LevelIn(g, name, place[k]) = LevelIn(g, name, At(place, k - 1) + 1)
             /\ \A k \in 0 .. size : \A m \in At(place, k) + 1 .. (n + 1) + 1 :
                   LevelIn(g, name, m) >= LevelIn(g, name, At(place, k) + 1)
  <2>1. \A i \in 1 .. n + 1 : LevelIn(g, name, i) = LevelIn(f, name, i)
    BY LevelsKept
  <2>2. LevelIn(g, name, n + 2) = LevelIn(f, name, n + 1)
    <3>1. LevelIn(g, name, n + 2) = LevelIn(f, name, n + 1) + Shift(token, name)
      BY LevelShifts
    <3>2. \A i \in 1 .. n + 2 : LevelIn(g, name, i) \in Int
      BY LevelsAreNumbers
    <3>3. LevelIn(f, name, n + 1) \in Int
      BY <2>1, <3>2
    <3> QED
      BY <3>1, <3>3
  <2>3. /\ LevelIn(f, name, n + 1) = LevelIn(f, name, At(place, size) + 1)
        /\ \A k \in 1 .. size : LevelIn(f, name, place[k]) = LevelIn(f, name, At(place, k - 1) + 1)
        /\ \A k \in 0 .. size : \A m \in At(place, k) + 1 .. n + 1 :
              LevelIn(f, name, m) >= LevelIn(f, name, At(place, k) + 1)
    BY <1>1 DEF Opens
  <2>4. \A k \in 0 .. size : At(place, k) + 1 \in 1 .. n + 1
    BY <1>4
  <2>5. \A k \in 1 .. size : k - 1 \in 0 .. size /\ place[k] \in 1 .. n + 1
    BY <1>1, <1>2
  <2>6. n + 2 = (n + 1) + 1
    OBVIOUS
  <2>7. LevelIn(g, name, (n + 1) + 1) = LevelIn(g, name, At(place, size) + 1)
    BY <2>1, <2>2, <2>3, <2>4, <2>6
  <2>8. \A k \in 1 .. size : LevelIn(g, name, place[k]) = LevelIn(g, name, At(place, k - 1) + 1)
    BY <2>1, <2>3, <2>4, <2>5
  <2>9. ASSUME NEW k \in 0 .. size, NEW m \in At(place, k) + 1 .. (n + 1) + 1
        PROVE  LevelIn(g, name, m) >= LevelIn(g, name, At(place, k) + 1)
    <3>1. At(place, k) \in 0 .. n
      BY <1>4
    <3>2. m \in At(place, k) + 1 .. n + 1 \/ m = n + 2
      BY <3>1
    <3>3. n + 1 \in At(place, k) + 1 .. n + 1
      BY <3>1
    <3>4. \A i \in At(place, k) + 1 .. n + 1 : i \in 1 .. n + 1
      BY <3>1
    <3>5. LevelIn(g, name, At(place, k) + 1) = LevelIn(f, name, At(place, k) + 1)
      BY <2>1, <2>4
    <3>6. CASE m \in At(place, k) + 1 .. n + 1
      BY <2>1, <2>3, <3>4, <3>5, <3>6
    <3>7. CASE m = n + 2
      BY <2>2, <2>3, <3>3, <3>5, <3>7
    <3> QED
      BY <3>2, <3>6, <3>7
  <2> QED
    BY <2>7, <2>8, <2>9
<1>6. place \in [DOMAIN stack -> 1 .. n + 1]
  BY <1>2
<1> QED
  BY <1>1, <1>2, <1>3, <1>5, <1>6 DEF Opens

\* A start tag.
LEMMA OpensStarts ==
    ASSUME NEW f, NEW g, NEW n \in Nat, NEW own \in Names,
           Grown(f, g, n, [kind |-> "start", what |-> own]),
           NEW stack \in Seq(Names), NEW depth \in Nat, NEW place, Opens(f, n, stack, depth, place)
    PROVE  \E longer : Opens(g, n + 1, Append(stack, own),
                             IF own \in Boilerplate THEN depth + 1 ELSE depth, longer)
<1>1. PICK size \in Nat : size = Len(stack) /\ DOMAIN stack = 1 .. size
  OBVIOUS
<1> DEFINE token == [kind |-> "start", what |-> own]
           longer == [k \in 1 .. size + 1 |-> IF k = size + 1 THEN n + 1 ELSE place[k]]
<1>2. PICK more \in Seq(Names) : more = Append(stack, own)
  <2>1. Append(stack, own) \in Seq(Names)
    OBVIOUS
  <2> QED
    BY <2>1
<1>3. /\ Len(more) = size + 1 /\ DOMAIN more = 1 .. size + 1
      /\ more[size + 1] = own /\ \A k \in 1 .. size : more[k] = stack[k]
  BY <1>1, <1>2
<1>4. /\ place \in [1 .. size -> 1 .. n]
      /\ \A k, l \in 1 .. size : k < l => place[k] < place[l]
      /\ \A k \in 1 .. size : f[place[k]] = [kind |-> "start", what |-> stack[k]]
      /\ depth = Cardinality({k \in DOMAIN stack : stack[k] \in Boilerplate})
  BY <1>1 DEF Opens
<1>5. /\ longer \in [1 .. size + 1 -> 1 .. n + 1]
      /\ longer[size + 1] = n + 1 /\ \A k \in 1 .. size : longer[k] = place[k]
  BY <1>4
<1> HIDE DEF longer
<1>6. \A k, l \in 1 .. size + 1 : k < l => longer[k] < longer[l]
  <2> SUFFICES ASSUME NEW k \in 1 .. size + 1, NEW l \in 1 .. size + 1, k < l
               PROVE  longer[k] < longer[l]
    OBVIOUS
  <2>1. k \in 1 .. size
    BY <1>1
  <2>2. longer[k] \in 1 .. n
    BY <1>4, <1>5, <2>1
  <2>3. CASE l = size + 1
    BY <1>5, <2>2, <2>3
  <2>4. CASE l # size + 1
    <3>1. l \in 1 .. size
      BY <2>4
    <3> QED
      BY <1>4, <1>5, <2>1, <3>1
  <2> QED
    BY <2>3, <2>4
<1>7. \A k \in 1 .. size + 1 : g[longer[k]] = [kind |-> "start", what |-> more[k]]
  <2> SUFFICES ASSUME NEW k \in 1 .. size + 1
               PROVE  g[longer[k]] = [kind |-> "start", what |-> more[k]]
    OBVIOUS
  <2>1. CASE k = size + 1
    BY <1>3, <1>5, <2>1 DEF Grown
  <2>2. CASE k \in 1 .. size
    <3>1. longer[k] = place[k] /\ place[k] \in 1 .. n /\ more[k] = stack[k]
      BY <1>3, <1>4, <1>5, <2>2
    <3>2. g[place[k]] = f[place[k]]
      BY <3>1 DEF Grown
    <3> QED
      BY <1>4, <2>2, <3>1, <3>2
  <2> QED
    BY <2>1, <2>2
<1>8. /\ \A k \in 0 .. size : At(place, k) \in 0 .. n /\ At(longer, k) = At(place, k)
      /\ At(longer, size + 1) = n + 1
  BY <1>4, <1>5 DEF At
<1>9. ASSUME NEW name \in Names
      PROVE  /\ LevelIn(g, name, (n + 1) + 1) = LevelIn(g, name, At(longer, size + 1) + 1)
             /\ \A k \in 1 .. size + 1 :
                   LevelIn(g, name, longer[k]) = LevelIn(g, name, At(longer, k - 1) + 1)
             /\ \A k \in 0 .. size + 1 : \A m \in At(longer, k) + 1 .. (n + 1) + 1 :
                   LevelIn(g, name, m) >= LevelIn(g, name, At(longer, k) + 1)
  <2>1. \A i \in 1 .. n + 1 : LevelIn(g, name, i) = LevelIn(f, name, i)
    BY LevelsKept
  <2>2. /\ LevelIn(g, name, n + 2) >= LevelIn(f, name, n + 1)
        /\ LevelIn(g, name, n + 2) \in Int /\ LevelIn(f, name, n + 1) \in Int
    <3>1. LevelIn(g, name, n + 2) = LevelIn(f, name, n + 1) + Shift(token, name)
      BY LevelShifts
    <3>2. \A i \in 1 .. n + 2 : LevelIn(g, name, i) \in Int
      BY LevelsAreNumbers
    <3>3. LevelIn(f, name, n + 1) \in Int
      BY <2>1, <3>2
    <3>4. Shift(token, name) \in {0, 1}
      BY DEF Shift
    <3> QED
      BY <3>1, <3>3, <3>4
  <2>3. /\ LevelIn(f, name, n + 1) = LevelIn(f, name, At(place, size) + 1)
        /\ \A k \in 1 .. size : LevelIn(f, name, place[k]) = LevelIn(f, name, At(place, k - 1) + 1)
        /\ \A k \in 0 .. size : \A m \in At(place, k) + 1 .. n + 1 :
              LevelIn(f, name, m) >= LevelIn(f, name, At(place, k) + 1)
    BY <1>1 DEF Opens
  <2>4. \A k \in 0 .. size : At(place, k) + 1 \in 1 .. n + 1
    BY <1>8
  <2>5. LevelIn(g, name, (n + 1) + 1) = LevelIn(g, name, At(longer, size + 1) + 1)
    BY <1>8
  <2>6. ASSUME NEW k \in 1 .. size + 1
        PROVE  LevelIn(g, name, longer[k]) = LevelIn(g, name, At(longer, k - 1) + 1)
    <3>1. k - 1 \in 0 .. size /\ At(longer, k - 1) = At(place, k - 1)
      BY <1>8
    <3>2. LevelIn(g, name, At(place, k - 1) + 1) = LevelIn(f, name, At(place, k - 1) + 1)
      BY <2>1, <2>4, <3>1
    <3>3. CASE k = size + 1
      <4>1. longer[k] = n + 1 /\ k - 1 = size
        BY <1>5, <3>3
      <4>2. LevelIn(g, name, n + 1) = LevelIn(f, name, n + 1)
        BY <2>1
      <4> QED
        BY <2>3, <3>1, <3>2, <4>1, <4>2
    <3>4. CASE k \in 1 .. size
      <4>1. longer[k] = place[k] /\ place[k] \in 1 .. n + 1
        BY <1>4, <1>5, <3>4
      <4> QED
        BY <2>1, <2>3, <3>1, <3>2, <3>4, <4>1
    <3> QED
      BY <3>3, <3>4
  <2>7. ASSUME NEW k \in 0 .. size + 1, NEW m \in At(longer, k) + 1 .. (n + 1) + 1
        PROVE  LevelIn(g, name, m) >= LevelIn(g, name, At(longer, k) + 1)
    <3>1. CASE k = size + 1
      <4>1. m = n + 2 /\ At(longer, k) + 1 = n + 2
        BY <1>8, <3>1
      <4> QED
        BY <2>2, <4>1
    <3>2. CASE k \in 0 .. size
      <4>1. At(longer, k) = At(place, k) /\ At(place, k) \in 0 .. n
        BY <1>8, <3>2
      <4>2. m \in At(place, k) + 1 .. n + 1 \/ m = n + 2
        BY <4>1
      <4>3. n + 1 \in At(place, k) + 1 .. n + 1
        BY <4>1
      <4>4. \A i \in At(place, k) + 1 .. n + 1 : i \in 1 .. n + 1
        BY <4>1
      <4>5. LevelIn(g, name, At(place, k) + 1) = LevelIn(f, name, At(place, k) + 1)
        BY <2>1, <2>4, <3>2
      <4>6. CASE m \in At(place, k) + 1 .. n + 1
        BY <2>1, <2>3, <3>2, <4>1, <4>4, <4>5, <4>6
      <4>7. CASE m = n + 2
        <5>1. LevelIn(f, name, n + 1) >= LevelIn(f, name, At(place, k) + 1)
          BY <2>3, <3>2, <4>3
        <5>2. \A i \in 1 .. n + 2 : LevelIn(g, name, i) \in Int
          BY LevelsAreNumbers
        <5>3. LevelIn(g, name, At(place, k) + 1) \in Int
          BY <2>4, <3>2, <5>2
        <5> QED
          BY <2>2, <4>1, <4>5, <4>7, <5>1, <5>3
      <4> QED
        BY <4>2, <4>6, <4>7
    <3> QED
      BY <3>1, <3>2
  <2> QED
    BY <2>5, <2>6, <2>7
<1>10. (IF own \in Boilerplate THEN depth + 1 ELSE depth)
          = Cardinality({k \in DOMAIN more : more[k] \in Boilerplate})
  <2> DEFINE S == {k \in DOMAIN stack : stack[k] \in Boilerplate}
             T == {k \in DOMAIN more : more[k] \in Boilerplate}
  <2>1. T = IF own \in Boilerplate THEN S \cup {size + 1} ELSE S
    BY <1>1, <1>3
  <2>2. S \in SUBSET (1 .. size) /\ size + 1 \notin S
    BY <1>1
  <2> HIDE DEF S, T
  <2>3. Cardinality(S \cup {size + 1}) = Cardinality(S) + 1
    BY <2>2, CountedPlaces
  <2>4. depth = Cardinality(S)
    BY <1>4 DEF S
  <2>5. Cardinality(T) = IF own \in Boilerplate THEN depth + 1 ELSE depth
    BY <2>1, <2>3, <2>4
  <2> QED
    BY <2>5 DEF T
<1> HIDE DEF token
<1>11. Opens(g, n + 1, more, IF own \in Boilerplate THEN depth + 1 ELSE depth, longer)
  BY <1>3, <1>5, <1>6, <1>7, <1>9, <1>10 DEF Opens
<1> QED
  BY <1>2, <1>11

\* An end tag that closes what stands between it and a start tag of its name closes
\* the innermost element.
LEMMA InnermostIsClosed ==
    ASSUME NEW f, NEW n \in Nat, NEW own \in Names,
           NEW stack \in Seq(Names), NEW depth, NEW place, Opens(f, n, stack, depth, place),
           Closes(f, n + 1, own)
    PROVE  Len(stack) \in DOMAIN stack /\ stack[Len(stack)] = own
<1>0. PICK j \in 1 .. n :
        /\ f[j] = [kind |-> "start", what |-> own]
        /\ \A name \in Names :
              /\ LevelIn(f, name, n + 1) = LevelIn(f, name, j + 1)
              /\ \A m \in j + 1 .. n + 1 : LevelIn(f, name, m) >= LevelIn(f, name, j + 1)
  BY DEF Closes
<1>1. PICK size \in Nat : size = Len(stack) /\ DOMAIN stack = 1 .. size
  OBVIOUS
<1>2. /\ place \in [1 .. size -> 1 .. n]
      /\ \A k \in 1 .. size : f[place[k]] = [kind |-> "start", what |-> stack[k]]
  BY <1>1 DEF Opens
<1>3. At(place, size) \in 0 .. n
  BY <1>1, <1>2 DEF At
<1>4. \A name : \A i \in 1 .. n + 2 : LevelIn(f, name, i) \in Int
  BY LevelsAreNumbers
<1>5. \A name : \A i \in 1 .. n : LevelIn(f, name, i + 1) = LevelIn(f, name, i) + Shift(f[i], name)
  <2> SUFFICES ASSUME NEW name, NEW i \in 1 .. n
               PROVE  LevelIn(f, name, i + 1) = LevelIn(f, name, i) + Shift(f[i], name)
    OBVIOUS
  <2>1. i \in Nat \ {0}
    OBVIOUS
  <2> QED
    BY <2>1, LevelStep
<1>6. \A name \in Names :
         /\ LevelIn(f, name, n + 1) = LevelIn(f, name, At(place, size) + 1)
         /\ \A m \in At(place, size) + 1 .. n + 1 :
               LevelIn(f, name, m) >= LevelIn(f, name, At(place, size) + 1)
  BY <1>1 DEF Opens
<1>7. \A name : Shift([kind |-> "start", what |-> name], name) = 1
  BY DEF Shift
<1>8. j + 1 \in 1 .. n + 2 /\ j \in 1 .. n + 2 /\ n + 1 \in 1 .. n + 2
  OBVIOUS
<1>9. ~(j > At(place, size))
  <2> SUFFICES ASSUME j > At(place, size) PROVE FALSE
    OBVIOUS
  <2>1. j \in At(place, size) + 1 .. n + 1
    BY <1>3
  <2>2. LevelIn(f, own, j) >= LevelIn(f, own, n + 1)
    BY <1>6, <2>1
  <2>3. LevelIn(f, own, n + 1) = LevelIn(f, own, j + 1)
    BY <1>0
  <2>4. LevelIn(f, own, j + 1) = LevelIn(f, own, j) + 1
    BY <1>0, <1>5, <1>7
  <2>5. LevelIn(f, own, j) \in Int
    BY <1>4, <1>8
  <2> QED
    BY <2>2, <2>3, <2>4, <2>5
<1>10. size # 0 /\ size \in 1 .. size
  BY <1>1, <1>9 DEF At
<1>11. At(place, size) = place[size] /\ place[size] \in 1 .. n /\ stack[size] \in Names
  BY <1>1, <1>2, <1>10 DEF At
<1>12. ~(j < place[size])
  <2> SUFFICES ASSUME j < place[size] PROVE FALSE
    OBVIOUS
  <2> DEFINE top == stack[size]
             p == place[size]
  <2>1. p \in j + 1 .. n + 1 /\ p \in 1 .. n /\ p \in 1 .. n + 2
    BY <1>11
  <2>2. LevelIn(f, top, p) >= LevelIn(f, top, n + 1)
    BY <1>0, <1>11, <2>1
  <2>3. LevelIn(f, top, p + 1) = LevelIn(f, top, p) + 1
    <3>1. f[p] = [kind |-> "start", what |-> top]
      BY <1>2, <1>10
    <3>2. LevelIn(f, top, p + 1) = LevelIn(f, top, p) + Shift(f[p], top)
      BY <1>5, <2>1
    <3>3. Shift(f[p], top) = 1
      BY <1>7, <3>1
    <3> HIDE DEF top, p
    <3> QED
      BY <3>2, <3>3
  <2>4. LevelIn(f, top, n + 1) = LevelIn(f, top, p + 1)
    BY <1>6, <1>11
  <2>5. LevelIn(f, top, p) \in Int
    BY <1>4, <2>1
  <2> QED
    BY <2>2, <2>3, <2>4, <2>5
<1>13. place[size] = j
  BY <1>9, <1>11, <1>12
<1>14. stack[size] = own
  <2>1. [kind |-> "start", what |-> stack[size]] = [kind |-> "start", what |-> own]
    BY <1>0, <1>2, <1>10, <1>13
  <2>2. [kind |-> "start", what |-> stack[size]].what = [kind |-> "start", what |-> own].what
    BY <2>1
  <2> QED
    BY <2>2
<1> QED
  BY <1>1, <1>10, <1>14

\* Such an end tag takes the innermost element off.
LEMMA OpensEnds ==
    ASSUME NEW f, NEW g, NEW n \in Nat, NEW own \in Names,
           Grown(f, g, n, [kind |-> "end", what |-> own]),
           NEW stack \in Seq(Names), NEW depth \in Nat, NEW place, Opens(f, n, stack, depth, place),
           NEW size \in Nat, size + 1 = Len(stack), stack[size + 1] = own
    PROVE  /\ own \in Boilerplate => depth # 0
           /\ \E shorter : Opens(g, n + 1, SubSeq(stack, 1, size),
                                 IF own \in Boilerplate THEN depth - 1 ELSE depth, shorter)
<1> DEFINE token == [kind |-> "end", what |-> own]
           shorter == [k \in 1 .. size |-> place[k]]
<1>1. DOMAIN stack = 1 .. size + 1
  OBVIOUS
<1>2. PICK less \in Seq(Names) : less = SubSeq(stack, 1, size)
  <2>1. SubSeq(stack, 1, size) \in Seq(Names)
    BY <1>1
  <2> QED
    BY <2>1
<1>3. Len(less) = size /\ DOMAIN less = 1 .. size /\ \A k \in 1 .. size : less[k] = stack[k]
  BY <1>1, <1>2
<1>4. /\ place \in [1 .. size + 1 -> 1 .. n]
      /\ \A k, l \in 1 .. size + 1 : k < l => place[k] < place[l]
      /\ \A k \in 1 .. size + 1 : f[place[k]] = [kind |-> "start", what |-> stack[k]]
      /\ depth = Cardinality({k \in DOMAIN stack : stack[k] \in Boilerplate})
  BY <1>1 DEF Opens
<1>5. /\ shorter \in [1 .. size -> 1 .. n + 1]
      /\ \A k \in 1 .. size : shorter[k] = place[k] /\ k \in 1 .. size + 1
  BY <1>4
<1> HIDE DEF shorter
<1>6. \A k, l \in 1 .. size : k < l => shorter[k] < shorter[l]
  BY <1>4, <1>5
<1>7. \A k \in 1 .. size : g[shorter[k]] = [kind |-> "start", what |-> less[k]]
  <2> SUFFICES ASSUME NEW k \in 1 .. size
               PROVE  g[shorter[k]] = [kind |-> "start", what |-> less[k]]
    OBVIOUS
  <2>1. shorter[k] = place[k] /\ less[k] = stack[k] /\ k \in 1 .. size + 1
    BY <1>3, <1>5
  <2>2. place[k] \in 1 .. n /\ f[place[k]] = [kind |-> "start", what |-> stack[k]]
    BY <1>4, <2>1
  <2>3. g[place[k]] = f[place[k]]
    BY <2>2 DEF Grown
  <2> QED
    BY <2>1, <2>2, <2>3
<1>8. /\ \A k \in 0 .. size : At(place, k) \in 0 .. n /\ At(shorter, k) = At(place, k)
      /\ At(place, size + 1) = place[size + 1] /\ place[size + 1] \in 1 .. n
      /\ \A k \in 0 .. size : At(place, k) < place[size + 1]
  BY <1>4, <1>5 DEF At
<1>9. ASSUME NEW name \in Names
      PROVE  /\ LevelIn(g, name, (n + 1) + 1) = LevelIn(g, name, At(shorter, size) + 1)
             /\ \A k \in 1 .. size :
                   LevelIn(g, name, shorter[k]) = LevelIn(g, name, At(shorter, k - 1) + 1)
             /\ \A k \in 0 .. size : \A m \in At(shorter, k) + 1 .. (n + 1) + 1 :
                   LevelIn(g, name, m) >= LevelIn(g, name, At(shorter, k) + 1)
  <2> DEFINE top == place[size + 1]
  <2>1. \A i \in 1 .. n + 1 : LevelIn(g, name, i) = LevelIn(f, name, i)
    BY LevelsKept
  <2>2. \A i \in 1 .. n + 2 : LevelIn(g, name, i) \in Int
    BY LevelsAreNumbers
  <2>3. /\ LevelIn(f, name, n + 1) = LevelIn(f, name, top + 1)
        /\ \A k \in 1 .. size + 1 : LevelIn(f, name, place[k]) = LevelIn(f, name, At(place, k - 1) + 1)
        /\ \A k \in 0 .. size + 1 : \A m \in At(place, k) + 1 .. n + 1 :
              LevelIn(f, name, m) >= LevelIn(f, name, At(place, k) + 1)
    BY <1>1, <1>8 DEF Opens
  <2>4. LevelIn(f, name, top) = LevelIn(f, name, At(place, size) + 1)
    BY <2>3
  <2>5. top \in 1 .. n + 1 /\ top \in 1 .. n /\ \A k \in 0 .. size : At(place, k) + 1 \in 1 .. n + 1
    BY <1>8
  <2>6. LevelIn(g, name, n + 2) = LevelIn(f, name, top)
    <3>1. LevelIn(g, name, n + 2) = LevelIn(f, name, n + 1) + Shift(token, name)
      BY LevelShifts
    <3>2. LevelIn(g, name, top + 1) = LevelIn(g, name, top) + Shift(g[top], name)
      <4>1. top \in Nat \ {0}
        BY <2>5
      <4> HIDE DEF top
      <4> QED
        BY <4>1, LevelStep
    <3>3. g[top] = [kind |-> "start", what |-> own]
      <4>1. size + 1 \in 1 .. size + 1
        OBVIOUS
      <4>2. f[top] = [kind |-> "start", what |-> own]
        BY <1>4, <4>1
      <4>3. g[top] = f[top]
        BY <2>5 DEF Grown
      <4> QED
        BY <4>2, <4>3
    <3>4. Shift(g[top], name) + Shift(token, name) = 0 /\ Shift(token, name) \in Int /\ Shift(g[top], name) \in Int
      BY <3>3 DEF Shift
    <3>5. top + 1 \in 1 .. n + 1
      BY <2>5
    <3>6. LevelIn(g, name, top) = LevelIn(f, name, top) /\ LevelIn(f, name, top) \in Int
      BY <2>1, <2>2, <2>5
    <3>7. LevelIn(g, name, top + 1) = LevelIn(f, name, top + 1)
      BY <2>1, <3>5
    <3> HIDE DEF top, token
    <3> QED
      BY <2>3, <3>1, <3>2, <3>4, <3>6, <3>7, SMTT(30)
  <2>7. LevelIn(g, name, (n + 1) + 1) = LevelIn(g, name, At(shorter, size) + 1)
    <3>1. size \in 0 .. size /\ (n + 1) + 1 = n + 2
      OBVIOUS
    <3>2. LevelIn(g, name, At(place, size) + 1) = LevelIn(f, name, At(place, size) + 1)
      BY <2>1, <2>5, <3>1
    <3> QED
      BY <1>8, <2>4, <2>6, <3>1, <3>2
  <2>8. ASSUME NEW k \in 1 .. size
        PROVE  LevelIn(g, name, shorter[k]) = LevelIn(g, name, At(shorter, k - 1) + 1)
    <3>1. k - 1 \in 0 .. size /\ k \in 1 .. size + 1
      OBVIOUS
    <3>2. place[k] \in 1 .. n + 1
      <4>1. place[k] \in 1 .. n
        BY <1>4, <3>1
      <4> QED
        BY <4>1
    <3> QED
      BY <1>5, <1>8, <2>1, <2>3, <2>5, <3>1, <3>2
  <2>9. ASSUME NEW k \in 0 .. size, NEW m \in At(shorter, k) + 1 .. (n + 1) + 1
        PROVE  LevelIn(g, name, m) >= LevelIn(g, name, At(shorter, k) + 1)
    <3>1. At(shorter, k) = At(place, k) /\ At(place, k) \in 0 .. n /\ k \in 0 .. size + 1
      BY <1>8
    <3>2. m \in At(place, k) + 1 .. n + 1 \/ m = n + 2
      BY <3>1
    <3>3. top \in At(place, k) + 1 .. n + 1
      BY <1>8, <3>1
    <3>4. \A i \in At(place, k) + 1 .. n + 1 : i \in 1 .. n + 1
      BY <3>1
    <3>5. LevelIn(g, name, At(place, k) + 1) = LevelIn(f, name, At(place, k) + 1)
      BY <2>1, <2>5
    <3>6. CASE m \in At(place, k) + 1 .. n + 1
      BY <2>1, <2>3, <3>1, <3>4, <3>5, <3>6
    <3>7. CASE m = n + 2
      BY <2>3, <2>6, <3>1, <3>3, <3>5, <3>7
    <3> QED
      BY <3>2, <3>6, <3>7
  <2> QED
    BY <2>7, <2>8, <2>9
<1>10. /\ own \in Boilerplate => depth # 0
       /\ (IF own \in Boilerplate THEN depth - 1 ELSE depth)
             = Cardinality({k \in DOMAIN less : less[k] \in Boilerplate})
  <2> DEFINE S == {k \in DOMAIN stack : stack[k] \in Boilerplate}
             T == {k \in DOMAIN less : less[k] \in Boilerplate}
  <2>1. T = S \ {size + 1} /\ (size + 1 \in S <=> own \in Boilerplate)
    BY <1>1, <1>3
  <2>2. S \in SUBSET (1 .. size + 1)
    BY <1>1
  <2> HIDE DEF S, T
  <2>3. /\ size + 1 \in S => Cardinality(S \ {size + 1}) = Cardinality(S) - 1
        /\ Cardinality(S) = 0 <=> S = {}
    <3>1. size + 1 \in Nat
      OBVIOUS
    <3> QED
      BY <2>2, <3>1, CountedPlaces
  <2>4. depth = Cardinality(S)
    BY <1>4 DEF S
  <2>5. size + 1 \notin S => T = S
    BY <2>1
  <2>6. own \in Boilerplate => S # {}
    BY <2>1
  <2>7. /\ own \in Boilerplate => depth # 0
        /\ Cardinality(T) = IF own \in Boilerplate THEN depth - 1 ELSE depth
    BY <2>1, <2>3, <2>4, <2>5, <2>6
  <2> QED
    BY <2>7 DEF T
<1> HIDE DEF token
<1>11. Opens(g, n + 1, less, IF own \in Boilerplate THEN depth - 1 ELSE depth, shorter)
  BY <1>3, <1>5, <1>6, <1>7, <1>9, <1>10 DEF Opens
<1> QED
  BY <1>2, <1>10, <1>11

-----------------------------------------------------------------------------
(* The parser *)

\* With nothing due the next token is inside of nothing, and with an element of
\* boilerplate open it is inside of that.
LEMMA NothingDue ==
    ASSUME NEW f, NEW n, NEW stack, NEW due, Due(f, n, stack, 0, due)
    PROVE  InsideIn(f, n + 1) = {}
<1>1. IsFiniteSet(due) /\ Cardinality(due) = 0 /\ InsideIn(f, n + 1) \subseteq due
  BY DEF Due
<1>2. due = {}
  BY <1>1, FS_EmptySet
<1> QED
  BY <1>1, <1>2

LEMMA SomethingOpen ==
    ASSUME NEW f, NEW n \in Nat, NEW stack \in Seq(Names), NEW depth, depth # 0,
           NEW place, Opens(f, n, stack, depth, place)
    PROVE  InsideIn(f, n + 1) # {}
<1>1. PICK size \in Nat : size = Len(stack) /\ DOMAIN stack = 1 .. size
  OBVIOUS
<1>2. PICK k \in 1 .. size : stack[k] \in Boilerplate
  <2>1. {k \in 1 .. size : stack[k] \in Boilerplate} # {}
    BY <1>1, FS_EmptySet DEF Opens
  <2> QED
    BY <2>1
<1> DEFINE name == stack[k]
           j == place[k]
<1>3. /\ j \in 1 .. n /\ f[j] = [kind |-> "start", what |-> name]
      /\ name \in Names /\ At(place, k) = j /\ k \in 0 .. size
  BY <1>1, <1>2 DEF Opens, At, Names
<1>4. \A m \in j + 1 .. n + 1 : LevelIn(f, name, m) >= LevelIn(f, name, j + 1)
  BY <1>1, <1>3 DEF Opens
<1>5. Shift(f[j], name) = 1
  BY <1>3 DEF Shift
<1>6. f[j].what = name /\ StartsBoilerplate(f, j)
  BY <1>2, <1>3 DEF StartsBoilerplate
<1> HIDE DEF name, j
<1>7. LevelIn(f, name, j + 1) = LevelIn(f, name, j) + 1
  BY <1>3, <1>5, LevelStep
<1>8. \A i \in 1 .. n + 2 : LevelIn(f, name, i) \in Int
  BY LevelsAreNumbers
<1>9. ASSUME NEW m \in j + 1 .. n + 1 PROVE LevelIn(f, name, m) > LevelIn(f, name, j)
  <2>1. m \in 1 .. n + 2 /\ j \in 1 .. n + 2
    BY <1>3
  <2>2. LevelIn(f, name, m) \in Int /\ LevelIn(f, name, j) \in Int
    BY <1>8, <2>1
  <2>3. LevelIn(f, name, m) >= LevelIn(f, name, j + 1)
    BY <1>4
  <2> QED
    BY <1>7, <2>2, <2>3
<1>10. j \in 1 .. (n + 1) - 1
  BY <1>3
<1>11. j \in InsideIn(f, n + 1)
  BY <1>6, <1>9, <1>10 DEF InsideIn
<1> QED
  BY <1>11

\* A shorter page is well nested, and the last tag closes what it should.
LEMMA ClosesBefore ==
    ASSUME NEW f, NEW g, NEW n \in Nat, NEW token, Grown(f, g, n, token),
           NEW i \in 1 .. n + 1, NEW name, Closes(g, i, name)
    PROVE  Closes(f, i, name)
<1>1. \A other : \A m \in 1 .. n + 1 : LevelIn(g, other, m) = LevelIn(f, other, m)
  BY LevelsKept
<1>2. PICK j \in 1 .. i - 1 :
        /\ g[j] = [kind |-> "start", what |-> name]
        /\ \A other \in Names :
              /\ LevelIn(g, other, i) = LevelIn(g, other, j + 1)
              /\ \A m \in j + 1 .. i : LevelIn(g, other, m) >= LevelIn(g, other, j + 1)
  BY DEF Closes
<1>3. j \in 1 .. n /\ j + 1 \in 1 .. n + 1 /\ \A m \in j + 1 .. i : m \in 1 .. n + 1
  OBVIOUS
<1>4. f[j] = [kind |-> "start", what |-> name]
  <2>1. f[j] = g[j]
    BY <1>3 DEF Grown
  <2> QED
    BY <1>2, <2>1
<1>5. ASSUME NEW other \in Names
      PROVE  /\ LevelIn(f, other, i) = LevelIn(f, other, j + 1)
             /\ \A m \in j + 1 .. i : LevelIn(f, other, m) >= LevelIn(f, other, j + 1)
  <2>1. /\ LevelIn(g, other, i) = LevelIn(f, other, i)
        /\ LevelIn(g, other, j + 1) = LevelIn(f, other, j + 1)
        /\ \A m \in j + 1 .. i : LevelIn(g, other, m) = LevelIn(f, other, m)
    BY <1>1, <1>3
  <2>2. /\ LevelIn(g, other, i) = LevelIn(g, other, j + 1)
        /\ \A m \in j + 1 .. i : LevelIn(g, other, m) >= LevelIn(g, other, j + 1)
    BY <1>2
  <2> QED
    BY <2>1, <2>2
<1> QED
  BY <1>4, <1>5 DEF Closes

LEMMA GrownNested ==
    ASSUME NEW f, NEW g, NEW n \in Nat, NEW token, Grown(f, g, n, token), NestedIn(g, n + 1)
    PROVE  NestedIn(f, n) /\ (token.kind = "end" => Closes(f, n + 1, token.what))
<1>1. n + 1 \in 1 .. n + 1 /\ g[n + 1] = token
  BY DEF Grown
<1>2. token.kind = "end" => Closes(g, n + 1, token.what)
  BY <1>1 DEF NestedIn
<1>3. token.kind = "end" => Closes(f, n + 1, token.what)
  BY <1>1, <1>2, ClosesBefore
<1>4. ASSUME NEW i \in 1 .. n, f[i].kind = "end" PROVE Closes(f, i, f[i].what)
  <2>1. i \in 1 .. n + 1 /\ g[i] = f[i]
    BY DEF Grown
  <2>2. Closes(g, i, f[i].what)
    BY <1>4, <2>1 DEF NestedIn
  <2> QED
    BY <2>1, <2>2, ClosesBefore
<1> QED
  BY <1>3, <1>4 DEF NestedIn

\* What the property says, of the page as a sequence.
ContentOf(f, n, at) ==
    /\ \A i \in DOMAIN at : InsideIn(f, at[i]) = {}
    /\ NestedIn(f, n) =>
          \A i \in 1 .. n : f[i] = [kind |-> "text", what |-> "body"] /\ InsideIn(f, i) = {}
                              => \E k \in DOMAIN at : at[k] = i

LEMMA LevelOfTokens == \A name, i : Level(name, i) = LevelIn(tokens, name, i)
BY DEF Level, Tags, LevelIn, CountIn

LEMMA InsideOfTokens == \A i : Inside(i) = InsideIn(tokens, i)
BY LevelOfTokens DEF Inside, InsideIn, StartsBoilerplate

LEMMA NestedTokens ==
    ASSUME DOMAIN tokens = 1 .. Len(tokens)
    PROVE  WellNested <=> NestedIn(tokens, Len(tokens))
BY LevelOfTokens DEF WellNested, NestedIn, Closes, Names

LEMMA ContentOfTokens ==
    ASSUME DOMAIN tokens = 1 .. Len(tokens)
    PROVE  TextIsContent <=> ContentOf(tokens, Len(tokens), textAt)
BY InsideOfTokens, NestedTokens DEF TextIsContent, ContentOf, Texts, ToSet

TokensAreSeq == DOMAIN tokens = 1 .. Len(tokens)
ByThePage ==
    /\ WellNested <=> NestedIn(tokens, Len(tokens))
    /\ TextIsContent <=> ContentOf(tokens, Len(tokens), textAt)

LEMMA PagesBefore == TokensAreSeq => ByThePage
BY NestedTokens, ContentOfTokens DEF TokensAreSeq, ByThePage
LEMMA PagesAfter == TokensAreSeq' => ByThePage'
BY PagesBefore, PTL

\* The page grows by the token that is seen.
LEMMA PageGrows ==
    ASSUME PageTypeOK, NEW kind, NEW what, Sees(kind, what), [kind |-> kind, what |-> what] \in Token
    PROVE  \E n \in Nat :
              /\ Len(tokens) = n /\ Len(tokens') = n + 1 /\ tokens' \in Seq(Token)
              /\ DOMAIN tokens = 1 .. n /\ DOMAIN tokens' = 1 .. n + 1
              /\ Grown(tokens, tokens', n, [kind |-> kind, what |-> what])
              /\ Place = n + 1
<1> DEFINE token == [kind |-> kind, what |-> what]
<1>1. tokens \in Seq(Token) /\ token \in Token /\ tokens' = Append(tokens, token)
  BY DEF PageTypeOK, Sees
<1> HIDE DEF token
<1>2. PICK n \in Nat : n = Len(tokens)
  BY <1>1
<1>3. /\ Len(tokens') = n + 1 /\ tokens' \in Seq(Token)
      /\ DOMAIN tokens = 1 .. n /\ DOMAIN tokens' = 1 .. n + 1
      /\ \A m \in 1 .. n : tokens'[m] = tokens[m]
      /\ tokens'[n + 1] = token
  BY <1>1, <1>2
<1>4. Grown(tokens, tokens', n, token) /\ Place = n + 1
  BY <1>2, <1>3 DEF Grown, Place
<1> QED
  BY <1>2, <1>3, <1>4 DEF token

\* Whether a text is content is settled when it is read, by skip_depth.
LEMMA ContentSettled ==
    ASSUME NEW f, NEW g, NEW n \in Nat, NEW token, Grown(f, g, n, token),
           NEW at \in Seq(1 .. n), ContentOf(f, n, at),
           NEW stack \in Seq(Names), NEW depth \in Nat, NEW due, Due(f, n, stack, depth, due),
           NestedIn(f, n) => \E place : Opens(f, n, stack, depth, place),
           NEW after,
           token = [kind |-> "text", what |-> "body"] /\ depth = 0 => after = Append(at, n + 1),
           ~(token = [kind |-> "text", what |-> "body"] /\ depth = 0) => after = at
    PROVE  ContentOf(g, n + 1, after)
<1>1. PICK size \in Nat : size = Len(at) /\ DOMAIN at = 1 .. size
  OBVIOUS
<1>2. \A k \in 1 .. size : at[k] \in 1 .. n
  BY <1>1
<1> DEFINE body == [kind |-> "text", what |-> "body"]
<1>3. /\ \A m \in 1 .. n : g[m] = f[m]
      /\ g[n + 1] = token
  BY DEF Grown
<1>4. \A i \in 1 .. n + 1 : InsideIn(g, i) = InsideIn(f, i)
  BY GrownInside
<1>5. /\ \A i \in DOMAIN at : InsideIn(f, at[i]) = {}
      /\ NestedIn(f, n) =>
            \A i \in 1 .. n : f[i] = body /\ InsideIn(f, i) = {} => \E k \in DOMAIN at : at[k] = i
  BY DEF ContentOf
<1> HIDE DEF body
<1>6. IF token = body /\ depth = 0 THEN after = Append(at, n + 1) ELSE after = at
  BY DEF body
<1>7. /\ \A k \in DOMAIN at : k \in DOMAIN after /\ after[k] = at[k]
      /\ \A k \in DOMAIN after : k \in DOMAIN at \/ (after[k] = n + 1 /\ depth = 0)
      /\ token = body /\ depth = 0 => \E k \in DOMAIN after : after[k] = n + 1
  <2>1. CASE token = body /\ depth = 0
    <3>1. /\ DOMAIN after = 1 .. size + 1 /\ after[size + 1] = n + 1
          /\ \A k \in 1 .. size : after[k] = at[k]
      <4>1. at \in Seq(Nat) /\ after = Append(at, n + 1)
        BY <1>1, <1>2, <1>6, <2>1
      <4> QED
        BY <1>1, <4>1
    <3> QED
      BY <1>1, <2>1, <3>1
  <2>2. CASE ~(token = body /\ depth = 0)
    BY <1>6, <2>2
  <2> QED
    BY <2>1, <2>2
<1>8. ASSUME NEW k \in DOMAIN after PROVE InsideIn(g, after[k]) = {}
  <2>1. CASE k \in DOMAIN at
    <3>1. after[k] = at[k] /\ at[k] \in 1 .. n /\ at[k] \in 1 .. n + 1
      BY <1>1, <1>2, <1>7, <2>1
    <3> QED
      BY <1>4, <1>5, <2>1, <3>1
  <2>2. CASE after[k] = n + 1 /\ depth = 0
    <3>0. Due(f, n, stack, 0, due)
      BY <2>2
    <3>1. InsideIn(f, n + 1) = {}
      BY <3>0, NothingDue
    <3>2. n + 1 \in 1 .. n + 1
      OBVIOUS
    <3> QED
      BY <1>4, <2>2, <3>1, <3>2
  <2> QED
    BY <1>7, <2>1, <2>2
<1>9. ASSUME NestedIn(g, n + 1), NEW i \in 1 .. n + 1, g[i] = body, InsideIn(g, i) = {}
      PROVE  \E k \in DOMAIN after : after[k] = i
  <2>1. NestedIn(f, n)
    BY <1>9, GrownNested
  <2>2. CASE i \in 1 .. n
    <3>1. f[i] = body /\ InsideIn(f, i) = {}
      BY <1>3, <1>4, <1>9, <2>2
    <3> QED
      BY <1>5, <1>7, <2>1, <2>2, <3>1
  <2>3. CASE i = n + 1
    <3>1. token = body /\ InsideIn(f, n + 1) = {}
      BY <1>3, <1>4, <1>9, <2>3
    <3>2. PICK place : Opens(f, n, stack, depth, place)
      BY <2>1
    <3>3. depth = 0
      BY <3>1, <3>2, SomethingOpen
    <3> QED
      BY <1>7, <2>3, <3>1, <3>3
  <2> QED
    BY <2>2, <2>3
<1> QED
  BY <1>8, <1>9 DEF ContentOf, body

LEMMA ContentStays ==
    ASSUME NEW f, NEW g, NEW n \in Nat, NEW token, Grown(f, g, n, token),
           NEW at \in Seq(1 .. n), ContentOf(f, n, at),
           token # [kind |-> "text", what |-> "body"]
    PROVE  ContentOf(g, n + 1, at)
<1> DEFINE body == [kind |-> "text", what |-> "body"]
<1>1. /\ \A m \in 1 .. n : g[m] = f[m]
      /\ g[n + 1] # body
  BY DEF Grown
<1>2. \A i \in 1 .. n + 1 : InsideIn(g, i) = InsideIn(f, i)
  BY GrownInside, ZenonT(30)
<1>3. /\ \A i \in DOMAIN at : InsideIn(f, at[i]) = {}
      /\ NestedIn(f, n) =>
            \A i \in 1 .. n : f[i] = body /\ InsideIn(f, i) = {} => \E k \in DOMAIN at : at[k] = i
  BY DEF ContentOf
<1>4. NestedIn(g, n + 1) => NestedIn(f, n)
  BY GrownNested
<1> HIDE DEF body
<1>5. \A k \in DOMAIN at : at[k] \in 1 .. n + 1
  OBVIOUS
<1>6. \A k \in DOMAIN at : InsideIn(g, at[k]) = {}
  BY <1>2, <1>3, <1>5
<1>7. ASSUME NestedIn(g, n + 1), NEW i \in 1 .. n + 1, g[i] = body, InsideIn(g, i) = {}
      PROVE  \E k \in DOMAIN at : at[k] = i
  <2>1. i \in 1 .. n /\ f[i] = body /\ InsideIn(f, i) = {}
    BY <1>1, <1>2, <1>7
  <2> QED
    BY <1>3, <1>4, <1>7, <2>1
<1> QED
  BY <1>6, <1>7 DEF ContentOf, body

\* The invariant, of the page as a sequence.
PageHolds(f, n, stack, depth, at) ==
    /\ \E due : Due(f, n, stack, depth, due)
    /\ NestedIn(f, n) => \E place : Opens(f, n, stack, depth, place)
    /\ ContentOf(f, n, at)

\* A token that is no tag of an element.
LEMMA OtherHolds ==
    ASSUME NEW f, NEW g, NEW n \in Nat, NEW token, Grown(f, g, n, token),
           token.kind \notin {"start", "end"},
           NEW stack \in Seq(Names), NEW depth \in Nat, NEW at \in Seq(1 .. n),
           PageHolds(f, n, stack, depth, at), NEW after,
           token = [kind |-> "text", what |-> "body"] /\ depth = 0 => after = Append(at, n + 1),
           ~(token = [kind |-> "text", what |-> "body"] /\ depth = 0) => after = at
    PROVE  PageHolds(g, n + 1, stack, depth, after)
<1>1. \A name : Shift(token, name) = 0
  <2>1. \A name : token # [kind |-> "start", what |-> name] /\ token # [kind |-> "end", what |-> name]
    OBVIOUS
  <2> QED
    BY <2>1 DEF Shift
<1>2. PICK due : Due(f, n, stack, depth, due)
  BY DEF PageHolds
<1>3. Due(g, n + 1, stack, depth, due)
  <2>1. PICK size \in Nat : size = Len(stack) /\ DOMAIN stack = 1 .. size
    OBVIOUS
  <2>2. \A name : OpenAs(stack, name) \in SUBSET (1 .. size)
    BY <2>1 DEF OpenAs
  <2>3. \A name : Cardinality(OpenAs(stack, name)) \in Nat
    BY <2>2, CountedPlaces
  <2> QED
    BY <1>1, <1>2, <2>3, DueStays
<1>4. ASSUME NestedIn(g, n + 1) PROVE \E place : Opens(g, n + 1, stack, depth, place)
  <2>1. NestedIn(f, n)
    BY <1>4, GrownNested
  <2>2. PICK place : Opens(f, n, stack, depth, place)
    BY <2>1 DEF PageHolds
  <2>3. Opens(g, n + 1, stack, depth, place)
    BY <1>1, <2>2, OpensStays
  <2> QED
    BY <2>3
<1>5. ContentOf(g, n + 1, after)
  BY <1>2, ContentSettled DEF PageHolds
<1> QED
  BY <1>3, <1>4, <1>5 DEF PageHolds

\* A start tag.
LEMMA StartHolds ==
    ASSUME NEW f, NEW g, NEW n \in Nat, NEW own \in Names,
           Grown(f, g, n, [kind |-> "start", what |-> own]),
           NEW stack \in Seq(Names), NEW depth \in Nat, NEW at \in Seq(1 .. n),
           PageHolds(f, n, stack, depth, at)
    PROVE  PageHolds(g, n + 1, Append(stack, own),
                     IF own \in Boilerplate THEN depth + 1 ELSE depth, at)
<1> DEFINE token == [kind |-> "start", what |-> own]
<1>1. PICK due : Due(f, n, stack, depth, due)
  BY DEF PageHolds
<1>2. \E more : Due(g, n + 1, Append(stack, own), IF own \in Boilerplate THEN depth + 1 ELSE depth, more)
  <2>1. CASE own \in Boilerplate
    <3>1. Due(g, n + 1, Append(stack, own), depth + 1, due \cup {n + 1})
      BY <1>1, <2>1, DueStarts
    <3> QED
      BY <2>1, <3>1
  <2>2. CASE own \notin Boilerplate
    <3>1. PICK size \in Nat : size = Len(stack) /\ DOMAIN stack = 1 .. size
      OBVIOUS
    <3>2. \A name \in Boilerplate : OpenAs(Append(stack, own), name) = OpenAs(stack, name)
      BY <2>2, <3>1 DEF OpenAs
    <3>3. \A name : OpenAs(stack, name) \in SUBSET (1 .. size)
      BY <3>1 DEF OpenAs
    <3>4. \A name : Cardinality(OpenAs(stack, name)) \in Nat
      BY <3>3, CountedPlaces
    <3>5. /\ \A name \in Boilerplate : Shift(token, name) \in {0, -1}
          /\ ~(token.kind = "start" /\ token.what \in Boilerplate)
      BY <2>2 DEF Shift
    <3>6. Grown(f, g, n, token)
      OBVIOUS
    <3> HIDE DEF token
    <3>7. Due(g, n + 1, Append(stack, own), depth, due)
      BY <1>1, <3>2, <3>4, <3>5, <3>6, DueStays, SMTT(30)
    <3> QED
      BY <2>2, <3>7
  <2> QED
    BY <2>1, <2>2
<1>3. ASSUME NestedIn(g, n + 1)
      PROVE  \E place : Opens(g, n + 1, Append(stack, own),
                              IF own \in Boilerplate THEN depth + 1 ELSE depth, place)
  <2>1. NestedIn(f, n)
    BY <1>3, GrownNested
  <2>2. PICK place : Opens(f, n, stack, depth, place)
    BY <2>1 DEF PageHolds
  <2> QED
    BY <2>2, OpensStarts
<1>4. ContentOf(g, n + 1, at)
  <2>1. token # [kind |-> "text", what |-> "body"] /\ Grown(f, g, n, token)
    OBVIOUS
  <2> HIDE DEF token
  <2>2. /\ NestedIn(f, n) => \E place : Opens(f, n, stack, depth, place)
        /\ ContentOf(f, n, at)
    BY DEF PageHolds
  <2> QED
    BY <1>1, <2>1, <2>2, ContentStays
<1> QED
  BY <1>2, <1>3, <1>4 DEF PageHolds

\* An end tag, of an element that is open or of none.
LEMMA EndHolds ==
    ASSUME NEW f, NEW g, NEW n \in Nat, NEW own \in Names,
           Grown(f, g, n, [kind |-> "end", what |-> own]),
           NEW stack \in Seq(Names), NEW depth \in Nat, NEW at \in Seq(1 .. n),
           PageHolds(f, n, stack, depth, at), NEW rest, NEW less,
           IF OpenAs(stack, own) = {} THEN rest = stack /\ less = depth
           ELSE \E last \in OpenAs(stack, own) :
                  /\ \A k \in OpenAs(stack, own) : k <= last
                  /\ rest = SubSeq(stack, 1, last - 1)
                  /\ less = IF own \in Boilerplate THEN Less(depth) ELSE depth
    PROVE  PageHolds(g, n + 1, rest, less, at)
<1> DEFINE token == [kind |-> "end", what |-> own]
<1>1. PICK due : Due(f, n, stack, depth, due)
  BY DEF PageHolds
<1>2. PICK size \in Nat : size = Len(stack) /\ DOMAIN stack = 1 .. size
  OBVIOUS
<1>3. /\ \A name : OpenAs(stack, name) \in SUBSET (1 .. size)
      /\ \A name : Cardinality(OpenAs(stack, name)) \in Nat
  <2>1. \A name : OpenAs(stack, name) \in SUBSET (1 .. size)
    BY <1>2 DEF OpenAs
  <2> QED
    BY <2>1, CountedPlaces
<1>4. /\ \A name : Shift(token, name) \in {0, -1}
      /\ ~(token.kind = "start" /\ token.what \in Boilerplate)
      /\ token.kind = "end" /\ token.what = own
      /\ token # [kind |-> "text", what |-> "body"]
      /\ Grown(f, g, n, token)
  <2>1. \A name : token # [kind |-> "start", what |-> name]
    OBVIOUS
  <2>2. \A name : Shift(token, name) \in {0, -1}
    BY <2>1 DEF Shift
  <2> QED
    BY <2>2
<1>5. ASSUME NestedIn(g, n + 1)
      PROVE  /\ size # 0 /\ size \in 1 .. size /\ stack[size] = own
             /\ \E place : Opens(f, n, stack, depth, place)
  <2>1. NestedIn(f, n) /\ Closes(f, n + 1, own)
    <3> HIDE DEF token
    <3> QED
      BY <1>4, <1>5, GrownNested
  <2>2. PICK place : Opens(f, n, stack, depth, place)
    BY <2>1 DEF PageHolds
  <2>3. Len(stack) \in DOMAIN stack /\ stack[Len(stack)] = own
    BY <2>1, <2>2, InnermostIsClosed
  <2> QED
    BY <1>2, <2>2, <2>3
<1> HIDE DEF token
<1>6. ContentOf(g, n + 1, at)
  <2>1. /\ NestedIn(f, n) => \E place : Opens(f, n, stack, depth, place)
        /\ ContentOf(f, n, at)
    BY DEF PageHolds
  <2>2. token # [kind |-> "text", what |-> "body"] /\ Grown(f, g, n, token)
    BY <1>4
  <2> QED
    BY <1>1, <2>1, <2>2, ContentStays
<1>7. CASE OpenAs(stack, own) = {}
  <2>1. rest = stack /\ less = depth
    BY <1>7
  <2>2. Due(g, n + 1, stack, depth, due)
    <3>1. /\ \A name \in Boilerplate : Shift(token, name) \in {0, -1}
          /\ ~(token.kind = "start" /\ token.what \in Boilerplate)
          /\ Grown(f, g, n, token)
      BY <1>4
    <3> QED
      BY <1>1, <1>3, <3>1, DueStays
  <2>3. ~NestedIn(g, n + 1)
    BY <1>2, <1>5, <1>7 DEF OpenAs
  <2> QED
    BY <1>6, <2>1, <2>2, <2>3 DEF PageHolds
<1>8. CASE OpenAs(stack, own) # {}
  <2>1. PICK last \in OpenAs(stack, own) :
          /\ \A k \in OpenAs(stack, own) : k <= last
          /\ rest = SubSeq(stack, 1, last - 1)
          /\ less = IF own \in Boilerplate THEN Less(depth) ELSE depth
    BY <1>8
  <2>2. last \in 1 .. size
    BY <1>3
  <2>3. DOMAIN rest = 1 .. last - 1 /\ \A k \in 1 .. last - 1 : rest[k] = stack[k]
    BY <1>2, <2>1, <2>2
  <2>4. /\ \A name : OpenAs(rest, name) \subseteq OpenAs(stack, name)
        /\ OpenAs(rest, own) \subseteq OpenAs(stack, own) \ {last}
    BY <1>2, <2>2, <2>3 DEF OpenAs
  <2>5. \E left : Due(g, n + 1, rest, less, left)
    <3>1. CASE own \in Boilerplate
      <4>1. PICK left : depth > 0 /\ Due(g, n + 1, rest, depth - 1, left)
        BY <1>1, <1>4, <2>4, <3>1, DueEnds DEF token
      <4>2. less = depth - 1
        BY <2>1, <3>1, <4>1 DEF Less
      <4> QED
        BY <4>1, <4>2
    <3>2. CASE own \notin Boilerplate
      <4>1. \A name : /\ Cardinality(OpenAs(rest, name)) <= Cardinality(OpenAs(stack, name))
                      /\ Cardinality(OpenAs(rest, name)) \in Nat
        <5> SUFFICES ASSUME NEW name
                     PROVE  /\ Cardinality(OpenAs(rest, name)) <= Cardinality(OpenAs(stack, name))
                            /\ Cardinality(OpenAs(rest, name)) \in Nat
          OBVIOUS
        <5>1. OpenAs(rest, name) \in SUBSET OpenAs(stack, name)
          BY <2>4
        <5>2. IsFiniteSet(OpenAs(rest, name))
          BY <1>3, <5>1, CountedPlaces
        <5> QED
          BY <1>3, <5>1, <5>2, CountedPlaces, FS_CardinalityType
      <4>2. Due(g, n + 1, rest, depth, due)
        BY <1>1, <1>3, <1>4, <4>1, DueStays
      <4> QED
        BY <2>1, <3>2, <4>2
    <3> QED
      BY <3>1, <3>2
  <2>6. ASSUME NestedIn(g, n + 1) PROVE \E place : Opens(g, n + 1, rest, less, place)
    <3>1. size # 0 /\ size \in 1 .. size /\ stack[size] = own
      BY <2>6, <1>5
    <3>2. PICK place : Opens(f, n, stack, depth, place)
      BY <2>6, <1>5
    <3>3. last = size
      BY <1>2, <2>1, <2>2, <3>1 DEF OpenAs
    <3>4. PICK inner \in Nat : size = inner + 1
      BY <1>2, <3>1, SMTT(30)
    <3>5. rest = SubSeq(stack, 1, inner)
      BY <2>1, <3>3, <3>4
    <3>6. inner + 1 = Len(stack) /\ stack[inner + 1] = own
      BY <1>2, <3>1, <3>4
    <3>7. /\ own \in Boilerplate => depth # 0
          /\ \E shorter : Opens(g, n + 1, SubSeq(stack, 1, inner),
                                IF own \in Boilerplate THEN depth - 1 ELSE depth, shorter)
      BY <1>4, <3>2, <3>6, OpensEnds DEF token
    <3>8. less = IF own \in Boilerplate THEN depth - 1 ELSE depth
      BY <2>1, <3>7 DEF Less
    <3> QED
      BY <3>5, <3>7, <3>8
  <2> QED
    BY <1>6, <2>5, <2>6 DEF PageHolds
<1> QED
  BY <1>7, <1>8

-----------------------------------------------------------------------------
(* The parser *)

Held == PageHolds(tokens, Len(tokens), open, skipDepth, textAt)

LEMMA HeldBefore == PageTypeOK => (PageIInv <=> Held)
<1> SUFFICES ASSUME PageTypeOK PROVE PageIInv <=> Held
  OBVIOUS
<1>1. tokens \in Seq(Token) /\ TokensAreSeq
  BY DEF PageTypeOK, TokensAreSeq
<1>2. ByThePage
  BY <1>1, PagesBefore
<1>3. SkipCountsTheOpen <=> \E due : Due(tokens, Len(tokens), open, skipDepth, due)
  <2>1. \A due : Due(tokens, Len(tokens), open, skipDepth, due) => due \in SUBSET (DOMAIN tokens)
    BY <1>1 DEF Due, TokensAreSeq
  <2> QED
    BY <2>1 DEF SkipCountsTheOpen
<1>4. OpenIsUnclosed <=> (NestedIn(tokens, Len(tokens))
                            => \E place : Opens(tokens, Len(tokens), open, skipDepth, place))
  <2>1. \A place : Opens(tokens, Len(tokens), open, skipDepth, place)
                     => place \in [DOMAIN open -> DOMAIN tokens]
    BY <1>1 DEF Opens, TokensAreSeq
  <2> QED
    BY <1>2, <2>1 DEF OpenIsUnclosed, ByThePage
<1> QED
  BY <1>2, <1>3, <1>4 DEF PageIInv, Held, PageHolds, ByThePage
LEMMA HeldAfter == PageTypeOK' => (PageIInv' <=> Held')
BY HeldBefore, PTL

LEMMA InitPageIInv == PageInit => PageIInv
<1> SUFFICES ASSUME PageInit PROVE PageIInv
  OBVIOUS
<1>1. /\ tokens = << >> /\ open = << >> /\ skipDepth = 0 /\ textAt = << >> /\ hrefs = << >>
      /\ titleAt = 0 /\ description = 0 /\ ogDescription = 0 /\ base = "none"
  BY DEF PageInit
<1>2. PageTypeOK
  BY <1>1 DEF PageTypeOK
<1>3. /\ Len(tokens) = 0 /\ DOMAIN open = {} /\ Len(open) = 0 /\ DOMAIN textAt = {}
  BY <1>1
<1>4. Due(tokens, 0, open, 0, {})
  <2>1. IsFiniteSet({}) /\ Cardinality({}) = 0
    BY FS_EmptySet
  <2>2. \A name : OpenAs(open, name) = {} /\ Waiting(tokens, {}, name) = {}
    BY <1>3 DEF OpenAs, Waiting
  <2>3. InsideIn(tokens, 0 + 1) = {}
    BY DEF InsideIn
  <2> QED
    BY <2>1, <2>2, <2>3 DEF Due, Chained
<1>5. Opens(tokens, 0, open, 0, << >>)
  <2>1. \A name : \A m \in 0 + 1 .. 0 + 1 : m = 1
    OBVIOUS
  <2>2. \A k \in 0 .. 0 : k = 0
    OBVIOUS
  <2>3. \A name : LevelIn(tokens, name, 1) \in Int
    BY LevelSteps
  <2>4. {k \in DOMAIN open : open[k] \in Boilerplate} = {}
    BY <1>3
  <2>5. Cardinality({}) = 0
    BY FS_EmptySet
  <2>6. << >> \in [DOMAIN open -> 1 .. 0]
    BY <1>1
  <2> QED
    BY <1>3, <2>1, <2>2, <2>3, <2>4, <2>5, <2>6 DEF Opens, At
<1>6. ContentOf(tokens, 0, textAt)
  BY <1>3 DEF ContentOf
<1>7. Held
  BY <1>1, <1>3, <1>4, <1>5, <1>6 DEF Held, PageHolds
<1> QED
  BY <1>2, <1>7, HeldBefore

LEMMA TokensOfPage ==
    /\ \A name \in Names :
          /\ [kind |-> "start", what |-> name] \in Token
          /\ [kind |-> "end", what |-> name] \in Token
    /\ [kind |-> "text", what |-> "body"] \in Token
    /\ [kind |-> "text", what |-> "title"] \in Token
    /\ \A href \in Href : [kind |-> "link", what |-> href] \in Token
    /\ \A href \in BaseHref : [kind |-> "base", what |-> href] \in Token
    /\ \A kind \in {"description", "og"} : [kind |-> "meta", what |-> kind] \in Token
BY Zenon DEF Token

\* Positions in a page are positions in a longer one.
LEMMA PlacesKept ==
    ASSUME NEW n \in Nat, NEW at \in Seq(1 .. n)
    PROVE  at \in Seq(1 .. n + 1) /\ Append(at, n + 1) \in Seq(1 .. n + 1)
<1>1. at \in Seq(1 .. n + 1)
  OBVIOUS
<1>2. n + 1 \in 1 .. n + 1
  OBVIOUS
<1> DEFINE S == 1 .. n + 1
<1> HIDE DEF S
<1>3. \A x \in S : \A s \in Seq(S) : Append(s, x) \in Seq(S)
  OBVIOUS
<1> QED
  BY <1>1, <1>2, <1>3 DEF S

LEMMA StartTagStep ==
    ASSUME PageIInv, NEW name \in Names, StartTag(name) PROVE PageIInv'
<1> DEFINE token == [kind |-> "start", what |-> name]
           depth == IF name \in Boilerplate THEN skipDepth + 1 ELSE skipDepth
<1>1. /\ Sees("start", name) /\ token \in Token
      /\ open' = Append(open, name) /\ skipDepth' = depth
      /\ textAt' = textAt /\ hrefs' = hrefs /\ base' = base /\ titleAt' = titleAt
      /\ description' = description /\ ogDescription' = ogDescription
  BY TokensOfPage DEF StartTag
<1>2. PageTypeOK /\ Held
  BY HeldBefore DEF PageIInv
<1>3. PICK n \in Nat :
        /\ Len(tokens) = n /\ Len(tokens') = n + 1 /\ tokens' \in Seq(Token)
        /\ DOMAIN tokens = 1 .. n /\ DOMAIN tokens' = 1 .. n + 1
        /\ Grown(tokens, tokens', n, token) /\ Place = n + 1
  BY <1>1, <1>2, PageGrows
<1>4. /\ open \in Seq(Names) /\ skipDepth \in Nat /\ textAt \in Seq(1 .. n)
      /\ hrefs \in Seq(Href) /\ base \in BaseHref \cup {"none"}
      /\ titleAt \in 0 .. n /\ description \in 0 .. n /\ ogDescription \in 0 .. n
  BY <1>2, <1>3 DEF PageTypeOK
<1>5. PageTypeOK'
  <2>1. textAt \in Seq(1 .. n + 1)
    BY <1>4, PlacesKept
  <2>2. Append(open, name) \in Seq(Names) /\ depth \in Nat
    BY <1>4
  <2> QED
    BY <1>1, <1>3, <1>4, <2>1, <2>2 DEF PageTypeOK
<1>6. PageHolds(tokens', n + 1, Append(open, name), depth, textAt)
  BY <1>2, <1>3, <1>4, StartHolds DEF Held
<1>7. Held'
  BY <1>1, <1>3, <1>6 DEF Held
<1> QED
  BY <1>5, <1>7, HeldAfter

LEMMA EndTagStep ==
    ASSUME PageIInv, NEW name \in Names, EndTag(name) PROVE PageIInv'
<1> DEFINE token == [kind |-> "end", what |-> name]
           places == {i \in DOMAIN open : open[i] = name}
           last == CHOOSE i \in places : \A j \in places : j <= i
<1>1. /\ Sees("end", name) /\ token \in Token
      /\ textAt' = textAt /\ hrefs' = hrefs /\ base' = base /\ titleAt' = titleAt
      /\ description' = description /\ ogDescription' = ogDescription
  BY TokensOfPage DEF EndTag
<1>2. /\ places = {} => open' = open /\ skipDepth' = skipDepth
      /\ places # {} => /\ open' = SubSeq(open, 1, last - 1)
                        /\ skipDepth' = IF name \in Boilerplate THEN Less(skipDepth) ELSE skipDepth
  BY DEF EndTag
<1>3. PageTypeOK /\ Held
  BY HeldBefore DEF PageIInv
<1>4. PICK n \in Nat :
        /\ Len(tokens) = n /\ Len(tokens') = n + 1 /\ tokens' \in Seq(Token)
        /\ DOMAIN tokens = 1 .. n /\ DOMAIN tokens' = 1 .. n + 1
        /\ Grown(tokens, tokens', n, token) /\ Place = n + 1
  BY <1>1, <1>3, PageGrows
<1>5. /\ open \in Seq(Names) /\ skipDepth \in Nat /\ textAt \in Seq(1 .. n)
      /\ hrefs \in Seq(Href) /\ base \in BaseHref \cup {"none"}
      /\ titleAt \in 0 .. n /\ description \in 0 .. n /\ ogDescription \in 0 .. n
  BY <1>3, <1>4 DEF PageTypeOK
<1>6. PICK size \in Nat : size = Len(open) /\ DOMAIN open = 1 .. size
  BY <1>5
<1>7. places # {} => last \in places /\ \A j \in places : j <= last
  <2>1. places \subseteq 0 .. size
    BY <1>6
  <2>2. places # {} => \E i \in places : \A j \in places : j <= i
    <3> HIDE DEF places
    <3> QED
      BY <1>6, <2>1, GreatestOf
  <2> HIDE DEF places
  <2> QED
    BY <2>2
<1>8. open' \in Seq(Names) /\ skipDepth' \in Nat
  <2>1. Less(skipDepth) \in Nat
    BY <1>5 DEF Less
  <2>2. CASE places = {}
    BY <1>2, <1>5, <2>2
  <2>3. CASE places # {}
    <3>1. last \in 1 .. size
      BY <1>6, <1>7, <2>3
    <3> HIDE DEF last
    <3>2. SubSeq(open, 1, last - 1) \in Seq(Names)
      BY <1>5, <1>6, <3>1
    <3> QED
      BY <1>2, <1>5, <2>1, <2>3, <3>2
  <2> QED
    BY <2>2, <2>3
<1>9. PageTypeOK'
  <2>1. textAt \in Seq(1 .. n + 1)
    BY <1>5, PlacesKept
  <2> QED
    BY <1>1, <1>4, <1>5, <1>8, <2>1 DEF PageTypeOK
<1>10. PICK rest : rest = open'
  OBVIOUS
<1>11. PICK less : less = skipDepth'
  OBVIOUS
<1>12. IF OpenAs(open, name) = {} THEN rest = open /\ less = skipDepth
       ELSE \E final \in OpenAs(open, name) :
              /\ \A k \in OpenAs(open, name) : k <= final
              /\ rest = SubSeq(open, 1, final - 1)
              /\ less = IF name \in Boilerplate THEN Less(skipDepth) ELSE skipDepth
  <2>1. OpenAs(open, name) = places
    BY DEF OpenAs
  <2> HIDE DEF places, last
  <2> QED
    BY <1>2, <1>7, <1>10, <1>11, <2>1
<1>13. PageHolds(tokens', n + 1, rest, less, textAt)
  <2>1. Grown(tokens, tokens', n, [kind |-> "end", what |-> name])
    BY <1>4
  <2>2. PageHolds(tokens, n, open, skipDepth, textAt)
    BY <1>3, <1>4 DEF Held
  <2> QED
    BY <1>5, <1>12, <2>1, <2>2, EndHolds
<1>14. Held'
  BY <1>1, <1>4, <1>10, <1>11, <1>13 DEF Held
<1> QED
  BY <1>9, <1>14, HeldAfter

\* Text, TitleText, Anchor, BaseTag and MetaTag leave the elements as they are.
LEMMA OtherStep ==
    ASSUME PageIInv, NEW token \in Token, token.kind \notin {"start", "end"},
           Sees(token.kind, token.what), open' = open, skipDepth' = skipDepth,
           token = [kind |-> "text", what |-> "body"] /\ skipDepth = 0
             => textAt' = Append(textAt, Place),
           ~(token = [kind |-> "text", what |-> "body"] /\ skipDepth = 0) => textAt' = textAt,
           hrefs' \in Seq(Href), base' \in BaseHref \cup {"none"},
           {titleAt', description', ogDescription'}
             \subseteq {titleAt, description, ogDescription, Place}
    PROVE  PageIInv'
<1>1. PageTypeOK /\ Held
  BY HeldBefore DEF PageIInv
<1>2. token = [kind |-> token.kind, what |-> token.what]
  BY DEF Token
<1>3. PICK n \in Nat :
        /\ Len(tokens) = n /\ Len(tokens') = n + 1 /\ tokens' \in Seq(Token)
        /\ DOMAIN tokens = 1 .. n /\ DOMAIN tokens' = 1 .. n + 1
        /\ Grown(tokens, tokens', n, token) /\ Place = n + 1
  BY <1>1, <1>2, PageGrows
<1>4. /\ open \in Seq(Names) /\ skipDepth \in Nat /\ textAt \in Seq(1 .. n)
      /\ {titleAt, description, ogDescription} \subseteq 0 .. n
  BY <1>1, <1>3 DEF PageTypeOK
<1>5. PICK after : after = textAt'
  OBVIOUS
<1>6. /\ token = [kind |-> "text", what |-> "body"] /\ skipDepth = 0 => after = Append(textAt, n + 1)
      /\ ~(token = [kind |-> "text", what |-> "body"] /\ skipDepth = 0) => after = textAt
  BY <1>3, <1>5
<1>7. PageTypeOK'
  <2>1. textAt \in Seq(1 .. n + 1) /\ Append(textAt, n + 1) \in Seq(1 .. n + 1)
    BY <1>4, PlacesKept
  <2>2. textAt' \in Seq(1 .. n + 1)
    BY <1>5, <1>6, <2>1
  <2>3. {titleAt', description', ogDescription'} \subseteq 0 .. n + 1
    BY <1>3, <1>4
  <2> QED
    BY <1>3, <1>4, <2>2, <2>3 DEF PageTypeOK
<1>8. PageHolds(tokens', n + 1, open, skipDepth, after)
  <2>1. PageHolds(tokens, n, open, skipDepth, textAt)
    BY <1>1, <1>3 DEF Held
  <2> QED
    BY <1>3, <1>4, <1>6, <2>1, OtherHolds
<1>9. Held'
  BY <1>3, <1>5, <1>8 DEF Held
<1> QED
  BY <1>7, <1>9, HeldAfter

LEMMA TextStep == ASSUME PageIInv, Text PROVE PageIInv'
<1> DEFINE token == [kind |-> "text", what |-> "body"]
<1>1. /\ Sees("text", "body") /\ open' = open /\ skipDepth' = skipDepth
      /\ hrefs' = hrefs /\ base' = base
      /\ {titleAt', description', ogDescription'} \subseteq {titleAt, description, ogDescription}
      /\ textAt' = IF skipDepth = 0 THEN Append(textAt, Place) ELSE textAt
  BY DEF Text
<1>2. token \in Token /\ token.kind \notin {"start", "end"}
  BY TokensOfPage
<1>3. hrefs \in Seq(Href) /\ base \in BaseHref \cup {"none"}
  BY DEF PageIInv, PageTypeOK
<1>4. Sees(token.kind, token.what)
  BY <1>1
<1>5. /\ token = [kind |-> "text", what |-> "body"] /\ skipDepth = 0
            => textAt' = Append(textAt, Place)
      /\ ~(token = [kind |-> "text", what |-> "body"] /\ skipDepth = 0) => textAt' = textAt
  BY <1>1
<1> HIDE DEF token
<1> QED
  BY <1>1, <1>2, <1>3, <1>4, <1>5, OtherStep

LEMMA TitleTextStep == ASSUME PageIInv, TitleText PROVE PageIInv'
<1> DEFINE token == [kind |-> "text", what |-> "title"]
<1>1. /\ Sees("text", "title") /\ open' = open /\ skipDepth' = skipDepth
      /\ hrefs' = hrefs /\ base' = base /\ textAt' = textAt
      /\ {titleAt', description', ogDescription'}
             \subseteq {titleAt, description, ogDescription, Place}
  BY DEF TitleText
<1>2. /\ token \in Token /\ token.kind \notin {"start", "end"}
      /\ token # [kind |-> "text", what |-> "body"] /\ Sees(token.kind, token.what)
  BY <1>1, TokensOfPage
<1>3. hrefs \in Seq(Href) /\ base \in BaseHref \cup {"none"}
  BY DEF PageIInv, PageTypeOK
<1> HIDE DEF token
<1> QED
  BY <1>1, <1>2, <1>3, OtherStep

LEMMA AnchorStep == ASSUME PageIInv, NEW href \in Href, Anchor(href) PROVE PageIInv'
<1> DEFINE token == [kind |-> "link", what |-> href]
<1>1. /\ Sees("link", href) /\ open' = open /\ skipDepth' = skipDepth
      /\ hrefs' = Append(hrefs, href) /\ base' = base /\ textAt' = textAt
      /\ {titleAt', description', ogDescription'} \subseteq {titleAt, description, ogDescription}
  BY DEF Anchor
<1>2. /\ token \in Token /\ token.kind \notin {"start", "end"}
      /\ token # [kind |-> "text", what |-> "body"] /\ Sees(token.kind, token.what)
  BY <1>1, TokensOfPage
<1>3. hrefs \in Seq(Href) /\ base \in BaseHref \cup {"none"}
  BY DEF PageIInv, PageTypeOK
<1>4. Append(hrefs, href) \in Seq(Href)
  BY <1>3
<1> HIDE DEF token
<1> QED
  BY <1>1, <1>2, <1>3, <1>4, OtherStep

LEMMA BaseTagStep == ASSUME PageIInv, NEW href \in BaseHref, BaseTag(href) PROVE PageIInv'
<1> DEFINE token == [kind |-> "base", what |-> href]
<1>1. /\ Sees("base", href) /\ open' = open /\ skipDepth' = skipDepth
      /\ hrefs' = hrefs /\ base' = href /\ textAt' = textAt
      /\ {titleAt', description', ogDescription'} \subseteq {titleAt, description, ogDescription}
  BY DEF BaseTag
<1>2. /\ token \in Token /\ token.kind \notin {"start", "end"}
      /\ token # [kind |-> "text", what |-> "body"] /\ Sees(token.kind, token.what)
  BY <1>1, TokensOfPage
<1>3. hrefs \in Seq(Href)
  BY DEF PageIInv, PageTypeOK
<1> HIDE DEF token
<1> QED
  BY <1>1, <1>2, <1>3, OtherStep

LEMMA MetaTagStep ==
    ASSUME PageIInv, NEW kind \in {"description", "og"}, MetaTag(kind) PROVE PageIInv'
<1> DEFINE token == [kind |-> "meta", what |-> kind]
<1>1. /\ Sees("meta", kind) /\ open' = open /\ skipDepth' = skipDepth
      /\ hrefs' = hrefs /\ base' = base /\ textAt' = textAt
      /\ {titleAt', description', ogDescription'}
             \subseteq {titleAt, description, ogDescription, Place}
  BY DEF MetaTag
<1>2. /\ token \in Token /\ token.kind \notin {"start", "end"}
      /\ token # [kind |-> "text", what |-> "body"] /\ Sees(token.kind, token.what)
  BY <1>1, TokensOfPage
<1>3. hrefs \in Seq(Href) /\ base \in BaseHref \cup {"none"}
  BY DEF PageIInv, PageTypeOK
<1> HIDE DEF token
<1> QED
  BY <1>1, <1>2, <1>3, OtherStep

LEMMA NextPageIInv == PageIInv /\ [PageNext]_pageVars => PageIInv'
<1> SUFFICES ASSUME PageIInv, [PageNext]_pageVars PROVE PageIInv'
  OBVIOUS
<1>1. CASE PageNext
  <2>1. \/ \E name \in Names : StartTag(name) \/ EndTag(name)
        \/ Text \/ TitleText
        \/ \E href \in Href : Anchor(href)
        \/ \E href \in BaseHref : BaseTag(href)
        \/ \E kind \in {"description", "og"} : MetaTag(kind)
    BY <1>1 DEF PageNext, Names
  <2> QED
    BY <2>1, StartTagStep, EndTagStep, TextStep, TitleTextStep, AnchorStep, BaseTagStep,
       MetaTagStep
<1>2. CASE UNCHANGED pageVars
  <2>1. /\ tokens' = tokens /\ open' = open /\ skipDepth' = skipDepth /\ titleAt' = titleAt
        /\ textAt' = textAt /\ hrefs' = hrefs /\ base' = base
        /\ description' = description /\ ogDescription' = ogDescription
    BY <1>2 DEF pageVars
  <2>2. PageTypeOK /\ Held
    BY HeldBefore DEF PageIInv
  <2>3. PageTypeOK' /\ Held'
    BY <2>1, <2>2 DEF PageTypeOK, Held
  <2> QED
    BY <2>3, HeldAfter
<1> QED
  BY <1>1, <1>2

\* Every state of the parser has the invariant: skip_depth counts start tags of
\* boilerplate that are all the next token can be inside of, and on a well nested
\* page exactly the boilerplate that is open (parser.rs, the skip handlers).
THEOREM SpecPageIInv == PageSpec => []PageIInv
<1> QED
  BY InitPageIInv, NextPageIInv, PTL DEF PageSpec

\* For any page: no text inside boilerplate is content, and on a well nested page
\* no other text is lost (parser.rs, skip_depth and the text handler).
THEOREM SpecTextIsContent == PageSpec => []TextIsContent
<1>1. PageIInv => TextIsContent
  BY DEF PageIInv
<1> QED
  BY <1>1, SpecPageIInv, PTL

-----------------------------------------------------------------------------
(* The links of a page *)

\* The first n of named, each once, in the order they first occur, less none.
FirstOf(named, n, none, urls) ==
    /\ ToSet(urls) = {named[k] : k \in 1 .. n} \ {none}
    /\ \A i, j \in DOMAIN urls : i < j =>
          /\ urls[i] # urls[j]
          /\ \E k \in 1 .. n : named[k] = urls[i] /\ \A m \in 1 .. k : named[m] # urls[j]

LEMMA OneMoreUrl ==
    ASSUME NEW X, NEW named, NEW n \in Nat, NEW none, NEW urls \in Seq(X),
           FirstOf(named, n, none, urls), NEW url \in X, url = named[n + 1], NEW after,
           url = none \/ url \in ToSet(urls) => after = urls,
           ~(url = none \/ url \in ToSet(urls)) => after = Append(urls, url)
    PROVE  after \in Seq(X) /\ FirstOf(named, n + 1, none, after)
<1>1. PICK size \in Nat : size = Len(urls) /\ DOMAIN urls = 1 .. size
  OBVIOUS
<1>2. /\ ToSet(urls) = {named[k] : k \in 1 .. n} \ {none}
      /\ \A i, j \in 1 .. size : i < j =>
            /\ urls[i] # urls[j]
            /\ \E k \in 1 .. n : named[k] = urls[i] /\ \A m \in 1 .. k : named[m] # urls[j]
  BY <1>1 DEF FirstOf
<1>3. {named[k] : k \in 1 .. n + 1} = {named[k] : k \in 1 .. n} \cup {url}
  <2>1. \A k : k \in 1 .. n + 1 <=> k \in 1 .. n \/ k = n + 1
    OBVIOUS
  <2> QED
    BY <2>1
<1>4. 1 .. n \subseteq 1 .. n + 1
  OBVIOUS
<1>5. CASE url = none \/ url \in ToSet(urls)
  <2>1. after = urls
    BY <1>5
  <2>2. {named[k] : k \in 1 .. n + 1} \ {none} = {named[k] : k \in 1 .. n} \ {none}
    BY <1>2, <1>3, <1>5
  <2>3. \A i, j \in DOMAIN urls : i < j =>
           /\ urls[i] # urls[j]
           /\ \E k \in 1 .. n + 1 : named[k] = urls[i] /\ \A m \in 1 .. k : named[m] # urls[j]
    <3> SUFFICES ASSUME NEW i \in 1 .. size, NEW j \in 1 .. size, i < j
                 PROVE  /\ urls[i] # urls[j]
                        /\ \E k \in 1 .. n + 1 :
                              named[k] = urls[i] /\ \A m \in 1 .. k : named[m] # urls[j]
      BY <1>1
    <3>1. urls[i] # urls[j]
      BY <1>2
    <3>2. PICK k \in 1 .. n : named[k] = urls[i] /\ \A m \in 1 .. k : named[m] # urls[j]
      BY <1>2
    <3> QED
      BY <1>4, <3>1, <3>2
  <2>4. ToSet(urls) = {named[k] : k \in 1 .. n + 1} \ {none}
    BY <1>2, <2>2
  <2>5. FirstOf(named, n + 1, none, urls)
    BY <2>3, <2>4 DEF FirstOf
  <2> QED
    BY <2>1, <2>5
<1>6. CASE ~(url = none \/ url \in ToSet(urls))
  <2>1. after = Append(urls, url)
    BY <1>6
  <2>2. /\ after \in Seq(X) /\ DOMAIN after = 1 .. size + 1
        /\ \A i \in 1 .. size : after[i] = urls[i]
        /\ after[size + 1] = url
    BY <1>1, <2>1
  <2>3. \A i \in 1 .. size + 1 : i \in 1 .. size \/ i = size + 1
    BY <1>1
  <2>4. 1 .. size \subseteq 1 .. size + 1 /\ size + 1 \in 1 .. size + 1
    BY <1>1
  <2>5. ToSet(after) = ToSet(urls) \cup {url}
    BY <1>1, <2>2, <2>3, <2>4 DEF ToSet
  <2>6. ToSet(after) = {named[k] : k \in 1 .. n + 1} \ {none}
    BY <1>2, <1>3, <1>6, <2>5
  <2>7. ASSUME NEW i \in 1 .. size + 1, NEW j \in 1 .. size + 1, i < j
        PROVE  /\ after[i] # after[j]
               /\ \E k \in 1 .. n + 1 : named[k] = after[i] /\ \A m \in 1 .. k : named[m] # after[j]
    <3>1. i \in 1 .. size /\ after[i] = urls[i]
      BY <1>1, <2>2, <2>7
    <3>2. CASE j \in 1 .. size
      BY <1>2, <1>4, <2>2, <2>7, <3>1, <3>2
    <3>3. CASE j = size + 1
      <4>1. after[j] = url /\ url # none /\ url \notin ToSet(urls)
        BY <1>6, <2>2, <3>3
      <4>2. urls[i] \in ToSet(urls)
        BY <1>1, <3>1 DEF ToSet
      <4>3. PICK k \in 1 .. n : named[k] = urls[i]
        BY <1>2, <4>2
      <4>4. \A m \in 1 .. k : m \in 1 .. n
        OBVIOUS
      <4>5. \A m \in 1 .. k : named[m] # url
        BY <1>2, <4>1, <4>4
      <4> QED
        BY <1>4, <3>1, <4>1, <4>2, <4>3, <4>5
    <3> QED
      BY <2>3, <3>2, <3>3
  <2>8. \A i, j \in DOMAIN after : i < j =>
          /\ after[i] # after[j]
          /\ \E k \in 1 .. n + 1 : named[k] = after[i] /\ \A m \in 1 .. k : named[m] # after[j]
    BY <2>2, <2>7, SMTT(30)
  <2> QED
    BY <2>2, <2>6, <2>8, Zenon DEF FirstOf
<1> QED
  BY <1>5, <1>6

\* The loop of resolve_links has found, at any point, what it has passed.
LEMMA LinksAreFound ==
    ASSUME NEW raw, NEW size \in Nat, size = Len(raw), NEW b \in Absolute
    PROVE  FirstOf([k \in 1 .. size |-> Resolved[b][raw[k]]], size, "none", ResolveLinks(raw, b))
<1> DEFINE X == {Resolved[b][raw[k]] : k \in 1 .. size}
           More(x, i) == IF Resolved[b][raw[i]] = "none" \/ Resolved[b][raw[i]] \in ToSet(x) THEN x
                         ELSE Append(x, Resolved[b][raw[i]])
           turn == [step \in (1 .. size) \X Seq(X) |-> More(step[2], step[1])]
           named == [k \in 1 .. size |-> Resolved[b][raw[k]]]
           Loop(f) == f = [n \in 0 .. size |->
                             IF n = 0 THEN << >>
                             ELSE LET url == Resolved[b][raw[n]]
                                  IN  IF url = "none" \/ url \in ToSet(f[n - 1]) THEN f[n - 1]
                                      ELSE Append(f[n - 1], url)]
<1>1. /\ \A i \in 1 .. size : Resolved[b][raw[i]] \in X /\ named[i] = Resolved[b][raw[i]]
      /\ << >> \in Seq(X)
  OBVIOUS
<1> HIDE DEF X, named
<1>2. ASSUME NEW x \in Seq(X), NEW i \in 1 .. size
      PROVE  More(x, i) \in Seq(X)
  BY <1>1
<1>3. \A i \in 1 .. size : \A x \in Seq(X) : turn[<<i, x>>] \in Seq(X) /\ turn[<<i, x>>] = More(x, i)
  BY <1>2
<1>4. \E f : Runs(f, size, Seq(X), << >>, turn)
  <2> HIDE DEF turn
  <2> QED
    BY <1>1, <1>3, LoopRuns
<1>5. \E f : Loop(f)
  <2>1. PICK f : Runs(f, size, Seq(X), << >>, turn)
    BY <1>4
  <2> HIDE DEF turn
  <2>2. /\ f \in [0 .. size -> Seq(X)] /\ f[0] = << >>
        /\ \A i \in 1 .. size : f[i] = turn[<<i, f[i - 1]>>]
    BY <2>1 DEF Runs
  <2>3. \A i \in 1 .. size : i - 1 \in 0 .. size /\ i \in 0 .. size /\ i # 0
    OBVIOUS
  <2>4. \A i \in 1 .. size : f[i] = More(f[i - 1], i)
    BY <1>3, <2>2, <2>3
  <2>5. \A i \in 0 .. size : i = 0 \/ i \in 1 .. size
    OBVIOUS
  <2>6. Loop(f)
    BY <2>2, <2>4, <2>5
  <2> QED
    BY <2>6
<1> DEFINE found == CHOOSE f : Loop(f)
<1>6. Loop(found)
  <2> HIDE DEF Loop
  <2> QED
    BY <1>5
<1>7. ResolveLinks(raw, b) = found[size]
  BY DEF ResolveLinks
<1> HIDE DEF found
<1>8. found[0] = << >>
  BY <1>6
<1>9. \A n \in 1 .. size : found[n] = More(found[n - 1], n)
  <2>1. \A n \in 1 .. size : n \in 0 .. size /\ n # 0
    OBVIOUS
  <2> QED
    BY <1>6, <2>1
<1> DEFINE S == {n \in Nat : n <= size =>
                    found[n] \in Seq(X) /\ FirstOf(named, n, "none", found[n])}
<1>10. 0 \in S
  <2>1. {named[k] : k \in 1 .. 0} = {} /\ ToSet(<< >>) = {} /\ DOMAIN << >> = {}
    BY DEF ToSet
  <2> QED
    BY <1>1, <1>8, <2>1 DEF FirstOf
<1>11. ASSUME NEW n \in Nat, n \in S PROVE n + 1 \in S
  <2> SUFFICES ASSUME n + 1 <= size
               PROVE  found[n + 1] \in Seq(X) /\ FirstOf(named, n + 1, "none", found[n + 1])
    OBVIOUS
  <2>1. /\ n + 1 \in 1 .. size /\ (n + 1) - 1 = n
        /\ found[n] \in Seq(X) /\ FirstOf(named, n, "none", found[n])
    BY <1>11
  <2> DEFINE url == Resolved[b][raw[n + 1]]
  <2>2. url \in X /\ url = named[n + 1]
    BY <1>1, <2>1
  <2>3. found[n + 1] = More(found[n], n + 1)
    BY <1>9, <2>1
  <2>4. /\ url = "none" \/ url \in ToSet(found[n]) => found[n + 1] = found[n]
        /\ ~(url = "none" \/ url \in ToSet(found[n])) => found[n + 1] = Append(found[n], url)
    BY <2>3
  <2>5. PICK before : before = found[n]
    OBVIOUS
  <2>6. PICK after : after = found[n + 1]
    OBVIOUS
  <2> HIDE DEF url
  <2>7. /\ before \in Seq(X) /\ FirstOf(named, n, "none", before)
        /\ url = "none" \/ url \in ToSet(before) => after = before
        /\ ~(url = "none" \/ url \in ToSet(before)) => after = Append(before, url)
    BY <2>1, <2>4, <2>5, <2>6
  <2>8. after \in Seq(X) /\ FirstOf(named, n + 1, "none", after)
    BY <2>2, <2>7, OneMoreUrl
  <2> QED
    BY <2>6, <2>8
<1> HIDE DEF S
<1>12. size \in S
  BY <1>10, <1>11, NatBySteps
<1>13. FirstOf(named, size, "none", found[size])
  BY <1>12 DEF S
<1> QED
  BY <1>7, <1>13 DEF named

\* For any page: its links are what its anchors name, each once, in the order they
\* first occur (parser.rs, resolve_links).
THEOREM SpecLinksAreTheAnchors == PageSpec => []LinksAreTheAnchors
<1>1. PageIInv => LinksAreTheAnchors
  <2> SUFFICES ASSUME PageIInv, ResolutionBase \in Absolute PROVE LinksAreTheAnchors
    BY DEF LinksAreTheAnchors
  <2> DEFINE urls == ResolveLinks(hrefs, ResolutionBase)
             named == [i \in DOMAIN hrefs |-> Resolved[ResolutionBase][hrefs[i]]]
  <2>1. PICK size \in Nat : size = Len(hrefs) /\ DOMAIN hrefs = 1 .. size
    <3>1. hrefs \in Seq(Href)
      BY DEF PageIInv, PageTypeOK
    <3> QED
      BY <3>1
  <2>2. FirstOf([k \in 1 .. size |-> Resolved[ResolutionBase][hrefs[k]]], size, "none", urls)
    BY <2>1, LinksAreFound
  <2>3. named = [k \in 1 .. size |-> Resolved[ResolutionBase][hrefs[k]]]
    BY <2>1
  <2>4. DOMAIN named = 1 .. size
    BY <2>1
  <2>5. LinksAreTheAnchors <=>
          /\ ToSet(urls) = ToSet(named) \ {"none"}
          /\ \A i, j \in DOMAIN urls : i < j =>
                /\ urls[i] # urls[j]
                /\ \E k \in DOMAIN named : named[k] = urls[i] /\ \A m \in 1 .. k : named[m] # urls[j]
    BY DEF LinksAreTheAnchors
  <2> HIDE DEF urls, named
  <2>6. FirstOf(named, size, "none", urls)
    BY <2>2, <2>3
  <2>7. ToSet(named) = {named[k] : k \in 1 .. size}
    BY <2>4 DEF ToSet
  <2>8. /\ ToSet(urls) = {named[k] : k \in 1 .. size} \ {"none"}
        /\ \A i, j \in DOMAIN urls : i < j =>
              /\ urls[i] # urls[j]
              /\ \E k \in 1 .. size : named[k] = urls[i] /\ \A m \in 1 .. k : named[m] # urls[j]
    BY <2>6, Zenon DEF FirstOf
  <2> QED
    BY <2>4, <2>5, <2>7, <2>8
<1> QED
  BY <1>1, SpecPageIInv, PTL

-----------------------------------------------------------------------------
(* The URL that a link is queued as *)

\* What strip_tracking_params has kept of the first n parameters.
KeptOf(query, n, kept) ==
    /\ \A i \in DOMAIN kept : NotTracking(kept[i]) /\ kept[i] \in ToSet(query)
    /\ Len(kept) <= n
    /\ Len(kept) = n => \A i \in 1 .. n : kept[i] = query[i]
    /\ (\A i \in 1 .. n : NotTracking(query[i])) => Len(kept) = n

LEMMA OneMoreParam ==
    ASSUME NEW X, NEW query, NEW n \in Nat, NEW kept \in Seq(X), KeptOf(query, n, kept),
           NEW param \in X, param = query[n + 1], param \in ToSet(query), NEW after,
           NotTracking(param) => after = Append(kept, param),
           ~NotTracking(param) => after = kept
    PROVE  after \in Seq(X) /\ KeptOf(query, n + 1, after)
<1>1. PICK size \in Nat : size = Len(kept) /\ DOMAIN kept = 1 .. size
  OBVIOUS
<1>2. /\ \A i \in 1 .. size : NotTracking(kept[i]) /\ kept[i] \in ToSet(query)
      /\ size <= n
      /\ size = n => \A i \in 1 .. n : kept[i] = query[i]
      /\ (\A i \in 1 .. n : NotTracking(query[i])) => size = n
  BY <1>1 DEF KeptOf
<1>3. 1 .. n \subseteq 1 .. n + 1 /\ n + 1 \in 1 .. n + 1
  OBVIOUS
<1>4. CASE NotTracking(param)
  <2>1. /\ after \in Seq(X) /\ Len(after) = size + 1 /\ DOMAIN after = 1 .. size + 1
        /\ \A i \in 1 .. size : after[i] = kept[i]
        /\ after[size + 1] = param
    BY <1>1, <1>4
  <2>2. \A i \in 1 .. size + 1 : i \in 1 .. size \/ i = size + 1
    BY <1>1
  <2>3. \A i \in DOMAIN after : NotTracking(after[i]) /\ after[i] \in ToSet(query)
    BY <1>2, <1>4, <2>1, <2>2
  <2>4. Len(after) <= n + 1
    BY <1>1, <1>2, <2>1
  <2>5. Len(after) = n + 1 => \A i \in 1 .. n + 1 : after[i] = query[i]
    BY <1>1, <1>2, <2>1, <2>2
  <2>6. (\A i \in 1 .. n + 1 : NotTracking(query[i])) => Len(after) = n + 1
    BY <1>2, <1>3, <2>1
  <2> QED
    BY <2>1, <2>3, <2>4, <2>5, <2>6 DEF KeptOf
<1>5. CASE ~NotTracking(param)
  <2>1. after = kept /\ Len(after) <= n + 1 /\ Len(after) # n + 1
    BY <1>1, <1>2, <1>5
  <2>2. ~(\A i \in 1 .. n + 1 : NotTracking(query[i]))
    BY <1>3, <1>5
  <2> QED
    BY <1>1, <1>2, <2>1, <2>2 DEF KeptOf
<1> QED
  BY <1>4, <1>5

\* The filter keeps the parameters that are not tracking ones, and all of them
\* if none is.
LEMMA UntrackedIsKept ==
    ASSUME NEW query, NEW size \in Nat, size = Len(query), DOMAIN query = 1 .. size
    PROVE  Untracked(query) \in Seq(ToSet(query)) /\ KeptOf(query, size, Untracked(query))
<1> DEFINE X == ToSet(query)
           More(x, i) == IF NotTracking(query[i]) THEN Append(x, query[i]) ELSE x
           turn == [step \in (1 .. size) \X Seq(X) |-> More(step[2], step[1])]
           Loop(f) == f = [n \in 0 .. size |->
                             IF n = 0 THEN << >>
                             ELSE IF NotTracking(query[n]) THEN Append(f[n - 1], query[n])
                                  ELSE f[n - 1]]
<1>1. /\ \A i \in 1 .. size : query[i] \in X
      /\ << >> \in Seq(X)
  BY DEF ToSet
<1> HIDE DEF X
<1>2. ASSUME NEW x \in Seq(X), NEW i \in 1 .. size
      PROVE  More(x, i) \in Seq(X)
  BY <1>1
<1>3. \A i \in 1 .. size : \A x \in Seq(X) : turn[<<i, x>>] \in Seq(X) /\ turn[<<i, x>>] = More(x, i)
  BY <1>2
<1>4. \E f : Runs(f, size, Seq(X), << >>, turn)
  <2> HIDE DEF turn
  <2> QED
    BY <1>1, <1>3, LoopRuns
<1>5. \E f : Loop(f)
  <2>1. PICK f : Runs(f, size, Seq(X), << >>, turn)
    BY <1>4
  <2> HIDE DEF turn
  <2>2. /\ f \in [0 .. size -> Seq(X)] /\ f[0] = << >>
        /\ \A i \in 1 .. size : f[i] = turn[<<i, f[i - 1]>>]
    BY <2>1 DEF Runs
  <2>3. \A i \in 1 .. size : i - 1 \in 0 .. size /\ i \in 0 .. size /\ i # 0
    OBVIOUS
  <2>4. \A i \in 1 .. size : f[i] = More(f[i - 1], i)
    BY <1>3, <2>2, <2>3, ZenonT(30)
  <2>5. \A i \in 0 .. size : i = 0 \/ i \in 1 .. size
    OBVIOUS
  <2>6. Loop(f)
    BY <2>2, <2>4, <2>5
  <2> QED
    BY <2>6
<1> DEFINE kept == CHOOSE f : Loop(f)
<1>6. Loop(kept)
  <2> HIDE DEF Loop
  <2> QED
    BY <1>5
<1>7. Untracked(query) = kept[size]
  BY DEF Untracked
<1> HIDE DEF kept
<1>8. kept[0] = << >>
  BY <1>6
<1>9. \A n \in 1 .. size : kept[n] = More(kept[n - 1], n)
  <2>1. \A n \in 1 .. size : n \in 0 .. size /\ n # 0
    OBVIOUS
  <2> QED
    BY <1>6, <2>1
<1> DEFINE S == {n \in Nat : n <= size => kept[n] \in Seq(X) /\ KeptOf(query, n, kept[n])}
<1>10. 0 \in S
  <2>1. PICK empty : empty = kept[0]
    OBVIOUS
  <2>2. empty \in Seq(X) /\ DOMAIN empty = {} /\ Len(empty) = 0 /\ 1 .. 0 = {}
    BY <1>1, <1>8, <2>1
  <2>3. KeptOf(query, 0, empty)
    BY <2>2 DEF KeptOf
  <2> QED
    BY <2>1, <2>2, <2>3
<1>11. ASSUME NEW n \in Nat, n \in S PROVE n + 1 \in S
  <2> SUFFICES ASSUME n + 1 <= size
               PROVE  kept[n + 1] \in Seq(X) /\ KeptOf(query, n + 1, kept[n + 1])
    OBVIOUS
  <2>1. /\ n + 1 \in 1 .. size /\ (n + 1) - 1 = n
        /\ kept[n] \in Seq(X) /\ KeptOf(query, n, kept[n])
    BY <1>11
  <2>2. PICK param : param = query[n + 1]
    OBVIOUS
  <2>3. PICK before : before = kept[n]
    OBVIOUS
  <2>4. PICK after : after = kept[n + 1]
    OBVIOUS
  <2>5. /\ param \in X /\ param \in ToSet(query)
        /\ before \in Seq(X) /\ KeptOf(query, n, before)
    BY <1>1, <2>1, <2>2, <2>3 DEF X
  <2>6. /\ NotTracking(param) => after = Append(before, param)
        /\ ~NotTracking(param) => after = before
    BY <1>9, <2>1, <2>2, <2>3, <2>4
  <2>7. after \in Seq(X) /\ KeptOf(query, n + 1, after)
    BY <2>2, <2>5, <2>6, OneMoreParam
  <2> QED
    BY <2>4, <2>7
<1> HIDE DEF S
<1>12. size \in S
  BY <1>10, <1>11, NatBySteps
<1>13. kept[size] \in Seq(X) /\ KeptOf(query, size, kept[size])
  BY <1>12 DEF S
<1> QED
  BY <1>7, <1>13 DEF X

\* What strip_tracking_params leaves has no tracking parameter, and is left by
\* itself as it is; what tells documents apart stays.
NamesOf(query) == [i \in DOMAIN query |-> query[i].name]
ParamsOf(query) == \A param \in ToSet(query) : param = [name |-> param.name, spelled |-> param.spelled]

LEMMA NothingToStrip ==
    ASSUME NEW query, query \in Seq(ToSet(query)), \A i \in DOMAIN query : NotTracking(query[i])
    PROVE  Untracked(query) = query /\ StripTrackingParams(query) = query
<1>1. PICK size \in Nat : size = Len(query) /\ DOMAIN query = 1 .. size
  OBVIOUS
<1>2. PICK kept : kept = Untracked(query)
  OBVIOUS
<1>3. kept \in Seq(ToSet(query)) /\ KeptOf(query, size, kept)
  BY <1>1, <1>2, UntrackedIsKept
<1>4. Len(kept) = size /\ \A i \in 1 .. size : kept[i] = query[i]
  BY <1>1, <1>3 DEF KeptOf
<1>5. kept = query
  BY <1>1, <1>3, <1>4
<1> QED
  BY <1>1, <1>2, <1>5 DEF StripTrackingParams

LEMMA Stripped ==
    ASSUME NEW query, query \in Seq(ToSet(query)), ParamsOf(query),
           NEW left, left = StripTrackingParams(query)
    PROVE  /\ left \in Seq(ToSet(left)) /\ ParamsOf(left)
           /\ \A i \in DOMAIN left : NotTracking(left[i])
           /\ NamesOf(left) = NamesOf(Untracked(query))
<1>1. PICK size \in Nat : size = Len(query) /\ DOMAIN query = 1 .. size
  OBVIOUS
<1>2. PICK kept : kept = Untracked(query)
  OBVIOUS
<1>3. kept \in Seq(ToSet(query)) /\ KeptOf(query, size, kept)
  BY <1>1, <1>2, UntrackedIsKept
<1>4. PICK rest \in Nat : rest = Len(kept) /\ DOMAIN kept = 1 .. rest
  BY <1>3
<1>5. \A i \in 1 .. rest : NotTracking(kept[i]) /\ kept[i] \in ToSet(query)
  BY <1>3, <1>4 DEF KeptOf
<1>6. CASE rest = size
  <2>1. \A i \in 1 .. size : kept[i] = query[i]
    BY <1>3, <1>4, <1>6 DEF KeptOf
  <2>2. kept = query
    BY <1>1, <1>3, <1>4, <1>6, <2>1
  <2>3. left = query
    BY <1>1, <1>2, <1>4, <1>6 DEF StripTrackingParams
  <2> QED
    BY <1>2, <1>4, <1>5, <2>2, <2>3
<1>7. CASE rest # size
  <2>1. left = [i \in 1 .. rest |-> [kept[i] EXCEPT !.spelled = "serialized"]]
    BY <1>1, <1>2, <1>4, <1>7 DEF StripTrackingParams
  <2>2. \A i \in 1 .. rest : left[i] = [name |-> kept[i].name, spelled |-> "serialized"]
    <3> SUFFICES ASSUME NEW i \in 1 .. rest
                 PROVE  left[i] = [name |-> kept[i].name, spelled |-> "serialized"]
      OBVIOUS
    <3>1. kept[i] = [name |-> kept[i].name, spelled |-> kept[i].spelled]
      BY <1>5 DEF ParamsOf
    <3>2. left[i] = [kept[i] EXCEPT !.spelled = "serialized"]
      BY <2>1
    <3>3. \A a, b : [[name |-> a, spelled |-> b] EXCEPT !.spelled = "serialized"]
                      = [name |-> a, spelled |-> "serialized"]
      OBVIOUS
    <3> QED
      BY <3>1, <3>2, <3>3
  <2>3. DOMAIN left = 1 .. rest /\ \A i \in 1 .. rest : left[i].name = kept[i].name
    BY <2>1, <2>2
  <2>4. \A i \in 1 .. rest : left[i] \in ToSet(left)
    BY <2>3 DEF ToSet
  <2>5. left \in Seq(ToSet(left))
    <3>1. left = [i \in 1 .. rest |-> left[i]]
      BY <2>1, <2>3
    <3> QED
      BY ONLY <2>4, <3>1, rest \in Nat
  <2>6. ParamsOf(left)
    BY <2>2, <2>3 DEF ParamsOf, ToSet
  <2>7. \A i \in 1 .. rest : NotTracking(left[i])
    BY <1>5, <2>3 DEF NotTracking
  <2>8. NamesOf(left) = NamesOf(kept)
    BY <1>4, <2>3 DEF NamesOf
  <2> QED
    BY <1>2, <2>3, <2>5, <2>6, <2>7, <2>8
<1> QED
  BY <1>6, <1>7

\* A canonical form is one of its own, without fragment and tracking parameters,
\* and of the document it was made from.
IsCanonical(url, u) ==
    /\ IsURL(u) /\ u.fragment = "none" /\ \A i \in DOMAIN u.query : NotTracking(u.query[i])
    /\ u.scheme = url.scheme /\ u.host = url.host /\ u.segment = url.segment
    /\ NamesOf(u.query) = NamesOf(Untracked(url.query))

LEMMA CanonicalOf ==
    ASSUME NEW url, IsURL(url), NEW u, u = CanonicalURL(url)
    PROVE  IsCanonical(url, u)
<1>1. /\ url.query \in Seq(ToSet(url.query)) /\ ParamsOf(url.query)
      /\ url.mark \in BOOLEAN /\ (url.mark \/ url.query = << >>)
  BY Zenon DEF IsURL, ParamsOf
<1>2. PICK left : left = StripTrackingParams(url.query)
  OBVIOUS
<1>3. u = [scheme |-> url.scheme, host |-> url.host, segment |-> url.segment,
           mark |-> KeepsMark(url), query |-> left, fragment |-> "none"]
  BY <1>2 DEF CanonicalURL
<1>4. /\ u.scheme = url.scheme /\ u.host = url.host /\ u.segment = url.segment
      /\ u.mark = KeepsMark(url) /\ u.query = left /\ u.fragment = "none"
  BY <1>3
<1>5. /\ left \in Seq(ToSet(left)) /\ ParamsOf(left)
      /\ \A i \in DOMAIN left : NotTracking(left[i])
      /\ NamesOf(left) = NamesOf(Untracked(url.query))
  BY <1>1, <1>2, Stripped
<1>6. KeepsMark(url) \in BOOLEAN /\ (KeepsMark(url) \/ left = << >>)
  <2>1. KeepsMark(url) \in BOOLEAN
    BY DEF KeepsMark
  <2>2. CASE url.query = << >>
    <3>1. \A i \in DOMAIN url.query : NotTracking(url.query[i])
      BY <2>2
    <3>2. StripTrackingParams(url.query) = url.query
      BY <1>1, <3>1, NothingToStrip
    <3> QED
      BY <1>2, <2>1, <2>2, <3>2
  <2>3. CASE url.query # << >> /\ Untracked(url.query) # << >>
    BY <1>1, <2>1, <2>3 DEF KeepsMark
  <2>4. CASE Untracked(url.query) = << >>
    <3>1. DOMAIN NamesOf(left) = DOMAIN left /\ DOMAIN NamesOf(<< >>) = {}
      BY DEF NamesOf
    <3>2. DOMAIN left = {}
      BY <1>5, <2>4, <3>1
    <3>3. left = << >>
      BY <1>5, <3>2
    <3> QED
      BY <2>1, <3>3
  <2> QED
    BY <2>2, <2>3, <2>4
<1>7. IsURL(u)
  BY <1>3, <1>4, <1>5, <1>6 DEF IsURL, ParamsOf
<1> QED
  BY <1>4, <1>5, <1>7 DEF IsCanonical

LEMMA CanonicalStays ==
    ASSUME NEW url, NEW u, IsCanonical(url, u)
    PROVE  CanonicalURL(u) = u /\ DocumentOf(u) = DocumentOf(url)
<1>1. /\ u = [scheme |-> u.scheme, host |-> u.host, segment |-> u.segment,
               mark |-> u.mark, query |-> u.query, fragment |-> u.fragment]
      /\ u.mark \in BOOLEAN /\ u.query \in Seq(ToSet(u.query))
  BY Zenon DEF IsCanonical, IsURL
<1>2. u.fragment = "none" /\ \A i \in DOMAIN u.query : NotTracking(u.query[i])
  BY DEF IsCanonical
<1>3. Untracked(u.query) = u.query /\ StripTrackingParams(u.query) = u.query
  BY <1>1, <1>2, NothingToStrip
<1>4. KeepsMark(u) = u.mark
  BY <1>1, <1>3 DEF KeepsMark
<1>5. CanonicalURL(u) = [scheme |-> u.scheme, host |-> u.host, segment |-> u.segment,
                         mark |-> u.mark, query |-> u.query, fragment |-> "none"]
  BY <1>3, <1>4 DEF CanonicalURL
<1>6. CanonicalURL(u) = u
  BY <1>1, <1>2, <1>5
<1>7. \A x : DocumentOf(x) = [host |-> x.host, scheme |-> x.scheme, segment |-> x.segment,
                              query |-> NamesOf(Untracked(x.query))]
  BY DEF DocumentOf, NamesOf
<1>8. DocumentOf(u) = DocumentOf(url)
  BY <1>3, <1>7 DEF IsCanonical
<1> QED
  BY <1>6, <1>8

\* Two canonical forms of one document, spelled alike, are one.
LEMMA OneForm ==
    ASSUME NEW url, NEW u, IsCanonical(url, u), NEW link, NEW v, IsCanonical(link, v),
           SerializedAlready(u), SerializedAlready(v), DocumentOf(u) = DocumentOf(v)
    PROVE  u = v
<1>1. /\ u = [scheme |-> u.scheme, host |-> u.host, segment |-> u.segment,
               mark |-> u.mark, query |-> u.query, fragment |-> u.fragment]
      /\ v = [scheme |-> v.scheme, host |-> v.host, segment |-> v.segment,
               mark |-> v.mark, query |-> v.query, fragment |-> v.fragment]
      /\ u.mark \in BOOLEAN /\ v.mark \in BOOLEAN
      /\ u.query \in Seq(ToSet(u.query)) /\ v.query \in Seq(ToSet(v.query))
      /\ ParamsOf(u.query) /\ ParamsOf(v.query)
  BY Zenon DEF IsCanonical, IsURL, ParamsOf
<1>2. /\ u.fragment = "none" /\ \A i \in DOMAIN u.query : NotTracking(u.query[i])
      /\ v.fragment = "none" /\ \A i \in DOMAIN v.query : NotTracking(v.query[i])
  BY DEF IsCanonical
<1>3. Untracked(u.query) = u.query /\ Untracked(v.query) = v.query
  BY <1>1, <1>2, NothingToStrip
<1>4. \A x : DocumentOf(x) = [host |-> x.host, scheme |-> x.scheme, segment |-> x.segment,
                              query |-> NamesOf(Untracked(x.query))]
  BY DEF DocumentOf, NamesOf
<1>5. /\ u.host = v.host /\ u.scheme = v.scheme /\ u.segment = v.segment
      /\ NamesOf(u.query) = NamesOf(v.query)
  <2>1. \A x : /\ DocumentOf(x).host = x.host /\ DocumentOf(x).scheme = x.scheme
               /\ DocumentOf(x).segment = x.segment
               /\ DocumentOf(x).query = NamesOf(Untracked(x.query))
    BY <1>4
  <2> QED
    BY <1>3, <2>1
<1>6. u.query = v.query
  <2>1. PICK size \in Nat : size = Len(u.query) /\ DOMAIN u.query = 1 .. size
    BY <1>1
  <2>2. DOMAIN u.query = DOMAIN NamesOf(u.query) /\ DOMAIN v.query = DOMAIN NamesOf(v.query)
    BY DEF NamesOf
  <2>3. DOMAIN v.query = 1 .. size
    BY <1>5, <2>1, <2>2
  <2>4. ASSUME NEW i \in 1 .. size PROVE u.query[i] = v.query[i]
    <3>1. NamesOf(u.query)[i] = u.query[i].name /\ NamesOf(v.query)[i] = v.query[i].name
      BY <2>1, <2>3 DEF NamesOf
    <3>2. u.query[i].spelled = "serialized" /\ v.query[i].spelled = "serialized"
      BY <2>1, <2>3 DEF SerializedAlready
    <3>3. u.query[i] \in ToSet(u.query) /\ v.query[i] \in ToSet(v.query)
      BY <2>1, <2>3 DEF ToSet
    <3>4. /\ u.query[i] = [name |-> u.query[i].name, spelled |-> u.query[i].spelled]
          /\ v.query[i] = [name |-> v.query[i].name, spelled |-> v.query[i].spelled]
      BY <1>1, <3>3, Zenon DEF ParamsOf
    <3> QED
      BY <1>5, <3>1, <3>2, <3>4
  <2>5. /\ u.query = [i \in 1 .. size |-> u.query[i]]
        /\ v.query = [i \in 1 .. size |-> v.query[i]]
    BY <1>1, <2>1, <2>3
  <2> QED
    BY <2>4, <2>5
<1>7. u.mark = v.mark
  BY <1>1, <1>6 DEF SerializedAlready
<1> QED
  BY <1>1, <1>2, <1>5, <1>6, <1>7

(* The inductive invariant of the scheduler: what it has queued are canonical   *)
(* forms, and they are among them of the links it had to take.                  *)
Wanted(link) == Fetchable(link) /\ InScope(link) /\ IsProbablyPage(link)
PolicyIInv ==
    /\ queuedURLs = seenURLs /\ batch \in Seq(LinkURL)
    /\ \A u \in queuedURLs : \E url \in SeedURL \cup LinkURL : u = CanonicalURL(url)
    /\ \A i \in DOMAIN batch : Wanted(batch[i]) => CanonicalURL(batch[i]) \in queuedURLs

LEMMA QueuedIsOneDocument == PolicyIInv => OneDocumentOneURL
<1> SUFFICES ASSUME PolicyIInv PROVE OneDocumentOneURL
  OBVIOUS
<1>1. \A url \in SeedURL \cup LinkURL : IsURL(url)
  BY PolicyAssumption
<1>2. \A u \in queuedURLs : \E url : IsCanonical(url, u)
  <2> SUFFICES ASSUME NEW u \in queuedURLs PROVE \E url : IsCanonical(url, u)
    OBVIOUS
  <2>1. PICK url \in SeedURL \cup LinkURL : u = CanonicalURL(url)
    BY DEF PolicyIInv
  <2> QED
    BY <1>1, <2>1, CanonicalOf
<1>3. ASSUME NEW u \in queuedURLs, NEW v \in queuedURLs,
             SerializedAlready(u), SerializedAlready(v), DocumentOf(u) = DocumentOf(v)
      PROVE  u = v
  BY <1>2, <1>3, OneForm
<1>4. ASSUME NEW i \in DOMAIN batch, Wanted(batch[i])
      PROVE  \E u \in queuedURLs : DocumentOf(u) = DocumentOf(batch[i])
  <2>1. PICK u : u = CanonicalURL(batch[i])
    OBVIOUS
  <2>2. batch[i] \in LinkURL /\ u \in queuedURLs
    BY <1>4, <2>1 DEF PolicyIInv
  <2>3. IsCanonical(batch[i], u)
    BY <1>1, <2>1, <2>2, CanonicalOf
  <2> QED
    BY <2>2, <2>3, CanonicalStays
<1>5. ASSUME NEW u \in queuedURLs
      PROVE  CanonicalURL(u) = u /\ \A i \in DOMAIN u.query : u.query[i].name \notin TrackingParam
  <2>1. PICK url : IsCanonical(url, u)
    BY <1>2
  <2>2. \A i \in DOMAIN u.query : NotTracking(u.query[i])
    BY <2>1 DEF IsCanonical
  <2> QED
    BY <2>1, <2>2, CanonicalStays DEF NotTracking
<1> QED
  BY <1>3, <1>4, <1>5 DEF OneDocumentOneURL, Wanted

LEMMA ScheduleStep ==
    ASSUME PolicyIInv, NEW link \in LinkURL, Schedule(link) PROVE PolicyIInv'
<1> DEFINE url == CanonicalURL(link)
<1>1. /\ batch' = Append(batch, link)
      /\ IF ~Fetchable(link) THEN Skip("unfetchable")
         ELSE IF ~InScope(url) THEN Skip("offsite")
         ELSE IF ~IsProbablyPage(url) THEN Skip("asset")
         ELSE IF url \in seenURLs THEN Skip("seen")
         ELSE seenURLs' = seenURLs \cup {url} /\ queuedURLs' = queuedURLs \cup {url}
      /\ stayOnSite' = stayOnSite /\ allowHost' = allowHost /\ seeds' = seeds
  BY DEF Schedule, flags
<1>2. IsCanonical(link, url)
  BY CanonicalOf, PolicyAssumption
<1>3. (InScope(url) <=> InScope(link)) /\ (IsProbablyPage(url) <=> IsProbablyPage(link))
  BY <1>2 DEF IsCanonical, InScope, IsProbablyPage
<1>4. \A x : Wanted(x)' <=> Wanted(x)
  <2>1. IsRestricted' <=> IsRestricted
    BY <1>1 DEF IsRestricted, ScopeHosts
  <2>2. ScopeHosts' = ScopeHosts
    BY <1>1 DEF ScopeHosts
  <2> QED
    BY <2>1, <2>2 DEF Wanted, InScope
<1> HIDE DEF url
<1>5. /\ seenURLs' = queuedURLs' /\ queuedURLs \subseteq queuedURLs'
      /\ queuedURLs' \subseteq queuedURLs \cup {url}
      /\ Wanted(link) => url \in queuedURLs'
  BY <1>1, <1>3 DEF Skip, Wanted, PolicyIInv
<1>6. PICK size \in Nat : size = Len(batch) /\ DOMAIN batch = 1 .. size
  BY DEF PolicyIInv
<1>7. /\ batch' \in Seq(LinkURL) /\ DOMAIN batch' = 1 .. size + 1
      /\ \A i \in 1 .. size : batch'[i] = batch[i]
      /\ batch'[size + 1] = link
  BY <1>1, <1>6 DEF PolicyIInv
<1>8. ASSUME NEW i \in 1 .. size + 1, Wanted(batch'[i])
      PROVE  CanonicalURL(batch'[i]) \in queuedURLs'
  <2>1. CASE i \in 1 .. size
    <3>1. Wanted(batch[i]) /\ batch'[i] = batch[i]
      BY <1>7, <1>8, <2>1
    <3>2. CanonicalURL(batch[i]) \in queuedURLs
      BY <1>6, <2>1, <3>1 DEF PolicyIInv
    <3> QED
      BY <1>5, <3>1, <3>2
  <2>2. CASE i = size + 1
    <3>1. batch'[i] = link
      BY <1>7, <2>2
    <3> QED
      BY <1>5, <1>8, <3>1 DEF url
  <2> QED
    BY <1>6, <2>1, <2>2
<1>9. \A u \in queuedURLs' : \E x \in SeedURL \cup LinkURL : u = CanonicalURL(x)
  BY <1>5 DEF PolicyIInv, url
<1> QED
  BY <1>4, <1>5, <1>7, <1>8, <1>9 DEF PolicyIInv

LEMMA InitPolicyIInv == PolicyInit => PolicyIInv
<1> SUFFICES ASSUME PolicyInit PROVE PolicyIInv
  OBVIOUS
<1>1. PICK starts \in SUBSET SeedURL :
        /\ seenURLs = {CanonicalURL(url) : url \in {s \in starts : Fetchable(s)}}
        /\ queuedURLs = seenURLs /\ batch = << >>
  BY DEF PolicyInit, PolicyBegin
<1> QED
  BY <1>1 DEF PolicyIInv

\* For any flags, seeds and links: one URL is queued of each document, and one of
\* each that a link within the crawl's scope leads to (policy.rs, canonical_url and
\* strip_tracking_params; main.rs, schedule).
THEOREM SpecOneDocumentOneURL == PolicySpec => []OneDocumentOneURL
<1>1. PolicyIInv /\ [PolicyNext]_policyVars => PolicyIInv'
  <2>1. ASSUME PolicyIInv, UNCHANGED policyVars PROVE PolicyIInv'
    <3>1. /\ queuedURLs' = queuedURLs /\ seenURLs' = seenURLs /\ batch' = batch
          /\ stayOnSite' = stayOnSite /\ allowHost' = allowHost /\ seeds' = seeds
      BY <2>1 DEF policyVars
    <3>2. ScopeHosts' = ScopeHosts /\ (IsRestricted' <=> IsRestricted)
      BY <3>1 DEF ScopeHosts, IsRestricted
    <3>3. \A x : Wanted(x)' <=> Wanted(x)
      BY <3>2 DEF Wanted, InScope
    <3> QED
      BY <2>1, <3>1, <3>3 DEF PolicyIInv
  <2> QED
    BY <2>1, ScheduleStep DEF PolicyNext
<1> QED
  BY <1>1, InitPolicyIInv, QueuedIsOneDocument, PTL DEF PolicySpec

-----------------------------------------------------------------------------
(* Collapsing white space: what is written after i characters.             *)
BlacksTo(s, i) == {j \in Blacks(s) : j <= i}
BreaksTo(s, i) == {j \in BlacksTo(s, i) :
                      j + 1 \in DOMAIN s \ Blacks(s) /\ \E m \in BlacksTo(s, i) : j < m}
BreaksBefore(s, i) == {j \in Breaks(s) : j < i}
PlaceOf(s, i) == Cardinality(BlacksTo(s, i)) + Cardinality(BreaksBefore(s, i))

\* What is counted is finite.
LEMMA CountedAreFinite ==
    ASSUME NEW X, NEW s \in Seq(X), NEW i \in Nat
    PROVE  /\ Blacks(s) \subseteq 1 .. Len(s) /\ DOMAIN s = 1 .. Len(s) /\ Len(s) \in Nat
           /\ IsFiniteSet(Blacks(s)) /\ IsFiniteSet(BlacksTo(s, i))
           /\ IsFiniteSet(BreaksTo(s, i)) /\ IsFiniteSet(BreaksBefore(s, i))
           /\ Cardinality(BlacksTo(s, i)) \in Nat /\ Cardinality(BreaksTo(s, i)) \in Nat
           /\ Cardinality(BreaksBefore(s, i)) \in Nat
<1>1. Blacks(s) \subseteq 1 .. Len(s) /\ DOMAIN s = 1 .. Len(s) /\ Len(s) \in Nat
  BY DEF Blacks
<1>2. IsFiniteSet(Blacks(s))
  <2>1. IsFiniteSet(1 .. Len(s))
    BY <1>1, FS_Interval
  <2> QED
    BY <1>1, <2>1, FS_Subset
<1>3. /\ BlacksTo(s, i) \subseteq Blacks(s) /\ BreaksTo(s, i) \subseteq Blacks(s)
      /\ BreaksBefore(s, i) \subseteq Blacks(s)
  BY DEF BlacksTo, BreaksTo, BreaksBefore, Breaks
<1>4. /\ IsFiniteSet(BlacksTo(s, i)) /\ IsFiniteSet(BreaksTo(s, i))
      /\ IsFiniteSet(BreaksBefore(s, i))
  BY <1>2, <1>3, FS_Subset
<1> QED
  BY <1>1, <1>2, <1>4, FS_CardinalityType

\* The breaks before a character of the text are the breaks up to it.
LEMMA BreaksBeforeBlack ==
    ASSUME NEW X, NEW s \in Seq(X), NEW j \in Blacks(s)
    PROVE  BreaksBefore(s, j) = BreaksTo(s, j)
<1>1. Blacks(s) \subseteq Nat /\ j \in Nat
  BY DEF Blacks
<1>2. ASSUME NEW m \in BreaksBefore(s, j) PROVE m \in BreaksTo(s, j)
  <2>1. m \in Blacks(s) /\ m + 1 \in DOMAIN s \ Blacks(s) /\ m < j
    BY <1>2 DEF BreaksBefore, Breaks
  <2>2. m \in Nat /\ j <= j /\ m <= j
    BY <1>1, <2>1
  <2>3. m \in BlacksTo(s, j) /\ j \in BlacksTo(s, j)
    BY <2>1, <2>2 DEF BlacksTo
  <2> QED
    BY <2>1, <2>3 DEF BreaksTo
<1>3. ASSUME NEW m \in BreaksTo(s, j) PROVE m \in BreaksBefore(s, j)
  <2>1. PICK l \in BlacksTo(s, j) : m < l
    BY <1>3 DEF BreaksTo
  <2>2. m \in Blacks(s) /\ m + 1 \in DOMAIN s \ Blacks(s)
    BY <1>3 DEF BreaksTo, BlacksTo
  <2>3. l \in Blacks(s) /\ l <= j
    BY DEF BlacksTo
  <2>4. m < j /\ l > m
    BY <1>1, <2>1, <2>2, <2>3
  <2> QED
    BY <2>2, <2>3, <2>4 DEF BreaksBefore, Breaks
<1> QED
  BY <1>2, <1>3

\* White space adds nothing to what is counted.
LEMMA WhiteCounts ==
    ASSUME NEW X, NEW s \in Seq(X), NEW i \in Nat, i + 1 \notin Blacks(s)
    PROVE  BlacksTo(s, i + 1) = BlacksTo(s, i) /\ BreaksTo(s, i + 1) = BreaksTo(s, i)
<1>1. Blacks(s) \subseteq Nat
  BY CountedAreFinite
<1>2. \A j \in Blacks(s) : j <= i + 1 <=> j <= i
  BY <1>1
<1>3. BlacksTo(s, i + 1) = BlacksTo(s, i)
  BY <1>2 DEF BlacksTo
<1> QED
  BY <1>3 DEF BreaksTo

\* A character counts.
LEMMA BlackCounts ==
    ASSUME NEW X, NEW s \in Seq(X), NEW i \in Nat, i + 1 \in Blacks(s)
    PROVE  /\ BlacksTo(s, i + 1) = BlacksTo(s, i) \cup {i + 1}
           /\ Cardinality(BlacksTo(s, i + 1)) = Cardinality(BlacksTo(s, i)) + 1
<1>1. Blacks(s) \subseteq Nat
  BY CountedAreFinite
<1>2. \A j \in Blacks(s) : j <= i + 1 <=> (j <= i \/ j = i + 1)
  BY <1>1
<1>3. BlacksTo(s, i + 1) = BlacksTo(s, i) \cup {i + 1}
  BY <1>2 DEF BlacksTo
<1>4. ~(i + 1 <= i)
  OBVIOUS
<1>5. i + 1 \notin BlacksTo(s, i)
  BY <1>4 DEF BlacksTo
<1>6. IsFiniteSet(BlacksTo(s, i))
  BY CountedAreFinite
<1> QED
  BY <1>3, <1>5, <1>6, FS_AddElement

\* A word that goes on breaks nowhere, nor does the first.
LEMMA WordGoesOn ==
    ASSUME NEW X, NEW s \in Seq(X), NEW i \in Nat, i + 1 \in Blacks(s),
           BlacksTo(s, i) = {} \/ i \in Blacks(s)
    PROVE  BreaksTo(s, i + 1) = BreaksTo(s, i)
<1>1. BlacksTo(s, i + 1) = BlacksTo(s, i) \cup {i + 1}
  BY BlackCounts
<1>2. BlacksTo(s, i) \subseteq Blacks(s) /\ \A j \in BlacksTo(s, i) : j <= i
  BY DEF BlacksTo
<1>3. ASSUME NEW j \in BreaksTo(s, i + 1) PROVE j \in BreaksTo(s, i)
  <2>1. /\ j \in BlacksTo(s, i + 1) /\ j + 1 \in DOMAIN s \ Blacks(s)
        /\ \E m \in BlacksTo(s, i + 1) : j < m
    BY <1>3 DEF BreaksTo
  <2>2. \A m \in BlacksTo(s, i + 1) : m \in Nat /\ m <= i + 1
    BY DEF BlacksTo, Blacks
  <2>3. j # i + 1 /\ j \in Nat
    BY <2>1, <2>2
  <2>4. j \in BlacksTo(s, i)
    BY <1>1, <2>1, <2>3
  <2>5. i \in Blacks(s)
    BY <2>4
  <2>6. j # i /\ j <= i
    BY <1>2, <2>1, <2>4
  <2>7. j < i /\ i <= i
    BY <2>3, <2>6
  <2>8. i \in BlacksTo(s, i)
    BY <2>5, <2>7 DEF BlacksTo
  <2> QED
    BY <2>1, <2>4, <2>7, <2>8 DEF BreaksTo
<1>4. BreaksTo(s, i) \subseteq BreaksTo(s, i + 1)
  BY <1>1 DEF BreaksTo
<1> QED
  BY <1>3, <1>4

\* The first word after white space breaks after the last one.
LEMMA WordBreaks ==
    ASSUME NEW X, NEW s \in Seq(X), NEW i \in Nat, i + 1 \in Blacks(s),
           i \notin Blacks(s), NEW b \in BlacksTo(s, i), \A j \in BlacksTo(s, i) : j <= b
    PROVE  /\ BreaksTo(s, i + 1) = BreaksTo(s, i) \cup {b}
           /\ Cardinality(BreaksTo(s, i + 1)) = Cardinality(BreaksTo(s, i)) + 1
           /\ BlacksTo(s, b) = BlacksTo(s, i) /\ BreaksTo(s, b) = BreaksTo(s, i)
<1>1. /\ Blacks(s) \subseteq 1 .. Len(s) /\ DOMAIN s = 1 .. Len(s) /\ Len(s) \in Nat
      /\ BlacksTo(s, i + 1) = BlacksTo(s, i) \cup {i + 1}
  BY CountedAreFinite, BlackCounts
<1>2. BlacksTo(s, i) \subseteq Blacks(s) /\ \A j \in BlacksTo(s, i) : j <= i
  BY DEF BlacksTo
<1>3. b \in Nat /\ b <= i /\ b # i /\ b + 1 <= i /\ i + 1 <= Len(s)
  BY <1>1, <1>2
<1>4. b + 1 \in DOMAIN s \ Blacks(s)
  <2>1. ~(b + 1 <= b) /\ b + 1 \in 1 .. Len(s)
    BY <1>1, <1>3
  <2>2. b + 1 \notin BlacksTo(s, i)
    BY <2>1
  <2> QED
    BY <1>1, <1>3, <2>1, <2>2 DEF BlacksTo
<1>5. b < i + 1 /\ i + 1 \in BlacksTo(s, i + 1) /\ b \in BlacksTo(s, i + 1)
  BY <1>1, <1>3
<1>6. b \in BreaksTo(s, i + 1)
  BY <1>4, <1>5 DEF BreaksTo
<1>7. b \notin BreaksTo(s, i)
  <2>1. \A j \in BlacksTo(s, i) : ~(b < j)
    BY <1>1, <1>2, <1>3
  <2> QED
    BY <2>1 DEF BreaksTo
<1>8. BreaksTo(s, i) \subseteq BreaksTo(s, i + 1)
  BY <1>1 DEF BreaksTo
<1>9. ASSUME NEW j \in BreaksTo(s, i + 1), j # b PROVE j \in BreaksTo(s, i)
  <2>1. /\ j \in BlacksTo(s, i + 1) /\ j + 1 \in DOMAIN s \ Blacks(s)
        /\ \E m \in BlacksTo(s, i + 1) : j < m
    BY <1>9 DEF BreaksTo
  <2>2. \A m \in BlacksTo(s, i + 1) : m \in Nat /\ m <= i + 1
    BY <1>1 DEF BlacksTo
  <2>3. j # i + 1 /\ j \in Nat
    BY <2>1, <2>2
  <2>4. j \in BlacksTo(s, i)
    BY <1>1, <2>1, <2>3
  <2>5. j < b
    BY <1>3, <1>9, <2>3, <2>4
  <2> QED
    BY <2>1, <2>4, <2>5 DEF BreaksTo
<1>10. BreaksTo(s, i + 1) = BreaksTo(s, i) \cup {b}
  BY <1>6, <1>8, <1>9
<1>11. Cardinality(BreaksTo(s, i + 1)) = Cardinality(BreaksTo(s, i)) + 1
  <2>1. IsFiniteSet(BreaksTo(s, i))
    BY CountedAreFinite
  <2> QED
    BY <1>7, <1>10, <2>1, FS_AddElement
<1>12. BlacksTo(s, b) = BlacksTo(s, i)
  <2>1. \A j \in Blacks(s) : j <= b => j <= i
    BY <1>1, <1>3
  <2> QED
    BY <2>1 DEF BlacksTo
<1>13. BreaksTo(s, b) = BreaksTo(s, i)
  BY <1>12 DEF BreaksTo
<1> QED
  BY <1>10, <1>11, <1>12, <1>13

Gap == " "

\* The loop so far, and how it has gone.
Collapsing(f, n, s, X) ==
    /\ f \in [0 .. n -> [text : Seq(X), owed : BOOLEAN]]
    /\ f[0].text = << >> /\ f[0].owed = FALSE
    /\ \A i \in 1 .. n :
          IF i \notin Blacks(s)
          THEN f[i].text = f[i - 1].text /\ f[i].owed = (f[i - 1].text # << >>)
          ELSE /\ f[i].owed = FALSE
               /\ f[i].text = f[i - 1].text
                              \o (IF f[i - 1].owed THEN <<Gap, s[i]>> ELSE <<s[i]>>)

LEMMA CollapseLoop ==
    ASSUME NEW X, NEW n \in Nat, NEW s \in Seq(X), Len(s) = n, Gap \in X
    PROVE  \E f : Collapsing(f, n, s, X) /\ CollapseWhitespace(s) = f[n].text
<1> DEFINE State == [text : Seq(X), owed : BOOLEAN]
           start == [text |-> << >>, owed |-> FALSE]
           Turn(i, x) ==
               IF s[i] \in White
               THEN [text |-> x.text, owed |-> x.text # << >>]
               ELSE [text |-> x.text \o (IF x.owed THEN <<Gap, s[i]>> ELSE <<s[i]>>),
                     owed |-> FALSE]
           turn == [step \in (1 .. n) \X State |-> Turn(step[1], step[2])]
           Loop(g) == g = [i \in 0 .. Len(s) |->
                             IF i = 0 THEN [text |-> << >>, owed |-> FALSE]
                             ELSE IF s[i] \in White
                             THEN [text |-> g[i - 1].text, owed |-> g[i - 1].text # << >>]
                             ELSE [text |-> g[i - 1].text
                                       \o (IF g[i - 1].owed THEN <<Gap, s[i]>> ELSE <<s[i]>>),
                                   owed |-> FALSE]]
<1>1. start \in State
  OBVIOUS
<1>2. ASSUME NEW i \in 1 .. n, NEW x \in State PROVE Turn(i, x) \in State
  <2>1. s[i] \in X /\ x.text \in Seq(X) /\ x.owed \in BOOLEAN
    OBVIOUS
  <2>2. (x.text # << >>) \in BOOLEAN
    OBVIOUS
  <2>3. <<Gap, s[i]>> \in Seq(X) /\ <<s[i]>> \in Seq(X)
    BY <2>1
  <2>4. x.text \o (IF x.owed THEN <<Gap, s[i]>> ELSE <<s[i]>>) \in Seq(X)
    BY <2>1, <2>3
  <2>5. [text |-> x.text, owed |-> x.text # << >>] \in State
    BY <2>1, <2>2
  <2>6. [text |-> x.text \o (IF x.owed THEN <<Gap, s[i]>> ELSE <<s[i]>>),
         owed |-> FALSE] \in State
    BY <2>4
  <2> QED
    BY <2>5, <2>6
<1> HIDE DEF State, Turn, start
<1>3. \A i \in 1 .. n : \A x \in State :
          turn[<<i, x>>] \in State /\ turn[<<i, x>>] = Turn(i, x)
  BY <1>2
<1> HIDE DEF turn
<1>4. PICK f : Runs(f, n, State, start, turn)
  BY <1>1, <1>3, LoopRuns
<1>5. /\ f \in [0 .. n -> State] /\ f[0] = start
      /\ \A i \in 1 .. n : f[i] = turn[<<i, f[i - 1]>>]
  BY <1>4 DEF Runs
<1>6. \A i \in 1 .. n : i - 1 \in 0 .. n
  OBVIOUS
<1>7. \A i \in 1 .. n : f[i] = Turn(i, f[i - 1])
  BY <1>3, <1>5, <1>6
<1>8. Loop(f)
  <2>1. \A i \in 0 .. n : i = 0 \/ i \in 1 .. n
    OBVIOUS
  <2> QED
    BY <1>5, <1>7, <2>1 DEF Turn, start
<1> DEFINE sofar == CHOOSE g : Loop(g)
<1>9. Loop(sofar)
  <2> HIDE DEF Loop
  <2> QED
    BY <1>8
<1>10. CollapseWhitespace(s) = sofar[n].text
  BY DEF CollapseWhitespace, Gap
<1> HIDE DEF sofar
<1>11. /\ DOMAIN sofar = 0 .. n /\ sofar[0] = start
       /\ \A i \in 1 .. n : sofar[i] = Turn(i, sofar[i - 1])
  <2>1. sofar = [i \in 0 .. n |->
                   IF i = 0 THEN start ELSE Turn(i, sofar[i - 1])]
    BY <1>9 DEF Turn, start
  <2> HIDE DEF Loop
  <2>2. 0 \in 0 .. n /\ \A i \in 1 .. n : i \in 0 .. n /\ i # 0
    OBVIOUS
  <2> QED
    BY <2>1, <2>2
<1> HIDE DEF Loop
<1> DEFINE S == {m \in Nat : m <= n => sofar[m] = f[m]}
<1>12. 0 \in S
  BY <1>5, <1>11
<1>13. ASSUME NEW m \in Nat, m \in S PROVE m + 1 \in S
  <2> SUFFICES ASSUME m + 1 <= n PROVE sofar[m + 1] = f[m + 1]
    OBVIOUS
  <2>1. m + 1 \in 1 .. n /\ (m + 1) - 1 = m /\ m <= n
    OBVIOUS
  <2>2. sofar[m] = f[m]
    BY <1>13, <2>1
  <2>3. sofar[m + 1] = Turn(m + 1, sofar[m])
    BY <1>11, <2>1
  <2>4. f[m + 1] = Turn(m + 1, f[m])
    BY <1>7, <2>1
  <2> QED
    BY <2>2, <2>3, <2>4
<1> HIDE DEF S
<1>14. n \in S
  BY <1>12, <1>13, NatBySteps
<1>15. sofar[n] = f[n]
  BY <1>14 DEF S
<1>16. Collapsing(f, n, s, X)
  <2>1. \A i \in 1 .. n : i \notin Blacks(s) <=> s[i] \in White
    BY DEF Blacks
  <2>2. f[0].text = << >> /\ f[0].owed = FALSE
    BY <1>5 DEF start
  <2>3. ASSUME NEW i \in 1 .. n, i \notin Blacks(s)
        PROVE  f[i].text = f[i - 1].text /\ f[i].owed = (f[i - 1].text # << >>)
    <3>1. s[i] \in White /\ f[i] = Turn(i, f[i - 1])
      BY <1>7, <2>1, <2>3
    <3>2. f[i] = [text |-> f[i - 1].text, owed |-> f[i - 1].text # << >>]
      BY <3>1 DEF Turn
    <3> QED
      BY <3>2
  <2>4. ASSUME NEW i \in 1 .. n, i \in Blacks(s)
        PROVE  /\ f[i].owed = FALSE
               /\ f[i].text = f[i - 1].text
                              \o (IF f[i - 1].owed THEN <<Gap, s[i]>> ELSE <<s[i]>>)
    <3>1. s[i] \notin White /\ f[i] = Turn(i, f[i - 1])
      BY <1>7, <2>1, <2>4
    <3>2. f[i] = [text |-> f[i - 1].text
                           \o (IF f[i - 1].owed THEN <<Gap, s[i]>> ELSE <<s[i]>>),
                  owed |-> FALSE]
      BY <3>1 DEF Turn
    <3> DEFINE longer == f[i - 1].text \o (IF f[i - 1].owed THEN <<Gap, s[i]>> ELSE <<s[i]>>)
    <3>3. f[i] = [text |-> longer, owed |-> FALSE]
      BY <3>2
    <3> HIDE DEF longer
    <3>4. f[i].owed = FALSE /\ f[i].text = longer
      BY <3>3
    <3> QED
      BY <3>4 DEF longer
  <2> QED
    BY <1>5, <2>2, <2>3, <2>4 DEF Collapsing, State
<1> QED
  BY <1>10, <1>15, <1>16

\* The text written of the first i characters, and whether a space is owed.
Written(s, i, text, owed) ==
    /\ Len(text) = Cardinality(BlacksTo(s, i)) + Cardinality(BreaksTo(s, i))
    /\ \A j \in BlacksTo(s, i) : PlaceOf(s, j) \in 1 .. Len(text) /\ text[PlaceOf(s, j)] = s[j]
    /\ \A j \in BreaksTo(s, i) :
          PlaceOf(s, j) + 1 \in 1 .. Len(text) /\ text[PlaceOf(s, j) + 1] = Gap
    /\ owed <=> (BlacksTo(s, i) # {} /\ i \notin Blacks(s))

\* A character that comes right after the one before it, or first.
LEMMA WrittenNext ==
    ASSUME NEW X, NEW s \in Seq(X), NEW i \in Nat, i + 1 \in Blacks(s), Gap \in X,
           NEW text \in Seq(X), NEW owed \in BOOLEAN, Written(s, i, text, owed), ~owed
    PROVE  Written(s, i + 1, text \o <<s[i + 1]>>, FALSE)
<1> DEFINE longer == text \o <<s[i + 1]>>
<1>1. s[i + 1] \in X
  BY DEF Blacks
<1>2. Len(longer) = Len(text) + 1 /\ longer[Len(text) + 1] = s[i + 1]
  BY <1>1
<1>3. \A p \in 1 .. Len(text) : longer[p] = text[p] /\ p \in 1 .. Len(longer)
  BY <1>1
<1> HIDE DEF longer
<1>4. /\ Len(text) = Cardinality(BlacksTo(s, i)) + Cardinality(BreaksTo(s, i))
      /\ \A j \in BlacksTo(s, i) :
            PlaceOf(s, j) \in 1 .. Len(text) /\ text[PlaceOf(s, j)] = s[j]
      /\ \A j \in BreaksTo(s, i) :
            PlaceOf(s, j) + 1 \in 1 .. Len(text) /\ text[PlaceOf(s, j) + 1] = Gap
      /\ BlacksTo(s, i) = {} \/ i \in Blacks(s)
  BY DEF Written
<1>5. PICK m \in Nat : m = i + 1
  OBVIOUS
<1>6. BreaksTo(s, m) = BreaksTo(s, i)
  BY <1>4, <1>5, WordGoesOn
<1>7. /\ BlacksTo(s, m) = BlacksTo(s, i) \cup {m}
      /\ Cardinality(BlacksTo(s, m)) = Cardinality(BlacksTo(s, i)) + 1
  BY <1>5, BlackCounts
<1>8. /\ Cardinality(BlacksTo(s, i)) \in Nat /\ Cardinality(BreaksTo(s, i)) \in Nat
      /\ Len(text) \in Nat
  BY CountedAreFinite
<1>9. PlaceOf(s, m) = Len(text) + 1
  <2>1. BreaksBefore(s, m) = BreaksTo(s, i)
    BY <1>5, <1>6, BreaksBeforeBlack
  <2>2. Cardinality(BreaksBefore(s, m)) = Cardinality(BreaksTo(s, i))
    BY <2>1
  <2> QED
    BY <1>4, <1>7, <1>8, <2>2 DEF PlaceOf
<1>10. Len(longer) = Cardinality(BlacksTo(s, m)) + Cardinality(BreaksTo(s, m))
  BY <1>2, <1>4, <1>6, <1>7, <1>8
<1>11. Len(text) + 1 \in 1 .. Len(longer)
  BY <1>2, <1>8
<1>12. ASSUME NEW j \in BlacksTo(s, m)
       PROVE  PlaceOf(s, j) \in 1 .. Len(longer) /\ longer[PlaceOf(s, j)] = s[j]
  <2>1. CASE j = m
    BY <1>2, <1>5, <1>9, <1>11, <2>1
  <2>2. CASE j # m
    <3>1. j \in BlacksTo(s, i)
      BY <1>7, <2>2
    <3> QED
      BY <1>3, <1>4, <3>1
  <2> QED
    BY <2>1, <2>2
<1>13. ASSUME NEW j \in BreaksTo(s, m)
       PROVE  PlaceOf(s, j) + 1 \in 1 .. Len(longer) /\ longer[PlaceOf(s, j) + 1] = Gap
  BY <1>3, <1>4, <1>6
<1>14. Written(s, m, longer, FALSE)
  BY <1>5, <1>10, <1>12, <1>13 DEF Written
<1> QED
  BY <1>5, <1>14 DEF longer

\* A character that a space is owed before.
LEMMA WrittenAfterGap ==
    ASSUME NEW X, NEW s \in Seq(X), NEW i \in Nat, i + 1 \in Blacks(s), Gap \in X,
           NEW text \in Seq(X), NEW owed \in BOOLEAN, Written(s, i, text, owed), owed
    PROVE  Written(s, i + 1, text \o <<Gap, s[i + 1]>>, FALSE)
<1> DEFINE longer == text \o <<Gap, s[i + 1]>>
<1>1. s[i + 1] \in X
  BY DEF Blacks
<1>2. /\ Len(longer) = Len(text) + 2 /\ longer[Len(text) + 2] = s[i + 1]
      /\ longer[Len(text) + 1] = Gap
  BY <1>1
<1>3. \A p \in 1 .. Len(text) : longer[p] = text[p] /\ p \in 1 .. Len(longer)
  BY <1>1
<1> HIDE DEF longer
<1>4. /\ Len(text) = Cardinality(BlacksTo(s, i)) + Cardinality(BreaksTo(s, i))
      /\ \A j \in BlacksTo(s, i) :
            PlaceOf(s, j) \in 1 .. Len(text) /\ text[PlaceOf(s, j)] = s[j]
      /\ \A j \in BreaksTo(s, i) :
            PlaceOf(s, j) + 1 \in 1 .. Len(text) /\ text[PlaceOf(s, j) + 1] = Gap
      /\ BlacksTo(s, i) # {} /\ i \notin Blacks(s)
  BY DEF Written
<1>5. PICK m \in Nat : m = i + 1
  OBVIOUS
<1>6. PICK b \in BlacksTo(s, i) : \A j \in BlacksTo(s, i) : j <= b
  <2>1. BlacksTo(s, i) \subseteq 0 .. i
    BY DEF BlacksTo, Blacks
  <2> QED
    BY <1>4, <2>1, GreatestOf
<1>7. /\ BreaksTo(s, m) = BreaksTo(s, i) \cup {b}
      /\ Cardinality(BreaksTo(s, m)) = Cardinality(BreaksTo(s, i)) + 1
      /\ BlacksTo(s, b) = BlacksTo(s, i) /\ BreaksTo(s, b) = BreaksTo(s, i)
  BY <1>4, <1>5, <1>6, WordBreaks
<1>8. /\ BlacksTo(s, m) = BlacksTo(s, i) \cup {m}
      /\ Cardinality(BlacksTo(s, m)) = Cardinality(BlacksTo(s, i)) + 1
  BY <1>5, BlackCounts
<1>9. /\ Cardinality(BlacksTo(s, i)) \in Nat /\ Cardinality(BreaksTo(s, i)) \in Nat
      /\ Len(text) \in Nat
  BY CountedAreFinite
<1>10. PlaceOf(s, m) = Len(text) + 2
  <2>1. BreaksBefore(s, m) = BreaksTo(s, m)
    BY <1>5, BreaksBeforeBlack
  <2>2. Cardinality(BreaksBefore(s, m)) = Cardinality(BreaksTo(s, i)) + 1
    BY <1>7, <2>1
  <2> QED
    BY <1>4, <1>8, <1>9, <2>2 DEF PlaceOf
<1>11. PlaceOf(s, b) = Len(text)
  <2>1. BreaksBefore(s, b) = BreaksTo(s, i)
    <3>1. b \in Blacks(s)
      BY DEF BlacksTo
    <3> QED
      BY <1>7, <3>1, BreaksBeforeBlack
  <2>2. Cardinality(BreaksBefore(s, b)) = Cardinality(BreaksTo(s, i))
    BY <2>1
  <2>3. Cardinality(BlacksTo(s, b)) = Cardinality(BlacksTo(s, i))
    BY <1>7
  <2> QED
    BY <1>4, <2>2, <2>3 DEF PlaceOf
<1>12. Len(longer) = Cardinality(BlacksTo(s, m)) + Cardinality(BreaksTo(s, m))
  BY <1>2, <1>4, <1>7, <1>8, <1>9
<1>13. Len(text) + 1 \in 1 .. Len(longer) /\ Len(text) + 2 \in 1 .. Len(longer)
  BY <1>2, <1>9
<1>14. ASSUME NEW j \in BlacksTo(s, m)
       PROVE  PlaceOf(s, j) \in 1 .. Len(longer) /\ longer[PlaceOf(s, j)] = s[j]
  <2>1. CASE j = m
    BY <1>2, <1>5, <1>10, <1>13, <2>1
  <2>2. CASE j # m
    <3>1. j \in BlacksTo(s, i)
      BY <1>8, <2>2
    <3> QED
      BY <1>3, <1>4, <3>1
  <2> QED
    BY <2>1, <2>2
<1>15. ASSUME NEW j \in BreaksTo(s, m)
       PROVE  PlaceOf(s, j) + 1 \in 1 .. Len(longer) /\ longer[PlaceOf(s, j) + 1] = Gap
  <2>1. CASE j = b
    BY <1>2, <1>11, <1>13, <2>1
  <2>2. CASE j # b
    <3>1. j \in BreaksTo(s, i)
      BY <1>7, <2>2
    <3> QED
      BY <1>3, <1>4, <3>1
  <2> QED
    BY <2>1, <2>2
<1>16. Written(s, m, longer, FALSE)
  BY <1>5, <1>12, <1>14, <1>15 DEF Written
<1> QED
  BY <1>5, <1>16 DEF longer

\* White space.
LEMMA WrittenWhite ==
    ASSUME NEW X, NEW s \in Seq(X), NEW i \in Nat, i + 1 \notin Blacks(s),
           NEW text \in Seq(X), NEW owed \in BOOLEAN, Written(s, i, text, owed)
    PROVE  Written(s, i + 1, text, text # << >>)
<1>1. PICK m \in Nat : m = i + 1
  OBVIOUS
<1>2. BlacksTo(s, m) = BlacksTo(s, i) /\ BreaksTo(s, m) = BreaksTo(s, i)
  BY <1>1, WhiteCounts
<1>3. IsFiniteSet(BlacksTo(s, i)) /\ Cardinality(BreaksTo(s, i)) \in Nat
  BY CountedAreFinite
<1>4. Len(text) = Cardinality(BlacksTo(s, i)) + Cardinality(BreaksTo(s, i))
  BY DEF Written
<1>5. text # << >> <=> BlacksTo(s, i) # {}
  <2>1. CASE BlacksTo(s, i) = {}
    <3>1. BreaksTo(s, i) = {}
      BY <2>1 DEF BreaksTo
    <3>2. Cardinality(BlacksTo(s, i)) = 0 /\ Cardinality(BreaksTo(s, i)) = 0
      BY <2>1, <3>1, FS_EmptySet
    <3> QED
      BY <1>4, <2>1, <3>2
  <2>2. CASE BlacksTo(s, i) # {}
    <3>1. Cardinality(BlacksTo(s, i)) # 0
      BY <1>3, <2>2, FS_EmptySet
    <3>2. Cardinality(BlacksTo(s, i)) \in Nat
      BY <1>3, FS_CardinalityType
    <3>3. Len(text) # 0
      BY <1>3, <1>4, <3>1, <3>2
    <3> QED
      BY <2>2, <3>3
  <2> QED
    BY <2>1, <2>2
<1>6. Written(s, m, text, text # << >>)
  BY <1>1, <1>2, <1>5 DEF Written
<1> QED
  BY <1>1, <1>6

\* White space is collapsed.
Collapses(s, text) ==
    /\ Len(text) = Cardinality(Blacks(s)) + Cardinality(Breaks(s))
    /\ \A i \in Blacks(s) : text[PlaceOf(s, i)] = s[i]
    /\ \A i \in Breaks(s) : text[PlaceOf(s, i) + 1] = Gap

LEMMA WhiteCollapses ==
    ASSUME NEW X, NEW s \in Seq(X), Gap \in X
    PROVE  Collapses(s, CollapseWhitespace(s))
<1>1. PICK n \in Nat : n = Len(s)
  OBVIOUS
<1>2. PICK f : Collapsing(f, n, s, X) /\ CollapseWhitespace(s) = f[n].text
  BY <1>1, CollapseLoop
<1>3. /\ f \in [0 .. n -> [text : Seq(X), owed : BOOLEAN]]
      /\ f[0].text = << >> /\ f[0].owed = FALSE
      /\ \A i \in 1 .. n :
            IF i \notin Blacks(s)
            THEN f[i].text = f[i - 1].text /\ f[i].owed = (f[i - 1].text # << >>)
            ELSE /\ f[i].owed = FALSE
                 /\ f[i].text = f[i - 1].text
                                \o (IF f[i - 1].owed THEN <<Gap, s[i]>> ELSE <<s[i]>>)
  BY <1>2 DEF Collapsing
<1>4. \A i \in 0 .. n : f[i].text \in Seq(X) /\ f[i].owed \in BOOLEAN
  BY <1>3
<1>5. Blacks(s) \subseteq 1 .. n
  BY <1>1 DEF Blacks
<1> DEFINE S == {m \in Nat : m <= n => Written(s, m, f[m].text, f[m].owed)}
<1>6. 0 \in S
  <2>1. BlacksTo(s, 0) = {}
    BY <1>5 DEF BlacksTo
  <2>2. BreaksTo(s, 0) = {}
    BY <2>1 DEF BreaksTo
  <2>3. Cardinality(BlacksTo(s, 0)) = 0 /\ Cardinality(BreaksTo(s, 0)) = 0
    BY <2>1, <2>2, FS_EmptySet
  <2>4. Len(f[0].text) = 0
    BY <1>3
  <2>5. Written(s, 0, f[0].text, f[0].owed)
    BY <1>3, <2>1, <2>2, <2>3, <2>4 DEF Written
  <2> QED
    BY <2>5
<1>7. ASSUME NEW m \in Nat, m \in S PROVE m + 1 \in S
  <2> SUFFICES ASSUME m + 1 <= n PROVE Written(s, m + 1, f[m + 1].text, f[m + 1].owed)
    OBVIOUS
  <2>1. m <= n /\ m \in 0 .. n /\ m + 1 \in 1 .. n /\ (m + 1) - 1 = m
    OBVIOUS
  <2>2. Written(s, m, f[m].text, f[m].owed)
    BY <1>7, <2>1
  <2>3. PICK before : before = f[m].text
    OBVIOUS
  <2>4. PICK owing : owing = f[m].owed
    OBVIOUS
  <2>5. before \in Seq(X) /\ owing \in BOOLEAN /\ Written(s, m, before, owing)
    BY <1>4, <2>1, <2>2, <2>3, <2>4
  <2>6. CASE m + 1 \notin Blacks(s)
    <3>1. f[m + 1].text = before /\ f[m + 1].owed = (before # << >>)
      BY <1>3, <2>1, <2>3, <2>6
    <3>2. Written(s, m + 1, before, before # << >>)
      BY <2>5, <2>6, WrittenWhite
    <3> QED
      BY <3>1, <3>2, Zenon
  <2>7. CASE m + 1 \in Blacks(s)
    <3>1. /\ f[m + 1].owed = FALSE
          /\ f[m + 1].text = before \o (IF owing THEN <<Gap, s[m + 1]>> ELSE <<s[m + 1]>>)
      BY <1>3, <2>1, <2>3, <2>4, <2>7
    <3>2. CASE owing
      <4>1. Written(s, m + 1, before \o <<Gap, s[m + 1]>>, FALSE)
        BY <2>5, <2>7, <3>2, WrittenAfterGap
      <4> QED
        BY <3>1, <3>2, <4>1, Zenon
    <3>3. CASE ~owing
      <4>1. Written(s, m + 1, before \o <<s[m + 1]>>, FALSE)
        BY <2>5, <2>7, <3>3, WrittenNext
      <4> QED
        BY <3>1, <3>3, <4>1, Zenon
    <3> QED
      BY <3>2, <3>3
  <2> QED
    BY <2>6, <2>7
<1> HIDE DEF S
<1>8. n \in S
  BY <1>6, <1>7, NatBySteps
<1>9. Written(s, n, f[n].text, f[n].owed)
  BY <1>8 DEF S
<1>10. BlacksTo(s, n) = Blacks(s)
  BY <1>5 DEF BlacksTo
<1>11. BreaksTo(s, n) = Breaks(s)
  <2>1. \A i, j \in Blacks(s) : i < j <=> j > i
    BY <1>5
  <2> QED
    BY <1>10, <2>1 DEF BreaksTo, Breaks
<1> QED
  BY <1>2, <1>9, <1>10, <1>11 DEF Written, Collapses

-----------------------------------------------------------------------------
(* Decoding, unit by unit.                                                 *)
Amp == "&"
Semi == ";"
NamedSymbols == {Named[name] : name \in DOMAIN Named}
SpelledSymbols == UNION {ToSet(unit.spelled) : unit \in Unit}
Symbols == {Gap} \cup SpelledSymbols \cup NamedSymbols

LEMMA AmpIsNotSemi == Amp # Semi
BY DEF Amp, Semi

\* An opaque text holds neither.
LEMMA OpaqueText ==
    ASSUME NEW s, Opaque(s)
    PROVE  \A i \in 1 .. Len(s) : s[i] # Amp /\ s[i] # Semi
<1>1. s \in Seq(ToSet(s)) /\ Amp \notin ToSet(s) /\ Semi \notin ToSet(s)
  BY DEF Opaque, Amp, Semi
<1>2. \A i \in 1 .. Len(s) : s[i] \in ToSet(s)
  BY <1>1
<1> QED
  BY <1>1, <1>2

LEMMA SmallerSeq ==
    ASSUME NEW X, NEW Y, X \subseteq Y, NEW s \in Seq(X)
    PROVE  s \in Seq(Y)
OBVIOUS

\* What a name stands for is a symbol.
LEMMA NamesStand == \A name \in DOMAIN Named : Named[name] \in Symbols
<1> TAKE name \in DOMAIN Named
<1>1. Named[name] \in NamedSymbols
  BY DEF NamedSymbols
<1> QED
  BY <1>1 DEF Symbols

\* A unit is a text of symbols: one, or an `&', a name and a `;'.
LEMMA UnitsAreTexts ==
    ASSUME NEW unit \in Unit
    PROVE  /\ unit.spelled \in Seq(Symbols) /\ unit.means \in Seq(Symbols)
           /\ Len(unit.spelled) \in Nat \ {0}
           /\ (Len(unit.spelled) = 1 /\ unit.means = unit.spelled) \/ Quoted(unit)
<1>1. unit.spelled \in Seq(ToSet(unit.spelled)) /\ (Symbolic(unit) \/ Quoted(unit))
  BY EntityAssumption
<1>2. ToSet(unit.spelled) \subseteq Symbols
  <2>1. ToSet(unit.spelled) \subseteq SpelledSymbols
    BY DEF SpelledSymbols
  <2> QED
    BY <2>1 DEF Symbols
<1>3. unit.spelled \in Seq(Symbols)
  BY <1>1, <1>2, SmallerSeq
<1>4. CASE Symbolic(unit)
  BY <1>3, <1>4 DEF Symbolic
<1>5. CASE Quoted(unit)
  <2>1. Len(unit.spelled) >= 2
    BY <1>5 DEF Quoted
  <2>2. unit.means \in Seq(Symbols)
    <3> DEFINE name == SubSeq(unit.spelled, 2, Len(unit.spelled) - 1)
    <3>1. \/ name \in DOMAIN Named /\ unit.means = <<Named[name]>>
          \/ unit.means = unit.spelled
      BY <1>5 DEF Quoted
    <3> HIDE DEF name
    <3>2. CASE name \in DOMAIN Named /\ unit.means = <<Named[name]>>
      <4>1. PICK c : c = Named[name]
        OBVIOUS
      <4>2. c \in Symbols
        BY <3>2, <4>1, NamesStand
      <4> QED
        BY <3>2, <4>1, <4>2
    <3> QED
      BY <1>3, <3>1, <3>2
  <2> QED
    BY <1>3, <1>5, <2>1, <2>2
<1> QED
  BY <1>1, <1>4, <1>5

\* What is left of a text from each of its units on.
Rests(H, n, us) ==
    /\ H \in [0 .. n -> Seq(Symbols)] /\ H[n] = << >> /\ Spelling(us) = H[0]
    /\ \A i \in 1 .. n : H[i - 1] = us[i].spelled \o H[i]

LEMMA SameText ==
    ASSUME NEW X, NEW a \in Seq(X), NEW b \in Seq(X), Len(a) = Len(b),
           \A i \in 1 .. Len(b) : a[i] = b[i]
    PROVE  a = b
OBVIOUS

LEMMA ConcatType ==
    ASSUME NEW X, NEW a \in Seq(X), NEW b \in Seq(X)
    PROVE  a \o b \in Seq(X) /\ Len(a \o b) = Len(a) + Len(b) /\ Len(b) \in Nat
OBVIOUS

LEMMA OneMoreSymbol ==
    ASSUME NEW X, NEW s \in Seq(X), NEW c \in X
    PROVE  /\ s \o <<c>> \in Seq(X) /\ Len(s \o <<c>>) = Len(s) + 1
           /\ \A i \in 1 .. Len(s) : (s \o <<c>>)[i] = s[i]
           /\ (s \o <<c>>)[Len(s) + 1] = c
OBVIOUS

LEMMA PartOf ==
    ASSUME NEW X, NEW s \in Seq(X), NEW a \in Nat, NEW b \in Nat,
           a \in 1 .. Len(s) + 1, b \in 0 .. Len(s)
    PROVE  \A i \in 1 .. b - a + 1 : SubSeq(s, a, b)[i] = s[a + i - 1]
OBVIOUS

\* The same, said as one fact.
IsPart(x, s, a, b) == \A i \in 1 .. b - a + 1 : x[i] = s[a + i - 1]
LEMMA PartIsPart ==
    ASSUME NEW X, NEW s \in Seq(X), NEW a \in Nat, NEW b \in Nat,
           a \in 1 .. Len(s) + 1, b \in 0 .. Len(s)
    PROVE  IsPart(SubSeq(s, a, b), s, a, b)
BY DEF IsPart

LEMMA ConcatAssociates ==
    ASSUME NEW X, NEW a \in Seq(X), NEW b \in Seq(X), NEW c \in Seq(X)
    PROVE  (a \o b) \o c = a \o (b \o c)
OBVIOUS

LEMMA TextsJoin == \A x, y, z \in Seq(Symbols) : (x \o y) \o z = x \o (y \o z)
BY ConcatAssociates

LEMMA RestsOf ==
    ASSUME NEW n \in Nat, NEW us \in [1 .. n -> Unit]
    PROVE  \E H : Rests(H, n, us)
<1> DEFINE spelled == [i \in DOMAIN us |-> us[i].spelled]
<1>1. Len(spelled) = n /\ (n = 0 => spelled = << >>)
  OBVIOUS
<1>2. \A i \in 1 .. n : spelled[i] = us[i].spelled /\ spelled[i] \in Seq(Symbols)
  BY UnitsAreTexts
<1>3. Spelling(us) = FlattenSeq(spelled)
  BY DEF Spelling
<1> HIDE DEF spelled
<1>4. PICK F : Flattens(F, n, Symbols, spelled)
  BY <1>1, <1>2, FlattenLoop
<1>5. /\ F \in [0 .. n -> Seq(Symbols)] /\ F[0] = << >>
      /\ \A i \in 1 .. n : F[i] = F[i - 1] \o spelled[i]
      /\ FlattenSeq(spelled) = F[n]
  BY <1>4 DEF Flattens
<1> DEFINE turn == [step \in (1 .. n) \X Seq(Symbols) |-> spelled[n + 1 - step[1]] \o step[2]]
<1>6. \A i \in 1 .. n : \A x \in Seq(Symbols) :
          turn[<<i, x>>] \in Seq(Symbols) /\ turn[<<i, x>>] = spelled[n + 1 - i] \o x
  <2> TAKE i \in 1 .. n
  <2> TAKE x \in Seq(Symbols)
  <2>1. n + 1 - i \in 1 .. n
    OBVIOUS
  <2>2. turn[<<i, x>>] = spelled[n + 1 - i] \o x
    OBVIOUS
  <2>3. PICK before : before = spelled[n + 1 - i]
    OBVIOUS
  <2>4. before \in Seq(Symbols)
    BY <1>2, <2>1, <2>3
  <2>5. before \o x \in Seq(Symbols)
    BY <2>4
  <2> QED
    BY <2>2, <2>3, <2>5
<1> HIDE DEF turn
<1>7. << >> \in Seq(Symbols)
  OBVIOUS
<1>8. PICK r : Runs(r, n, Seq(Symbols), << >>, turn)
  BY <1>6, <1>7, LoopRuns
<1>9. /\ r \in [0 .. n -> Seq(Symbols)] /\ r[0] = << >>
      /\ \A i \in 1 .. n : r[i] = spelled[n + 1 - i] \o r[i - 1]
  <2>1. /\ r \in [0 .. n -> Seq(Symbols)] /\ r[0] = << >>
        /\ \A i \in 1 .. n : r[i] = turn[<<i, r[i - 1]>>]
    BY <1>8 DEF Runs
  <2>2. \A i \in 1 .. n : i - 1 \in 0 .. n
    OBVIOUS
  <2> QED
    BY <1>6, <2>1, <2>2
<1> DEFINE H == [i \in 0 .. n |-> r[n - i]]
<1>10. H \in [0 .. n -> Seq(Symbols)] /\ H[n] = << >>
  <2>1. \A i \in 0 .. n : n - i \in 0 .. n
    OBVIOUS
  <2> QED
    BY <1>9, <2>1
<1>11. \A i \in 1 .. n : H[i - 1] = spelled[i] \o H[i]
  <2> TAKE i \in 1 .. n
  <2>1. n - i + 1 \in 1 .. n /\ n + 1 - (n - i + 1) = i /\ (n - i + 1) - 1 = n - i
        /\ i - 1 \in 0 .. n /\ n - (i - 1) = n - i + 1 /\ i \in 0 .. n
    OBVIOUS
  <2>2. r[n - i + 1] = spelled[i] \o r[n - i]
    BY <1>9, <2>1
  <2> QED
    BY <2>1, <2>2
<1> HIDE DEF H
<1> DEFINE Whole(m) == F[m] \o H[m] = H[0]
           S == {m \in Nat : m <= n => Whole(m)}
<1>12. 0 \in S
  <2>1. H[0] \in Seq(Symbols)
    BY <1>10
  <2>2. << >> \o H[0] = H[0]
    BY <2>1
  <2>3. Whole(0)
    BY <1>5, <2>2
  <2> QED
    BY <2>3
<1>13. ASSUME NEW m \in Nat, m \in S PROVE m + 1 \in S
  <2> SUFFICES ASSUME m + 1 <= n PROVE Whole(m + 1)
    <3> HIDE DEF Whole
    <3> QED
      OBVIOUS
  <2>1. m <= n /\ m \in 0 .. n /\ m + 1 \in 0 .. n /\ m + 1 \in 1 .. n /\ (m + 1) - 1 = m
    OBVIOUS
  <2>2. Whole(m)
    BY <1>13, <2>1
  <2>3. F[m + 1] = F[m] \o spelled[m + 1] /\ H[m] = spelled[m + 1] \o H[m + 1]
    BY <1>5, <1>11, <2>1
  <2>4. /\ F[m] \in Seq(Symbols) /\ spelled[m + 1] \in Seq(Symbols)
        /\ H[m + 1] \in Seq(Symbols)
    BY <1>2, <1>5, <1>10, <2>1
  <2>5. (F[m] \o spelled[m + 1]) \o H[m + 1] = F[m] \o (spelled[m + 1] \o H[m + 1])
    BY <2>4, TextsJoin, Zenon
  <2> QED
    BY <2>2, <2>3, <2>5, Zenon
<1> HIDE DEF S
<1>14. n \in S
  BY <1>12, <1>13, NatBySteps
<1>15. F[n] \o H[n] = H[0]
  <2>1. Whole(n)
    <3> HIDE DEF Whole
    <3> QED
      BY <1>14 DEF S
  <2> QED
    BY <2>1
<1>16. F[n] = H[0]
  <2>1. F[n] \in Seq(Symbols)
    BY <1>5
  <2>2. F[n] \o << >> = F[n]
    BY <2>1
  <2> QED
    BY <1>10, <1>15, <2>2
<1> QED
  BY <1>2, <1>3, <1>5, <1>10, <1>11, <1>16 DEF Rests

\* A text whose every unit is one symbol.
LEMMA SpellingOfSymbols ==
    ASSUME NEW n \in Nat, NEW us \in Seq(Unit), Len(us) = n, NEW s \in Seq(Symbols), Len(s) = n,
           \A i \in 1 .. n : us[i].spelled = <<s[i]>>
    PROVE  Spelling(us) = s
<1> DEFINE spelled == [i \in DOMAIN us |-> us[i].spelled]
<1>1. Len(spelled) = n /\ (n = 0 => spelled = << >>)
  <2>1. DOMAIN us = 1 .. n
    OBVIOUS
  <2> QED
    BY <2>1
<1>2. \A i \in 1 .. n : spelled[i] = <<s[i]>> /\ spelled[i] \in Seq(Symbols)
  <2> TAKE i \in 1 .. n
  <2>1. spelled[i] = us[i].spelled
    OBVIOUS
  <2>2. s[i] \in Symbols
    OBVIOUS
  <2>3. <<s[i]>> \in Seq(Symbols)
    BY <2>2
  <2> QED
    BY <2>1, <2>3
<1>3. Spelling(us) = FlattenSeq(spelled)
  BY DEF Spelling
<1> HIDE DEF spelled
<1>4. PICK F : Flattens(F, n, Symbols, spelled)
  BY <1>1, <1>2, FlattenLoop
<1>5. /\ F \in [0 .. n -> Seq(Symbols)] /\ F[0] = << >>
      /\ \A i \in 1 .. n : F[i] = F[i - 1] \o spelled[i]
      /\ FlattenSeq(spelled) = F[n]
  BY <1>4 DEF Flattens
<1> DEFINE Same(m) == Len(F[m]) = m /\ \A p \in 1 .. m : F[m][p] = s[p]
           S == {m \in Nat : m <= n => Same(m)}
<1>6. 0 \in S
  BY <1>5
<1>7. ASSUME NEW m \in Nat, m \in S PROVE m + 1 \in S
  <2> SUFFICES ASSUME m + 1 <= n PROVE Same(m + 1)
    OBVIOUS
  <2>1. m <= n /\ m \in 0 .. n /\ m + 1 \in 1 .. n /\ (m + 1) - 1 = m
    OBVIOUS
  <2>2. Same(m)
    BY <1>7, <2>1
  <2>3. PICK before : before = F[m]
    OBVIOUS
  <2>4. PICK next : next = s[m + 1]
    OBVIOUS
  <2>5. before \in Seq(Symbols) /\ next \in Symbols
    BY <1>5, <2>1, <2>3, <2>4
  <2>6. F[m + 1] = before \o <<next>>
    BY <1>2, <1>5, <2>1, <2>3, <2>4
  <2>7. Len(before) = m /\ \A p \in 1 .. m : before[p] = s[p]
    BY <2>2, <2>3
  <2>8. /\ Len(before \o <<next>>) = m + 1
        /\ \A p \in 1 .. m : (before \o <<next>>)[p] = s[p]
        /\ (before \o <<next>>)[m + 1] = s[m + 1]
    <3>1. /\ Len(before \o <<next>>) = Len(before) + 1
          /\ \A p \in 1 .. Len(before) : (before \o <<next>>)[p] = before[p]
          /\ (before \o <<next>>)[Len(before) + 1] = next
      BY <2>5
    <3> QED
      BY <2>4, <2>7, <3>1
  <2>9. \A p \in 1 .. m + 1 : p \in 1 .. m \/ p = m + 1
    OBVIOUS
  <2>10. \A p \in 1 .. m + 1 : (before \o <<next>>)[p] = s[p]
    BY <2>8, <2>9, Zenon
  <2> QED
    BY <2>6, <2>8, <2>10
<1> HIDE DEF S
<1>8. n \in S
  BY <1>6, <1>7, NatBySteps
<1>9. Same(n) /\ F[n] \in Seq(Symbols)
  BY <1>5, <1>8 DEF S
<1>10. F[n] = s
  BY <1>9
<1> QED
  BY <1>3, <1>5, <1>10

\* The first `;' of a text.
LEMMA FirstSemicolon ==
    ASSUME NEW s \in Seq(Symbols), NEW p \in 1 .. Len(s), s[p] = Semi,
           \A i \in 1 .. p - 1 : s[i] # Semi
    PROVE  SemicolonOf(s) = p
<1> DEFINE places == {i \in DOMAIN s : s[i] = Semi}
<1>1. p \in places /\ \A j \in places : j \in Nat /\ p <= j
  OBVIOUS
<1>2. SemicolonOf(s) = IF places = {} THEN 0
                       ELSE CHOOSE i \in places : \A j \in places : i <= j
  BY DEF SemicolonOf, Semi
<1> HIDE DEF places
<1>3. \A i \in places : (\A j \in places : i <= j) => i = p
  BY <1>1
<1> QED
  BY <1>1, <1>2, <1>3

\* A text with a `;' has a first one, and what decode_reference reads there.
LEMMA SemicolonFound ==
    ASSUME NEW s \in Seq(Symbols), SemicolonOf(s) # 0
    PROVE  /\ SemicolonOf(s) \in 1 .. Len(s) /\ s[SemicolonOf(s)] = Semi
<1> DEFINE places == {i \in DOMAIN s : s[i] = Semi}
<1>1. SemicolonOf(s) = IF places = {} THEN 0
                       ELSE CHOOSE i \in places : \A j \in places : i <= j
  BY DEF SemicolonOf, Semi
<1>2. places \subseteq Nat /\ places \subseteq 1 .. Len(s)
  OBVIOUS
<1>3. \A i \in places : s[i] = Semi
  OBVIOUS
<1> HIDE DEF places
<1>4. places # {}
  BY <1>1
<1>5. \E i \in places : \A j \in places : i <= j
  BY <1>2, <1>4, LeastOf
<1>6. SemicolonOf(s) \in places
  BY <1>1, <1>4, <1>5
<1> QED
  BY <1>2, <1>3, <1>6

\* A quoted unit at the head of a text is read as what it quotes.
LEMMA QuotedIsRead ==
    ASSUME NEW unit \in Unit, Quoted(unit), NEW rest \in Seq(Symbols),
           NEW s, s = unit.spelled \o rest
    PROVE  /\ s # << >> /\ s[1] = Amp /\ After(s) = rest
           /\ IsReference(s) <=> (/\ Len(NameOf(s)) \in 1 .. MaxEntity
                                  /\ NameOf(s) \in DOMAIN Named)
           /\ IsReference(s) => unit.means = <<Named[NameOf(s)]>>
           /\ ~IsReference(s) => unit.means = unit.spelled
<1>1. PICK q : q = unit.spelled
  OBVIOUS
<1>2. q \in Seq(Symbols)
  BY <1>1, UnitsAreTexts
<1>3. PICK l \in Nat : l = Len(q)
  BY <1>2
<1>4. PICK low \in Nat : low = 2
  OBVIOUS
<1>5. PICK high \in Int : high = l - 1
  OBVIOUS
<1>6. PICK name : name = SubSeq(q, low, high)
  OBVIOUS
<1>7. /\ l >= 2 /\ Opaque(name) /\ q[1] = Amp /\ q[l] = Semi
      /\ unit.means = IF Len(name) \in 1 .. MaxEntity /\ name \in DOMAIN Named
                      THEN <<Named[name]>> ELSE q
  BY <1>1, <1>3, <1>4, <1>5, <1>6 DEF Quoted, Amp, Semi
<1>8. /\ s \in Seq(Symbols) /\ Len(s) = l + Len(rest)
      /\ \A p \in 1 .. l : s[p] = q[p]
  BY <1>1, <1>2, <1>3
<1>9. \A p \in 2 .. high : q[p] # Semi
  <2>1. Len(name) = l - 2 /\ \A p \in 1 .. l - 2 : name[p] = q[p + 1]
    BY <1>2, <1>3, <1>4, <1>5, <1>6, <1>7
  <2> TAKE p \in 2 .. high
  <2>2. p - 1 \in 1 .. l - 2 /\ (p - 1) + 1 = p
    BY <1>5
  <2>3. name[p - 1] # Semi
    BY <1>7, <2>1, <2>2, OpaqueText
  <2> QED
    BY <2>1, <2>2, <2>3
<1>10. SemicolonOf(s) = l
  <2>1. l \in 1 .. Len(s) /\ s[l] = Semi
    <3>1. Len(rest) \in Nat /\ l \in Nat /\ l >= 2
      BY <1>3, <1>7
    <3>2. l \in 1 .. l /\ l <= l + Len(rest)
      BY <3>1
    <3> QED
      BY <1>7, <1>8, <3>1, <3>2
  <2>2. \A p \in 1 .. l - 1 : s[p] # Semi
    <3> TAKE p \in 1 .. l - 1
    <3>1. p \in 1 .. l /\ (p = 1 \/ p \in 2 .. high)
      BY <1>5
    <3> QED
      BY <1>7, <1>8, <1>9, <3>1, AmpIsNotSemi
  <2> QED
    BY <1>8, <2>1, <2>2, FirstSemicolon
<1>11. NameOf(s) = name
  <2>1. SubSeq(s, low, high) = SubSeq(q, low, high)
    BY <1>2, <1>3, <1>4, <1>5, <1>7, <1>8
  <2>2. NameOf(s) = SubSeq(s, low, high)
    BY <1>4, <1>5, <1>10 DEF NameOf
  <2> QED
    BY <1>6, <2>1, <2>2
<1>12. After(s) = rest
  <2>1. After(s) = SubSeq(s, l + 1, l + Len(rest))
    BY <1>8, <1>10 DEF After
  <2>2. PICK m \in Nat : m = Len(rest)
    OBVIOUS
  <2>3. PICK start \in Nat : start = l + 1
    BY <1>3
  <2>4. PICK end \in Nat : end = l + m
    BY <1>3, <2>2
  <2>5. PICK x : x = SubSeq(s, start, end)
    OBVIOUS
  <2>6. /\ x \in Seq(Symbols) /\ Len(x) = m
        /\ \A i \in 1 .. m : x[i] = s[l + i]
    <3>1. start \in 1 .. Len(s) + 1 /\ end \in 0 .. Len(s) /\ end - start + 1 = m
      BY <1>3, <1>8, <2>2, <2>3, <2>4
    <3>2. x \in Seq(Symbols) /\ Len(x) = m
      BY <1>8, <2>2, <2>3, <2>4, <2>5, <3>1
    <3>3. ASSUME NEW i \in 1 .. m PROVE x[i] = s[l + i]
      <4>1. x[i] = s[start + i - 1]
        <5>1. s \in Seq(Symbols) /\ start \in Nat /\ end \in Nat
          BY <1>8, <2>3, <2>4
        <5>2. i \in 1 .. end - start + 1
          BY <3>1
        <5>3. start \in 1 .. Len(s) + 1 /\ end \in 0 .. Len(s)
          BY <3>1
        <5>4. IsPart(SubSeq(s, start, end), s, start, end)
          BY <5>1, <5>3, PartIsPart
        <5>5. IsPart(x, s, start, end)
          BY <2>5, <5>4
        <5> QED
          BY <5>2, <5>5 DEF IsPart
      <4>2. start + i - 1 = l + i
        BY <1>3, <2>2, <2>3
      <4> QED
        BY <4>1, <4>2
    <3> QED
      BY <3>2, <3>3
  <2>7. \A i \in 1 .. m : s[l + i] = rest[i]
    BY <1>1, <1>2, <1>3, <2>2
  <2>8. x = rest
    BY <2>2, <2>6, <2>7, SameText
  <2> QED
    BY <2>1, <2>2, <2>3, <2>4, <2>5, <2>8
<1>13. s # << >> /\ s[1] = Amp
  BY <1>3, <1>7, <1>8
<1>14. IsReference(s) <=> (Len(name) \in 1 .. MaxEntity /\ name \in DOMAIN Named)
  <2>1. SemicolonOf(s) # 0
    BY <1>7, <1>10
  <2> QED
    BY <1>11, <1>13, <2>1 DEF IsReference, Amp
<1> QED
  BY <1>1, <1>7, <1>11, <1>12, <1>13, <1>14

\* A bare `&' begins no reference: the units after it would spell one.
LEMMA BareIsText ==
    ASSUME NEW n \in Nat, NEW us \in [1 .. n -> Unit], ~Ambiguous(us),
           NEW H, Rests(H, n, us), NEW k \in 1 .. n, us[k].spelled = <<Amp>>,
           NEW s, s = us[k].spelled \o H[k]
    PROVE  ~IsReference(s)
<1> SUFFICES ASSUME IsReference(s) PROVE FALSE
  OBVIOUS
<1>1. /\ H \in [0 .. n -> Seq(Symbols)] /\ H[n] = << >>
      /\ \A i \in 1 .. n : H[i - 1] = us[i].spelled \o H[i]
  BY DEF Rests
<1>2. PICK t \in Seq(Symbols) : t = H[k]
  BY <1>1
<1>3. <<Amp>> \in Seq(Symbols) /\ Amp \in Symbols
  <2>1. us[k].spelled \in Seq(Symbols)
    BY UnitsAreTexts
  <2>2. <<Amp>> \in Seq(Symbols) /\ Len(<<Amp>>) = 1 /\ <<Amp>>[1] = Amp
    BY <2>1
  <2> QED
    BY <2>2
<1>4. /\ s \in Seq(Symbols) /\ Len(s) = Len(t) + 1 /\ s[1] = Amp
      /\ \A p \in 1 .. Len(t) : s[p + 1] = t[p]
  BY <1>2, <1>3
<1>5. PICK q \in Nat : q = SemicolonOf(s) /\ q \in 2 .. Len(s) /\ s[q] = Semi
  <2>1. SemicolonOf(s) # 0
    BY DEF IsReference
  <2>2. SemicolonOf(s) \in 1 .. Len(s) /\ s[SemicolonOf(s)] = Semi
    BY <1>4, <2>1, SemicolonFound
  <2>3. SemicolonOf(s) # 1
    BY <1>4, <2>2, AmpIsNotSemi
  <2> QED
    BY <2>2, <2>3
<1>6. PICK L \in Nat : q = L + 2
  <2>1. q - 2 \in Nat /\ q = (q - 2) + 2
    BY <1>5
  <2> QED
    BY <2>1
<1>7. PICK name : name = NameOf(s)
  OBVIOUS
<1>8. name \in DOMAIN Named /\ Opaque(name)
  BY <1>7, EntityAssumption DEF IsReference
<1>9. /\ name \in Seq(Symbols) /\ Len(name) = L
      /\ \A p \in 1 .. L : name[p] = t[p]
  <2>1. PICK low \in Nat : low = 2
    OBVIOUS
  <2>2. PICK high \in Nat : high = L + 1
    OBVIOUS
  <2>3. name = SubSeq(s, low, high)
    <3>1. name = SubSeq(s, 2, q - 1)
      BY <1>5, <1>7 DEF NameOf
    <3>2. q - 1 = high
      BY <1>5, <1>6, <2>2
    <3> QED
      BY <2>1, <3>1, <3>2
  <2>4. /\ name \in Seq(Symbols) /\ Len(name) = L
        /\ \A p \in 1 .. L : name[p] = s[p + 1]
    BY <1>4, <1>5, <1>6, <2>1, <2>2, <2>3
  <2>5. \A p \in 1 .. L : p \in 1 .. Len(t)
    BY <1>2, <1>4, <1>5, <1>6
  <2> QED
    BY <1>4, <2>4, <2>5
<1>10. L + 1 <= Len(t) /\ t[L + 1] = Semi
  <2>1. L + 1 \in 1 .. Len(t) /\ (L + 1) + 1 = q
    <3>1. Len(t) \in Nat /\ Len(s) = Len(t) + 1 /\ q <= Len(s)
      BY <1>2, <1>4, <1>5
    <3> QED
      BY <1>6, <3>1
  <2> QED
    BY <1>4, <1>5, <2>1
<1>11. \A p \in 1 .. L + 1 : t[p] # Amp
  <2> TAKE p \in 1 .. L + 1
  <2>1. CASE p = L + 1
    BY <1>10, <2>1, AmpIsNotSemi
  <2>2. CASE p \in 1 .. L
    <3>1. name[p] # Amp
      BY <1>8, <1>9, <2>2, OpaqueText
    <3> QED
      BY <1>9, <2>2, <3>1
  <2> QED
    BY <2>1, <2>2
<1> DEFINE Dropped(m) == /\ k + m <= n
                         /\ \A p \in 1 .. m : us[k + p].spelled = <<t[p]>>
                         /\ Len(H[k + m]) = Len(t) - m
                         /\ \A p \in 1 .. Len(t) - m : H[k + m][p] = t[m + p]
           S == {m \in Nat : m <= L + 1 => Dropped(m)}
<1>12. 0 \in S
  <2>1. k + 0 = k /\ Len(t) - 0 = Len(t) /\ \A p \in 1 .. Len(t) : 0 + p = p
    OBVIOUS
  <2>2. Dropped(0)
    BY <1>2, <2>1
  <2> QED
    BY <2>2
<1>13. ASSUME NEW m \in Nat, m \in S PROVE m + 1 \in S
  <2> SUFFICES ASSUME m + 1 <= L + 1 PROVE Dropped(m + 1)
    <3> HIDE DEF Dropped
    <3> QED
      OBVIOUS
  <2>1. m <= L + 1
    OBVIOUS
  <2>2. Dropped(m)
    <3> HIDE DEF Dropped
    <3> QED
      BY <1>13, <2>1
  <2>3. PICK h \in Nat : h = k + m
    OBVIOUS
  <2>4. PICK rest : rest = H[h]
    OBVIOUS
  <2>5. /\ h \in 0 .. n /\ rest \in Seq(Symbols) /\ Len(rest) = Len(t) - m
        /\ \A p \in 1 .. Len(t) - m : rest[p] = t[m + p]
    <3>1. h \in 0 .. n
      BY <2>2, <2>3
    <3> QED
      BY <1>1, <2>2, <2>3, <2>4, <3>1
  <2>6. Len(rest) >= 1
    BY <1>10, <2>5
  <2>7. h # n
    BY <1>1, <2>4, <2>6
  <2>8. h + 1 \in 1 .. n /\ (h + 1) - 1 = h
    BY <2>5, <2>7
  <2>9. PICK unit \in Unit : unit = us[h + 1]
    BY <2>8
  <2>10. PICK later \in Seq(Symbols) : later = H[h + 1]
    <3>1. h + 1 \in 0 .. n
      BY <2>8
    <3> QED
      BY <1>1, <3>1
  <2>11. PICK word \in Seq(Symbols) : word = unit.spelled
    BY UnitsAreTexts
  <2>12. rest = word \o later
    BY <1>1, <2>4, <2>8, <2>9, <2>10, <2>11
  <2>13. rest[1] = t[m + 1] /\ rest[1] # Amp
    <3>1. 1 \in 1 .. Len(t) - m /\ m + 1 \in 1 .. L + 1
      BY <2>5, <2>6
    <3> QED
      BY <1>11, <2>5, <3>1
  <2>14. Len(word) # 0 /\ word[1] = rest[1]
    <3>1. Len(word) \in Nat \ {0}
      BY <2>11, UnitsAreTexts
    <3> QED
      BY <2>12, <3>1
  <2>15. Len(word) = 1
    <3>1. ~Quoted(unit)
      BY <2>11, <2>13, <2>14 DEF Quoted, Amp
    <3> QED
      BY <2>11, <3>1, UnitsAreTexts
  <2>16. word = <<t[m + 1]>>
    BY <2>13, <2>14, <2>15
  <2>17. /\ Len(rest) = Len(later) + 1
         /\ \A p \in 1 .. Len(later) : later[p] = rest[p + 1]
    <3>1. /\ Len(word \o later) = Len(word) + Len(later)
          /\ \A p \in 1 .. Len(later) : (word \o later)[Len(word) + p] = later[p]
      OBVIOUS
    <3>2. \A p \in 1 .. Len(later) : 1 + p = p + 1
      OBVIOUS
    <3>3. Len(later) \in Nat
      OBVIOUS
    <3> QED
      BY <2>12, <2>15, <3>1, <3>2, <3>3
  <2>18. /\ Len(later) = Len(t) - (m + 1)
         /\ \A p \in 1 .. Len(t) - (m + 1) : later[p] = t[(m + 1) + p]
    <3>1. Len(later) = Len(t) - (m + 1)
      BY <2>5, <2>17
    <3>2. ASSUME NEW p \in 1 .. Len(t) - (m + 1) PROVE later[p] = t[(m + 1) + p]
      <4>1. p + 1 \in 1 .. Len(t) - m /\ p \in 1 .. Len(later) /\ m + (p + 1) = (m + 1) + p
        BY <1>2, <3>1, SMTT(30)
      <4> QED
        BY <2>5, <2>17, <4>1
    <3> QED
      BY <3>1, <3>2
  <2>19. k + (m + 1) = h + 1 /\ k + (m + 1) <= n
    BY <2>3, <2>8
  <2>20. \A p \in 1 .. m + 1 : us[k + p].spelled = <<t[p]>>
    <3> TAKE p \in 1 .. m + 1
    <3>1. CASE p \in 1 .. m
      BY <2>2, <3>1
    <3>2. CASE p = m + 1
      BY <2>9, <2>11, <2>16, <2>19, <3>2
    <3> QED
      BY <3>1, <3>2
  <2> QED
    BY <2>10, <2>18, <2>19, <2>20
<1> HIDE DEF S
<1>14. L + 1 \in S
  BY <1>12, <1>13, NatBySteps
<1>15. k + (L + 1) <= n /\ \A p \in 1 .. L + 1 : us[k + p].spelled = <<t[p]>>
  <2>1. Dropped(L + 1)
    <3> HIDE DEF Dropped
    <3>1. L + 1 <= L + 1
      OBVIOUS
    <3> QED
      BY <1>14, <3>1 DEF S
  <2> QED
    BY <2>1
<1>16. PICK M \in Nat : M = L + 1
  OBVIOUS
<1>17. PICK j \in Nat : j = k + M
  OBVIOUS
<1>18. PICK from \in Nat : from = k + 1
  OBVIOUS
<1>19. PICK sub : sub = SubSeq(us, from, j)
  OBVIOUS
<1>20. us \in Seq(Unit) /\ Len(us) = n
  <2>1. DOMAIN us = 1 .. n /\ \A i \in 1 .. n : us[i] \in Unit
    OBVIOUS
  <2>2. us = [i \in 1 .. n |-> us[i]]
    OBVIOUS
  <2>3. us \in Seq(Unit)
    BY <2>1, <2>2
  <2> QED
    BY <2>1, <2>3
<1>21. /\ sub \in Seq(Unit) /\ Len(sub) = M
       /\ \A p \in 1 .. M : sub[p] = us[k + p]
  BY <1>15, <1>16, <1>17, <1>18, <1>19, <1>20
<1>22. PICK text : text = name \o <<Semi>>
  OBVIOUS
<1>23. /\ text \in Seq(Symbols) /\ Len(text) = M
       /\ \A p \in 1 .. M : text[p] = t[p]
  <2>1. PICK semi : semi = Semi
    OBVIOUS
  <2>2. semi \in Symbols /\ t[L + 1] = semi
    BY <1>10, <2>1
  <2>3. text = name \o <<semi>>
    BY <1>22, <2>1
  <2>4. /\ text \in Seq(Symbols) /\ Len(text) = L + 1
        /\ \A p \in 1 .. L : text[p] = name[p]
        /\ text[L + 1] = semi
    <3>1. name \in Seq(Symbols) /\ Len(name) = L /\ semi \in Symbols
      BY <1>9, <2>2
    <3>2. /\ name \o <<semi>> \in Seq(Symbols) /\ Len(name \o <<semi>>) = Len(name) + 1
          /\ \A p \in 1 .. Len(name) : (name \o <<semi>>)[p] = name[p]
          /\ (name \o <<semi>>)[Len(name) + 1] = semi
      BY <3>1, OneMoreSymbol
    <3> QED
      BY <2>3, <3>1, <3>2
  <2> QED
    BY <1>9, <1>16, <2>2, <2>4
<1>24. \A p \in 1 .. M : sub[p].spelled = <<text[p]>>
  BY <1>15, <1>16, <1>21, <1>23
<1>25. Spelling(sub) = text
  BY <1>21, <1>23, <1>24, SpellingOfSymbols
<1>26. k \in DOMAIN us /\ j \in k + 1 .. Len(us)
  BY <1>15, <1>16, <1>17, <1>20
<1>27. Spelling(SubSeq(us, k + 1, j)) \in {other \o <<Semi>> : other \in DOMAIN Named}
  BY <1>8, <1>18, <1>19, <1>22, <1>25
<1>28. Ambiguous(us)
  BY <1>26, <1>27 DEF Ambiguous, Amp, Semi
<1> QED
  BY <1>28

-----------------------------------------------------------------------------
(* What is read so far is what the units read so far mean; tail is what    *)
(* is left of the unit under way, text as it is.                           *)
Meaning(us) == [i \in DOMAIN us |-> us[i].means]

Unmarked(s) == s \in Seq(Symbols) /\ \A i \in 1 .. Len(s) : s[i] # Amp

ReadTo(H, G, n, us, k, tail, rest, written) ==
    /\ Rests(H, n, us) /\ Flattens(G, n, Symbols, Meaning(us))
    /\ k \in 0 .. n /\ Unmarked(tail)
    /\ rest = tail \o H[k] /\ written \o tail = G[k]

EntityIInv ==
    /\ output \in Seq(Symbols) /\ decoding \in BOOLEAN
    /\ \E n \in Nat : units \in [1 .. n -> Unit]
    /\ ~Ambiguous(units)
    /\ \/ /\ decoding
          /\ \E n \in Nat : \E H, G, k, tail :
                /\ units \in [1 .. n -> Unit]
                /\ ReadTo(H, G, n, units, k, tail, undecoded, output)
       \/ ~decoding /\ output = FlattenSeq(Meaning(units))

\* What one turn of the loop takes of the text, and what it writes.
Takes(rest, written, left, longer) ==
    \/ ~IsReference(rest) /\ left = Tail(rest) /\ longer = Append(written, rest[1])
    \/ /\ IsReference(rest) /\ left = After(rest)
       /\ longer = Append(written, Named[NameOf(rest)])

\* Taken from the middle of a unit.
LEMMA TakenInside ==
    ASSUME NEW n \in Nat, NEW us \in [1 .. n -> Unit], NEW H, NEW G, NEW k, NEW tail, NEW rest,
           NEW written \in Seq(Symbols), ReadTo(H, G, n, us, k, tail, rest, written),
           tail # << >>, NEW left, NEW longer, Takes(rest, written, left, longer)
    PROVE  longer \in Seq(Symbols) /\ \E t : ReadTo(H, G, n, us, k, t, left, longer)
<1>1. /\ Rests(H, n, us) /\ Flattens(G, n, Symbols, Meaning(us)) /\ k \in 0 .. n
      /\ tail \in Seq(Symbols) /\ \A i \in 1 .. Len(tail) : tail[i] # Amp
      /\ rest = tail \o H[k] /\ written \o tail = G[k]
  BY DEF ReadTo, Unmarked
<1>2. PICK after \in Seq(Symbols) : after = H[k]
  BY <1>1 DEF Rests
<1>3. PICK c \in Symbols : c = tail[1]
  BY <1>1
<1>4. PICK t : t = Tail(tail)
  OBVIOUS
<1>5. Len(tail) \in Nat /\ Len(tail) # 0
  BY <1>1
<1>6. /\ t \in Seq(Symbols) /\ Len(t) = Len(tail) - 1
      /\ \A i \in 1 .. Len(t) : t[i] = tail[i + 1]
  BY <1>1, <1>4, <1>5
<1>7. rest[1] = c /\ c # Amp /\ rest # << >>
  BY <1>1, <1>2, <1>3, <1>5
<1>8. ~IsReference(rest)
  BY <1>7 DEF IsReference, Amp
<1>9. left = Tail(rest) /\ longer = Append(written, c)
  BY <1>7, <1>8 DEF Takes
<1>10. left = t \o after
  <2>1. rest \in Seq(Symbols) /\ Len(rest) = Len(tail) + Len(after)
    BY <1>1, <1>2
  <2>2. \A i \in 1 .. Len(rest) - 1 : left[i] = rest[i + 1]
    BY <1>9, <2>1
  <2>3. left \in Seq(Symbols) /\ Len(left) = Len(rest) - 1
    BY <1>7, <1>9, <2>1
  <2>4. /\ t \o after \in Seq(Symbols) /\ Len(t \o after) = Len(rest) - 1
    <3>1. t \o after \in Seq(Symbols) /\ Len(t \o after) = Len(t) + Len(after)
      BY <1>2, <1>6, ConcatType
    <3>2. Len(after) \in Nat
      BY <1>2
    <3> QED
      BY <1>5, <1>6, <2>1, <3>1, <3>2
  <2>5. ASSUME NEW i \in 1 .. Len(t \o after) PROVE left[i] = (t \o after)[i]
    <3>1. CASE i <= Len(t)
      <4>1. (t \o after)[i] = t[i] /\ i \in 1 .. Len(t)
        BY <1>2, <1>6, <3>1
      <4>2. rest[i + 1] = tail[i + 1]
        BY <1>1, <1>2, <1>5, <1>6, <3>1
      <4> QED
        BY <1>6, <2>2, <2>4, <4>1, <4>2
    <3>2. CASE i > Len(t)
      <4>1. (t \o after)[i] = after[i - Len(t)]
        BY <1>2, <1>6, <2>4, <3>2, SMTT(30)
      <4>2. rest[i + 1] = after[(i + 1) - Len(tail)]
        BY <1>1, <1>2, <1>5, <1>6, <2>4, <3>2
      <4>3. (i + 1) - Len(tail) = i - Len(t)
        BY <1>5, <1>6
      <4> QED
        BY <2>2, <2>4, <4>1, <4>2, <4>3
    <3> QED
      BY <1>5, <1>6, <3>1, <3>2
  <2> QED
    BY <2>3, <2>4, <2>5, SameText
<1>11. longer \in Seq(Symbols) /\ longer = written \o <<c>>
  BY <1>9
<1>12. tail = <<c>> \o t
  <2>1. <<c>> \o t \in Seq(Symbols) /\ Len(<<c>> \o t) = Len(tail)
    BY <1>5, <1>6
  <2>2. \A i \in 1 .. Len(tail) : tail[i] = (<<c>> \o t)[i]
    BY <1>3, <1>5, <1>6
  <2> QED
    BY <1>1, <2>1, <2>2, SameText
<1>13. longer \o t = written \o tail
  <2>1. <<c>> \in Seq(Symbols)
    OBVIOUS
  <2> QED
    BY <1>6, <1>11, <1>12, <2>1, TextsJoin, ZenonT(40)
<1>14. Unmarked(t)
  BY <1>1, <1>6 DEF Unmarked
<1>15. left = t \o H[k] /\ longer \o t = G[k]
  BY <1>1, <1>2, <1>10, <1>13
<1> QED
  BY <1>1, <1>11, <1>14, <1>15 DEF ReadTo

\* A unit that is plain text may be entered before it is read.
LEMMA PlainUnitEntered ==
    ASSUME NEW n \in Nat, NEW us \in [1 .. n -> Unit], NEW H, NEW G, NEW k, NEW rest,
           NEW written \in Seq(Symbols), ReadTo(H, G, n, us, k, << >>, rest, written),
           k < n, us[k + 1].means = us[k + 1].spelled, Unmarked(us[k + 1].spelled)
    PROVE  ReadTo(H, G, n, us, k + 1, us[k + 1].spelled, rest, written)
<1>1. /\ Rests(H, n, us) /\ Flattens(G, n, Symbols, Meaning(us)) /\ k \in 0 .. n
      /\ rest = << >> \o H[k] /\ written \o << >> = G[k]
  BY DEF ReadTo
<1>2. k \in Nat /\ k + 1 \in 1 .. n /\ (k + 1) - 1 = k /\ k + 1 \in 0 .. n
  BY <1>1
<1>3. H[k] \in Seq(Symbols) /\ H[k] = us[k + 1].spelled \o H[k + 1]
  BY <1>1, <1>2 DEF Rests
<1>4. G[k + 1] = G[k] \o us[k + 1].means
  <2>1. Meaning(us)[k + 1] = us[k + 1].means
    BY <1>2 DEF Meaning
  <2> QED
    BY <1>1, <1>2, <2>1 DEF Flattens
<1>5. rest = H[k] /\ written = G[k]
  BY <1>1, <1>3
<1> QED
  BY <1>1, <1>2, <1>3, <1>4, <1>5 DEF ReadTo

\* Taken at the head of a unit: the whole of it, or its `&'.
LEMMA TakenAtHead ==
    ASSUME NEW n \in Nat, NEW us \in [1 .. n -> Unit], ~Ambiguous(us),
           NEW H, NEW G, NEW k, NEW rest,
           NEW written \in Seq(Symbols), ReadTo(H, G, n, us, k, << >>, rest, written),
           rest # << >>, NEW left, NEW longer, Takes(rest, written, left, longer)
    PROVE  longer \in Seq(Symbols) /\ \E l, t : ReadTo(H, G, n, us, l, t, left, longer)
<1>1. /\ Rests(H, n, us) /\ Flattens(G, n, Symbols, Meaning(us)) /\ k \in 0 .. n
      /\ rest = << >> \o H[k] /\ written \o << >> = G[k]
  BY DEF ReadTo
<1>2. /\ H \in [0 .. n -> Seq(Symbols)] /\ H[n] = << >>
      /\ \A i \in 1 .. n : H[i - 1] = us[i].spelled \o H[i]
  BY <1>1 DEF Rests
<1>3. rest = H[k] /\ written = G[k]
  BY <1>1, <1>2
<1>4. k \in Nat /\ k < n
  BY <1>1, <1>2, <1>3
<1>5. PICK m \in Nat : m = k + 1
  BY <1>4
<1>6. m \in 1 .. n /\ m - 1 = k /\ m \in 0 .. n
  BY <1>4, <1>5
<1>7. PICK unit \in Unit : unit = us[m]
  BY <1>6
<1>8. PICK after \in Seq(Symbols) : after = H[m]
  BY <1>2, <1>6
<1>9. PICK word \in Seq(Symbols) : word = unit.spelled
  BY UnitsAreTexts
<1>10. rest = word \o after
  BY <1>2, <1>3, <1>6, <1>7, <1>8, <1>9
<1>11. G[m] = written \o unit.means
  <2>1. Meaning(us)[m] = us[m].means
    BY <1>6 DEF Meaning
  <2> QED
    BY <1>1, <1>3, <1>6, <1>7, <2>1 DEF Flattens
<1>12. Unmarked(<< >>)
  BY DEF Unmarked
<1>13. Len(word) \in Nat \ {0} /\ unit.means \in Seq(Symbols)
       /\ ((Len(word) = 1 /\ unit.means = word) \/ Quoted(unit))
  BY <1>9, UnitsAreTexts
<1>14. CASE Len(word) = 1 /\ unit.means = word /\ word[1] # Amp
  <2>1. Unmarked(word) /\ word # << >>
    BY <1>9, <1>14 DEF Unmarked
  <2>2. ReadTo(H, G, n, us, m, word, rest, written)
    <3>1. us[k + 1].means = us[k + 1].spelled /\ Unmarked(us[k + 1].spelled)
      BY <1>5, <1>7, <1>9, <1>14, <2>1
    <3>2. ReadTo(H, G, n, us, k + 1, us[k + 1].spelled, rest, written)
      BY <1>4, <3>1, PlainUnitEntered
    <3> QED
      BY <1>5, <1>7, <1>9, <3>2
  <2>3. longer \in Seq(Symbols) /\ \E t : ReadTo(H, G, n, us, m, t, left, longer)
    BY <2>1, <2>2, TakenInside
  <2> QED
    BY <2>3
<1>15. CASE Len(word) = 1 /\ unit.means = word /\ word[1] = Amp
  <2>1. PICK amp \in Symbols : amp = word[1]
    BY <1>9, <1>15
  <2>2. word = <<amp>>
    BY <1>15, <2>1
  <2>3. ~IsReference(rest)
    <3>1. us[m].spelled = <<Amp>>
      BY <1>7, <1>9, <1>15, <2>1, <2>2
    <3>2. rest = us[m].spelled \o H[m]
      BY <1>7, <1>8, <1>9, <1>10
    <3> QED
      BY <1>1, <1>6, <3>1, <3>2, BareIsText
  <2>4. rest[1] = amp /\ Tail(rest) = after
    BY <1>10, <2>2
  <2>5. left = after /\ longer = Append(written, amp)
    BY <2>3, <2>4 DEF Takes
  <2>6. longer \in Seq(Symbols) /\ longer = written \o <<amp>>
    BY <2>5
  <2>7. longer \o << >> = G[m] /\ left = << >> \o H[m]
    BY <1>8, <1>11, <1>15, <2>2, <2>5, <2>6
  <2>8. ReadTo(H, G, n, us, m, << >>, left, longer)
    BY <1>1, <1>6, <1>12, <2>7 DEF ReadTo
  <2> QED
    BY <2>6, <2>8
<1>16. CASE Quoted(unit)
  <2>1. /\ rest[1] = Amp /\ After(rest) = after
        /\ IsReference(rest) => unit.means = <<Named[NameOf(rest)]>>
        /\ ~IsReference(rest) => unit.means = word
    BY <1>9, <1>10, <1>16, QuotedIsRead
  <2>2. CASE IsReference(rest)
    <3>1. PICK c : c = Named[NameOf(rest)]
      OBVIOUS
    <3>2. c \in Symbols
      BY <2>2, <3>1, NamesStand DEF IsReference
    <3>3. left = after /\ longer = Append(written, c)
      BY <2>1, <2>2, <3>1 DEF Takes
    <3>4. longer \in Seq(Symbols) /\ longer = written \o <<c>>
      BY <3>2, <3>3
    <3>5. longer \o << >> = G[m] /\ left = << >> \o H[m]
      <4>1. unit.means = <<c>>
        BY <2>1, <2>2, <3>1
      <4>2. longer = G[m]
        BY <1>11, <3>4, <4>1
      <4>3. longer \o << >> = longer /\ << >> \o after = after
        BY <1>8, <3>4
      <4> QED
        BY <1>8, <3>3, <4>2, <4>3
    <3>6. ReadTo(H, G, n, us, m, << >>, left, longer)
      BY <1>1, <1>6, <1>12, <3>5 DEF ReadTo
    <3> QED
      BY <3>4, <3>6
  <2>3. CASE ~IsReference(rest)
    <3>1. /\ left = Tail(rest) /\ longer = Append(written, rest[1])
          /\ unit.means = word
      BY <2>1, <2>3 DEF Takes
    <3>2. PICK t : t = Tail(word)
      OBVIOUS
    <3>3. PICK amp \in Symbols : amp = word[1]
      BY <1>13
    <3>4. Len(word) \in Nat /\ Len(word) # 0
      BY <1>13
    <3>5. /\ t \in Seq(Symbols) /\ Len(t) = Len(word) - 1
          /\ \A i \in 1 .. Len(t) : t[i] = word[i + 1]
      BY <3>2, <3>4
    <3>6. word = <<amp>> \o t
      <4>1. <<amp>> \o t \in Seq(Symbols) /\ Len(<<amp>> \o t) = Len(word)
        BY <3>4, <3>5
      <4>2. \A i \in 1 .. Len(word) : word[i] = (<<amp>> \o t)[i]
        BY <3>3, <3>4, <3>5
      <4> QED
        BY <4>1, <4>2, SameText
    <3>7. rest[1] = amp
      BY <1>10, <3>3, <3>4
    <3>8. rest = <<amp>> \o (t \o after)
      <4>1. <<amp>> \in Seq(Symbols)
        OBVIOUS
      <4> QED
        BY <1>10, <3>5, <3>6, <4>1, TextsJoin, Zenon
    <3>9. Tail(rest) = t \o after
      <4>1. PICK both \in Seq(Symbols) : both = t \o after
        BY <1>8, <3>5, ConcatType
      <4>2. Tail(<<amp>> \o both) = both
        BY <4>1
      <4> QED
        BY <3>8, <4>1, <4>2
    <3>10. longer \in Seq(Symbols) /\ longer = written \o <<amp>>
      BY <3>1, <3>3, <3>7
    <3>11. longer \o t = written \o word
      <4>1. <<amp>> \in Seq(Symbols)
        OBVIOUS
      <4>2. (written \o <<amp>>) \o t = written \o (<<amp>> \o t)
        <5>1. t \in Seq(Symbols)
          BY <3>5
        <5> QED
          BY <4>1, <5>1, TextsJoin, ZenonT(40)
      <4>3. longer = written \o <<amp>>
        BY <3>10
      <4> QED
        BY <3>6, <4>2, <4>3, Zenon
    <3>12. left = t \o H[m] /\ longer \o t = G[m]
      BY <1>8, <1>11, <3>1, <3>9, <3>11
    <3>13. Unmarked(t)
      <4>1. ASSUME NEW i \in 1 .. Len(t) PROVE t[i] # Amp
        <5>1. Len(word) >= 2 /\ Opaque(SubSeq(word, 2, Len(word) - 1))
              /\ word[Len(word)] = Semi
          BY <1>9, <1>16 DEF Quoted, Semi
        <5>2. CASE i = Len(word) - 1
          BY <3>4, <3>5, <5>1, <5>2, AmpIsNotSemi
        <5>3. CASE i # Len(word) - 1
          <6>1. PICK low \in Nat : low = 2
            OBVIOUS
          <6>2. PICK high \in Nat : high = Len(word) - 1
            BY <3>4, <5>1
          <6>3. PICK name : name = SubSeq(word, low, high)
            OBVIOUS
          <6>4. i \in 1 .. high - low + 1 /\ low + i - 1 = i + 1
            BY <3>4, <3>5, <5>1, <5>3, <6>1, <6>2
          <6>5. Len(name) = high - low + 1 /\ name[i] = word[low + i - 1]
            BY <3>4, <5>1, <6>1, <6>2, <6>3, <6>4
          <6>6. Opaque(name)
            BY <5>1, <6>1, <6>2, <6>3
          <6>7. name[i] # Amp
            BY <6>4, <6>5, <6>6, OpaqueText
          <6> QED
            BY <3>5, <6>4, <6>5, <6>7
        <5> QED
          BY <5>2, <5>3
      <4> QED
        BY <3>5, <4>1 DEF Unmarked
    <3>14. ReadTo(H, G, n, us, m, t, left, longer)
      BY <1>1, <1>6, <3>12, <3>13 DEF ReadTo
    <3> QED
      BY <3>10, <3>14
  <2> QED
    BY <2>2, <2>3
<1> QED
  BY <1>13, <1>14, <1>15, <1>16

\* A turn of the loop keeps what is read in step with what is written.
LEMMA TurnTaken ==
    ASSUME EntityIInv, decoding, undecoded # << >>,
           Takes(undecoded, output, undecoded', output'), UNCHANGED <<units, decoding>>
    PROVE  EntityIInv'
<1>1. /\ output \in Seq(Symbols) /\ ~Ambiguous(units)
      /\ \E n \in Nat : units \in [1 .. n -> Unit]
      /\ \E n \in Nat : \E H, G, k, tail :
            /\ units \in [1 .. n -> Unit]
            /\ ReadTo(H, G, n, units, k, tail, undecoded, output)
  BY DEF EntityIInv
<1>2. PICK n \in Nat : \E H, G, k, tail :
            /\ units \in [1 .. n -> Unit]
            /\ ReadTo(H, G, n, units, k, tail, undecoded, output)
  BY <1>1
<1>3. PICK H, G, k, tail :
            /\ units \in [1 .. n -> Unit]
            /\ ReadTo(H, G, n, units, k, tail, undecoded, output)
  BY <1>2
<1>4. PICK left : left = undecoded'
  OBVIOUS
<1>5. PICK longer : longer = output'
  OBVIOUS
<1>6. Takes(undecoded, output, left, longer)
  BY <1>4, <1>5
<1>7. longer \in Seq(Symbols) /\ \E l, t : ReadTo(H, G, n, units, l, t, left, longer)
  <2>1. CASE tail = << >>
    BY <1>1, <1>3, <1>6, <2>1, TakenAtHead
  <2>2. CASE tail # << >>
    <3>1. longer \in Seq(Symbols) /\ \E t : ReadTo(H, G, n, units, k, t, left, longer)
      BY <1>1, <1>3, <1>6, <2>2, TakenInside
    <3> QED
      BY <3>1
  <2> QED
    BY <2>1, <2>2
<1>8. PICK l, t : ReadTo(H, G, n, units, l, t, left, longer)
  BY <1>7
<1>9. units' = units /\ decoding'
  OBVIOUS
<1>10. ReadTo(H, G, n, units', l, t, undecoded', output')
  BY <1>4, <1>5, <1>8, <1>9
<1>11. \E m \in Nat : \E H2, G2, k2, tail2 :
            /\ units' \in [1 .. m -> Unit]
            /\ ReadTo(H2, G2, m, units', k2, tail2, undecoded', output')
  BY <1>3, <1>9, <1>10
<1>12. output' \in Seq(Symbols) /\ decoding' \in BOOLEAN /\ ~Ambiguous(units')
       /\ \E m \in Nat : units' \in [1 .. m -> Unit]
  BY <1>1, <1>5, <1>7, <1>9
<1> QED
  BY <1>9, <1>11, <1>12 DEF EntityIInv

\* At the end of the text all of it is read.
LEMMA TextEnds ==
    ASSUME EntityIInv, EndOfText
    PROVE  EntityIInv'
<1>1. /\ output \in Seq(Symbols) /\ ~Ambiguous(units) /\ decoding
      /\ \E n \in Nat : units \in [1 .. n -> Unit]
      /\ undecoded = << >> /\ decoding' = FALSE
      /\ units' = units /\ output' = output
  BY DEF EntityIInv, EndOfText
<1>2. PICK n \in Nat : \E H, G, k, tail :
            /\ units \in [1 .. n -> Unit]
            /\ ReadTo(H, G, n, units, k, tail, undecoded, output)
  BY <1>1 DEF EntityIInv
<1>3. PICK H, G, k, tail :
            /\ units \in [1 .. n -> Unit]
            /\ ReadTo(H, G, n, units, k, tail, undecoded, output)
  BY <1>2
<1>4. /\ Rests(H, n, units) /\ Flattens(G, n, Symbols, Meaning(units)) /\ k \in 0 .. n
      /\ tail \in Seq(Symbols) /\ undecoded = tail \o H[k] /\ output \o tail = G[k]
  BY <1>3 DEF ReadTo, Unmarked
<1>5. /\ H \in [0 .. n -> Seq(Symbols)]
      /\ \A i \in 1 .. n : H[i - 1] = units[i].spelled \o H[i]
  BY <1>4 DEF Rests
<1>6. PICK rest \in Seq(Symbols) : rest = H[k]
  BY <1>4, <1>5
<1>7. Len(tail) = 0 /\ Len(rest) = 0
  <2>1. Len(tail \o rest) = 0
    <3>1. tail \o rest = << >>
      BY <1>1, <1>4, <1>6
    <3> QED
      BY <3>1
  <2>2. Len(tail) \in Nat /\ Len(rest) \in Nat /\ Len(tail \o rest) = Len(tail) + Len(rest)
    BY <1>4, <1>6
  <2> QED
    BY <2>1, <2>2
<1>8. k = n
  <2> SUFFICES ASSUME k # n PROVE FALSE
    OBVIOUS
  <2>1. k + 1 \in 1 .. n /\ (k + 1) - 1 = k /\ k + 1 \in 0 .. n
    BY <1>4
  <2>2. PICK unit \in Unit : unit = units[k + 1]
    BY <1>3, <2>1
  <2>3. PICK word \in Seq(Symbols) : word = unit.spelled /\ Len(word) \in Nat \ {0}
    BY UnitsAreTexts
  <2>4. PICK later \in Seq(Symbols) : later = H[k + 1]
    BY <1>5, <2>1
  <2>5. rest = word \o later
    BY <1>5, <1>6, <2>1, <2>2, <2>3, <2>4
  <2>6. Len(rest) = Len(word) + Len(later) /\ Len(later) \in Nat
    BY <2>5, ConcatType
  <2> QED
    <3>1. Len(word) \in Nat /\ Len(word) # 0
      BY <2>3
    <3>2. Len(word) + Len(later) = 0 /\ Len(later) \in Nat
      BY <1>7, <2>6
    <3> QED
      BY <3>1, <3>2
<1>9. output = FlattenSeq(Meaning(units))
  <2>1. output = G[k]
    <3>1. tail = << >>
      BY <1>4, <1>7
    <3> QED
      BY <1>1, <1>4, <3>1
  <2> QED
    BY <1>4, <1>8, <2>1 DEF Flattens
<1> QED
  BY <1>1, <1>9 DEF EntityIInv

LEMMA InitEntityIInv == EntityInit => EntityIInv
<1> SUFFICES ASSUME EntityInit PROVE EntityIInv
  OBVIOUS
<1>1. PICK n \in Nat : units \in [1 .. n -> Unit]
  BY EntityAssumption DEF EntityInit
<1>2. ~Ambiguous(units) /\ undecoded = Spelling(units) /\ output = << >> /\ decoding = TRUE
  BY DEF EntityInit
<1>3. PICK H : Rests(H, n, units)
  BY <1>1, RestsOf
<1>4. PICK G : Flattens(G, n, Symbols, Meaning(units))
  <2> DEFINE means == Meaning(units)
  <2>1. DOMAIN units = 1 .. n
    BY <1>1
  <2>2. Len(means) = n /\ (n = 0 => means = << >>)
    BY <2>1 DEF Meaning
  <2>3. \A i \in 1 .. n : means[i] \in Seq(Symbols)
    <3> TAKE i \in 1 .. n
    <3>1. PICK unit \in Unit : unit = units[i]
      BY <1>1
    <3>2. means[i] = unit.means
      BY <2>1, <3>1 DEF Meaning
    <3> QED
      BY <3>2, UnitsAreTexts
  <2> HIDE DEF means
  <2> QED
    BY <2>2, <2>3, FlattenLoop DEF means
<1>5. ReadTo(H, G, n, units, 0, << >>, undecoded, output)
  <2>1. H[0] \in Seq(Symbols) /\ undecoded = H[0]
    BY <1>2, <1>3 DEF Rests
  <2>2. undecoded = << >> \o H[0]
    BY <2>1
  <2>3. G[0] = << >> /\ output \o << >> = << >>
    BY <1>2, <1>4 DEF Flattens
  <2>4. Unmarked(<< >>)
    BY DEF Unmarked
  <2> QED
    BY <1>3, <1>4, <2>2, <2>3, <2>4 DEF ReadTo
<1>6. \E m \in Nat : \E H2, G2, k, tail :
            /\ units \in [1 .. m -> Unit]
            /\ ReadTo(H2, G2, m, units, k, tail, undecoded, output)
  BY <1>1, <1>5
<1>7. output \in Seq(Symbols)
  BY <1>2
<1> QED
  BY <1>1, <1>2, <1>6, <1>7 DEF EntityIInv

LEMMA NextEntityIInv == EntityIInv /\ [EntityNext]_entityVars => EntityIInv'
<1> SUFFICES ASSUME EntityIInv, [EntityNext]_entityVars PROVE EntityIInv'
  OBVIOUS
<1>1. CASE TakeSymbol
  <2>1. /\ undecoded # << >> /\ ~IsReference(undecoded) /\ decoding
        /\ UNCHANGED <<units, decoding>>
        /\ undecoded' = Tail(undecoded) /\ output' = Append(output, undecoded[1])
    BY <1>1 DEF TakeSymbol, Emit
  <2> QED
    BY <2>1, TurnTaken DEF Takes
<1>2. CASE TakeReference
  <2>1. /\ undecoded # << >> /\ IsReference(undecoded) /\ decoding
        /\ UNCHANGED <<units, decoding>>
        /\ undecoded' = After(undecoded)
        /\ output' = Append(output, Named[NameOf(undecoded)])
    BY <1>2 DEF TakeReference, Emit
  <2> QED
    BY <2>1, TurnTaken DEF Takes
<1>3. CASE EndOfText
  BY <1>3, TextEnds
<1>4. CASE UNCHANGED entityVars
  BY <1>4 DEF EntityIInv, entityVars
<1> QED
  BY <1>1, <1>2, <1>3, <1>4 DEF EntityNext

\* A text decodes to what its units mean, and then collapses.
LEMMA DecodedOnce == EntityIInv => EntitiesDecodeOnce
<1> SUFFICES ASSUME EntityIInv, ~decoding PROVE EntitiesDecodeOnce
  BY DEF EntitiesDecodeOnce
<1>1. output \in Seq(Symbols) /\ output = FlattenSeq(Meaning(units))
  BY DEF EntityIInv
<1>2. Gap \in Symbols
  BY DEF Symbols
<1>3. Collapses(output, CollapseWhitespace(output))
  BY <1>1, <1>2, WhiteCollapses
<1> QED
  BY <1>1, <1>3
     DEF EntitiesDecodeOnce, Collapses, Meaning, PlaceOf, BlacksTo, BreaksBefore, Gap

(***************************************************************************)
(* push_decoded and collapse_whitespace: each reference is decoded once,   *)
(* whatever it decodes to, and white space is one space between two words. *)
(***************************************************************************)
THEOREM SpecEntityIInv == EntitySpec => []EntityIInv
<1>1. EntityInit => EntityIInv
  BY InitEntityIInv
<1>2. EntityIInv /\ [EntityNext]_entityVars => EntityIInv'
  BY NextEntityIInv
<1> QED
  BY <1>1, <1>2, PTL DEF EntitySpec

THEOREM SpecEntitiesDecodeOnce == EntitySpec => []EntitiesDecodeOnce
BY SpecEntityIInv, DecodedOnce, PTL
=============================================================================
