------------------------- MODULE SearchEngineProofs -------------------------
(***************************************************************************)
(* What the query side answers, for any rows, queries, page sizes and      *)
(* schemas, any number of workers and any history of the index.            *)
(***************************************************************************)
EXTENDS SearchEngine, FiniteSetTheorems, TLAPS

-----------------------------------------------------------------------------
(* Ranking *)

\* Rows with ranks of their own, counted up to each, are in the places 1 to n.
LEMMA PlacesAreTaken ==
    ASSUME NEW S, IsFiniteSet(S), \A r \in S : r.rank \in Nat,
           \A r, s \in S : r.rank = s.rank => r = s
    PROVE  LET place == [r \in S |-> Cardinality({s \in S : s.rank <= r.rank})]
           IN  /\ place \in Bijection(S, 1 .. Cardinality(S))
               /\ \A r, s \in S : r.rank < s.rank => place[r] < place[s]
<1> DEFINE upTo(r) == {s \in S : s.rank <= r.rank}
           place == [r \in S |-> Cardinality(upTo(r))]
           n == Cardinality(S)
<1>1. n \in Nat
  BY FS_CardinalityType
<1>2. ASSUME NEW r \in S
      PROVE  IsFiniteSet(upTo(r)) /\ Cardinality(upTo(r)) \in 1 .. n
  <2>1. upTo(r) \in SUBSET S /\ r \in upTo(r)
    OBVIOUS
  <2>2. IsFiniteSet(upTo(r)) /\ Cardinality(upTo(r)) <= n
    BY <2>1, FS_Subset
  <2>3. Cardinality(upTo(r)) \in Nat /\ Cardinality(upTo(r)) # 0
    BY <2>1, <2>2, FS_CardinalityType, FS_EmptySet
  <2> QED
    BY <1>1, <2>2, <2>3
<1>3. ASSUME NEW r \in S, NEW s \in S, r.rank < s.rank
      PROVE  Cardinality(upTo(r)) < Cardinality(upTo(s))
  <2>1. upTo(r) \in SUBSET upTo(s) /\ s \in upTo(s) /\ s \notin upTo(r)
    BY <1>3
  <2>2. /\ Cardinality(upTo(r)) <= Cardinality(upTo(s))
        /\ Cardinality(upTo(s)) = Cardinality(upTo(r)) => upTo(s) = upTo(r)
    BY <1>2, <2>1, FS_Subset
  <2>3. Cardinality(upTo(r)) # Cardinality(upTo(s))
    BY <2>1, <2>2
  <2>4. Cardinality(upTo(r)) \in Nat /\ Cardinality(upTo(s)) \in Nat
    <3>1. /\ Cardinality(upTo(r)) \in 1 .. n
          /\ Cardinality(upTo(s)) \in 1 .. n
      BY <1>2
    <3> HIDE DEF upTo, n
    <3> QED
      BY <1>1, <3>1
  <2> HIDE DEF upTo
  <2> QED
    BY <2>2, <2>3, <2>4
<1> HIDE DEF upTo
<1>4. place \in [S -> 1 .. n]
  BY <1>2
<1>5. \A r, s \in S : r.rank < s.rank => place[r] < place[s]
  BY <1>3
<1>6. \A r, s \in S : place[r] = place[s] => r = s
  <2> SUFFICES ASSUME NEW r \in S, NEW s \in S, place[r] = place[s]
               PROVE  r.rank = s.rank
    OBVIOUS
  <2>1. place[r] \in Nat /\ place[s] \in Nat
    BY <1>1, <1>4
  <2> QED
    BY <1>5, <2>1
<1> HIDE DEF place
<1>7. place \in Injection(S, 1 .. n)
  BY <1>4, <1>6 DEF Injection, IsInjective
<1>8. IsFiniteSet(1 .. n) /\ Cardinality(1 .. n) = n
  <2>1. 1 \in Int /\ n \in Int
    BY <1>1
  <2>2. /\ IsFiniteSet(1 .. n)
        /\ Cardinality(1 .. n) = IF 1 > n THEN 0 ELSE n - 1 + 1
    BY ONLY <2>1, FS_Interval
  <2> QED
    BY <1>1, <2>2
<1>9. place \in Surjection(S, 1 .. n)
  BY <1>7, <1>8, FS_Injection
<1> QED
  BY <1>5, <1>7, <1>9 DEF Bijection, place, upTo

\* Ranked lists every row once, in the order of the ranks: the row at place i is
\* the one that i - 1 rows are ranked above.
LEMMA RankedIsRanking ==
    ASSUME NEW S, IsFiniteSet(S), \A r \in S : r.rank \in Nat,
           \A r, s \in S : r.rank = s.rank => r = s
    PROVE  LET q == Ranked(S)
               n == Cardinality(S)
           IN  /\ n \in Nat /\ q \in [1 .. n -> S] /\ q \in Seq(S) /\ Len(q) = n
               /\ \A i, j \in 1 .. n : i < j => q[i].rank < q[j].rank
               /\ \A r \in S : \E i \in 1 .. n : q[i] = r
               /\ \A i \in 1 .. n :
                     Cardinality({s \in S : s.rank < q[i].rank}) = i - 1
<1> DEFINE n == Cardinality(S)
           place == [r \in S |-> Cardinality({s \in S : s.rank <= r.rank})]
<1>1. n \in Nat
  BY FS_CardinalityType
<1>2. /\ place \in Bijection(S, 1 .. n)
      /\ \A r, s \in S : r.rank < s.rank => place[r] < place[s]
  BY PlacesAreTaken
<1> HIDE DEF place
<1> DEFINE listed == [i \in 1 .. n |-> CHOOSE r \in S : place[r] = i]
<1>3. \A i \in 1 .. n : listed[i] \in S /\ place[listed[i]] = i
  BY <1>2 DEF Bijection, Surjection
<1>4. listed \in [1 .. n -> S]
  BY <1>3
<1>5. ASSUME NEW i \in DOMAIN listed, NEW j \in DOMAIN listed, i < j
      PROVE  listed[i].rank < listed[j].rank
  <2>1. i \in 1 .. n /\ j \in 1 .. n
    OBVIOUS
  <2>2. /\ listed[i] \in S /\ listed[j] \in S
        /\ place[listed[i]] = i /\ place[listed[j]] = j
    BY <1>3, <2>1
  <2>3. ~(listed[j].rank < listed[i].rank)
    BY <1>1, <1>2, <1>5, <2>1, <2>2
  <2>4. listed[i].rank # listed[j].rank
    BY <1>5, <2>2
  <2>5. listed[i].rank \in Nat /\ listed[j].rank \in Nat
    BY <2>2
  <2> QED
    BY <2>3, <2>4, <2>5
<1> HIDE DEF listed
<1> DEFINE q == Ranked(S)
<1>6. /\ q \in [1 .. n -> S]
      /\ \A i, j \in DOMAIN q : i < j => q[i].rank < q[j].rank
  BY <1>4, <1>5 DEF Ranked
<1> HIDE DEF q
<1>7. q \in Seq(S) /\ Len(q) = n /\ DOMAIN q = 1 .. n
  BY <1>1, <1>6
<1>8. \A i, j \in 1 .. n : q[i] = q[j] => i = j
  <2> SUFFICES ASSUME NEW i \in 1 .. n, NEW j \in 1 .. n, i < j PROVE q[i] # q[j]
    BY <1>1
  <2>1. q[i].rank < q[j].rank /\ q[i].rank \in Nat
    BY <1>6, <1>7
  <2> QED
    BY <2>1
<1>9. IsFiniteSet(1 .. n) /\ Cardinality(1 .. n) = n
  <2>1. 1 \in Int /\ n \in Int
    BY <1>1
  <2>2. /\ IsFiniteSet(1 .. n)
        /\ Cardinality(1 .. n) = IF 1 > n THEN 0 ELSE n - 1 + 1
    BY ONLY <2>1, FS_Interval
  <2> QED
    BY <1>1, <2>2
<1>10. q \in Injection(1 .. n, S)
  BY <1>6, <1>8 DEF Injection, IsInjective
<1>11. q \in Surjection(1 .. n, S)
  BY <1>9, <1>10, FS_Injection
<1>12. \A r \in S : \E i \in 1 .. n : q[i] = r
  BY <1>11 DEF Surjection
<1>13. ASSUME NEW i \in 1 .. n
       PROVE  Cardinality({s \in S : s.rank < q[i].rank}) = i - 1
  <2> DEFINE below == {s \in S : s.rank < q[i].rank}
             f == [j \in 1 .. (i - 1) |-> q[j]]
  <2>1. i - 1 \in Nat /\ \A j \in 1 .. (i - 1) : j \in 1 .. n /\ j < i
    BY <1>1
  <2>2. \A j \in 1 .. (i - 1) : q[j] \in below
    BY <1>6, <1>7, <2>1
  <2>3. \A s \in below : \E j \in 1 .. (i - 1) : q[j] = s
    <3> SUFFICES ASSUME NEW s \in S, s.rank < q[i].rank
                 PROVE  \E j \in 1 .. (i - 1) : q[j] = s
      OBVIOUS
    <3>1. PICK j \in 1 .. n : q[j] = s
      BY <1>12
    <3>2. ~(i < j)
      <4>1. i < j => q[i].rank < q[j].rank
        BY <1>6, <1>7
      <4>2. q[i].rank \in Nat /\ s.rank \in Nat
        BY <1>6
      <4> QED
        BY <3>1, <4>1, <4>2
    <3>3. i # j
      <4>1. q[i].rank \in Nat
        BY <1>6
      <4> QED
        BY <3>1, <4>1
    <3>4. j \in 1 .. (i - 1)
      BY <1>1, <3>2, <3>3
    <3> QED
      BY <3>1, <3>4
  <2>4. \A j, k \in 1 .. (i - 1) : q[j] = q[k] => j = k
    BY <1>8, <2>1
  <2> HIDE DEF below
  <2>5. f \in Bijection(1 .. (i - 1), below)
    BY <2>2, <2>3, <2>4 DEF Bijection, Injection, Surjection, IsInjective
  <2>6. ExistsBijection(1 .. (i - 1), below)
    BY <2>5 DEF ExistsBijection
  <2>7. Cardinality(below) = i - 1
    BY <2>1, <2>6, FS_CountingElements
  <2> QED
    BY <2>7 DEF below
<1> QED
  BY <1>1, <1>6, <1>7, <1>12, <1>13 DEF q

-----------------------------------------------------------------------------
(* Pages *)

\* SetMax of two numbers is the larger.
LEMMA SetMaxOfTwo ==
    ASSUME NEW a \in Nat
    PROVE  /\ SetMax({a, 1}) = IF a > 1 THEN a ELSE 1
           /\ SetMax({1, a}) = SetMax({a, 1})
<1>1. CASE a > 1
  <2>1. \A n \in {a, 1} : (\A m \in {a, 1} : m <= n) <=> n = a
    BY <1>1
  <2> QED
    BY <1>1, <2>1 DEF SetMax
<1>2. CASE ~(a > 1)
  <2>1. \A n \in {a, 1} : (\A m \in {a, 1} : m <= n) <=> n = 1
    BY <1>2
  <2> QED
    BY <1>2, <2>1 DEF SetMax
<1>3. {1, a} = {a, 1}
  OBVIOUS
<1> QED
  BY <1>1, <1>2, <1>3

\* A page is the rows in places offset + 1 to offset + limit, in their order.
LEMMA TopDocsAreThePlaces ==
    ASSUME NEW S, IsFiniteSet(S), \A r \in S : r.rank \in Nat,
           \A r, s \in S : r.rank = s.rank => r = s,
           NEW limit \in Nat, NEW offset \in Nat
    PROVE  LET hits == TopDocs(S, limit, offset)
               Above(r) == Cardinality({s \in S : s.rank < r.rank})
               size == IF limit = 0 THEN 1 ELSE limit
           IN  /\ hits \in Seq(S)
               /\ ToSet(hits) = {r \in S : Above(r) >= offset
                                           /\ Above(r) < offset + size}
               /\ \A i, j \in DOMAIN hits : i < j => hits[i].rank < hits[j].rank
<1> DEFINE q    == Ranked(S)
           n    == Cardinality(S)
           size == IF limit = 0 THEN 1 ELSE limit
           last == IF offset + size < n THEN offset + size ELSE n
           hits == TopDocs(S, limit, offset)
           Above(r) == Cardinality({s \in S : s.rank < r.rank})
<1>1. /\ n \in Nat /\ q \in [1 .. n -> S] /\ q \in Seq(S) /\ Len(q) = n
      /\ \A i, j \in 1 .. n : i < j => q[i].rank < q[j].rank
      /\ \A r \in S : \E i \in 1 .. n : q[i] = r
      /\ \A i \in 1 .. n : Above(q[i]) = i - 1
  BY RankedIsRanking
<1>2. SetMax({limit, 1}) = size /\ size \in Nat
  BY SetMaxOfTwo
<1>3. hits = SubSeq(q, offset + 1, last)
  BY <1>1, <1>2 DEF TopDocs
<1> HIDE DEF q, n, size, hits, Above
<1>4. last \in Nat /\ last <= n
  BY <1>1, <1>2
<1> DEFINE len == IF offset < last THEN last - offset ELSE 0
<1>5. len \in Nat /\ \A i \in 1 .. len : i + offset \in 1 .. n
  BY <1>1, <1>4
<1>6. /\ hits \in Seq(S) /\ DOMAIN hits = 1 .. len
      /\ \A i \in 1 .. len : hits[i] = q[i + offset]
  <2>1. hits = [i \in 1 .. len |-> q[i + offset]]
    <3>1. hits = [i \in 1 .. (1 + last - (offset + 1)) |-> q[i + (offset + 1) - 1]]
      BY <1>1, <1>3, <1>4
    <3>2. 1 .. (1 + last - (offset + 1)) = 1 .. len
      BY <1>4
    <3>3. \A i \in 1 .. len : i + (offset + 1) - 1 = i + offset
      OBVIOUS
    <3> HIDE DEF len, last
    <3> QED
      BY <3>1, <3>2, <3>3
  <2>2. \A i \in 1 .. len : q[i + offset] \in S
    BY <1>1, <1>5
  <2> QED
    BY <1>5, <2>1, <2>2
<1> HIDE DEF len
<1>7. ASSUME NEW i \in 1 .. len, NEW j \in 1 .. len, i < j
      PROVE  hits[i].rank < hits[j].rank
  <2>1. i + offset \in 1 .. n /\ j + offset \in 1 .. n /\ i + offset < j + offset
    BY <1>5, <1>7
  <2> QED
    BY <1>1, <1>6, <2>1
<1>8. ASSUME NEW r \in S
      PROVE  r \in ToSet(hits) <=> Above(r) >= offset /\ Above(r) < offset + size
  <2>1. PICK p \in 1 .. n : q[p] = r
    BY <1>1
  <2>2. Above(r) = p - 1
    BY <1>1, <2>1
  <2>3. (p - 1 >= offset /\ p - 1 < offset + size) <=> p - offset \in 1 .. len
    BY <1>1, <1>2, <1>4 DEF len
  <2>4. p - offset \in 1 .. len => r \in ToSet(hits)
    <3> SUFFICES ASSUME p - offset \in 1 .. len PROVE r \in ToSet(hits)
      OBVIOUS
    <3>1. hits[p - offset] = q[(p - offset) + offset]
      BY <1>6
    <3>2. (p - offset) + offset = p
      BY <1>1
    <3> QED
      BY <1>6, <2>1, <3>1, <3>2 DEF ToSet
  <2>5. r \in ToSet(hits) => p - offset \in 1 .. len
    <3> SUFFICES ASSUME NEW i \in 1 .. len, hits[i] = r PROVE p - offset \in 1 .. len
      BY <1>6 DEF ToSet
    <3>1. i + offset \in 1 .. n /\ q[i + offset] = r
      BY <1>5, <1>6
    <3>2. (i + offset) - 1 = p - 1
      BY <1>1, <2>1, <2>2, <3>1
    <3>3. p - offset = i
      BY <1>1, <1>5, <3>2
    <3> QED
      BY <3>3
  <2> QED
    BY <2>2, <2>3, <2>4, <2>5
<1>9. ToSet(hits) \subseteq S
  BY <1>1, <1>5, <1>6 DEF ToSet
<1> QED
  BY <1>6, <1>7, <1>8, <1>9 DEF hits, Above, size

\* A query has finitely many words.
LEMMA WordsAreFinite ==
    ASSUME NEW query, query \in Seq(ToSet(query))
    PROVE  /\ Len(query) \in Nat /\ DOMAIN query = 1 .. Len(query)
           /\ IsFiniteSet(ToSet(query))
           /\ query = << >> <=> Len(query) = 0
           /\ query = << >> <=> ToSet(query) = {}
<1>1. Len(query) \in Nat /\ DOMAIN query = 1 .. Len(query)
  OBVIOUS
<1>2. query \in Surjection(1 .. Len(query), ToSet(query))
  BY DEF Surjection, ToSet
<1>3. IsFiniteSet(1 .. Len(query))
  <2>1. 1 \in Int /\ Len(query) \in Int
    BY <1>1
  <2> QED
    BY ONLY <2>1, FS_Interval
<1>4. IsFiniteSet(ToSet(query))
  BY <1>2, <1>3, FS_Surjection
<1>5. query = << >> <=> Len(query) = 0
  BY <1>1
<1>6. query = << >> <=> ToSet(query) = {}
  <2>1. query = << >> => ToSet(query) = {}
    BY DEF ToSet
  <2>2. query # << >> => query[1] \in ToSet(query)
    BY <1>1, <1>5 DEF ToSet
  <2> QED
    BY <2>1, <2>2
<1> QED
  BY <1>1, <1>4, <1>5, <1>6

\* The rows that are returned are the rows that are wanted.
LEMMA ParsedIsWanted ==
    ASSUME NEW rows, NEW query, query \in Seq(ToSet(query))
    PROVE  LET strict  == Strict(rows, query)
               wide    == Wide(rows, query)
               relaxed == strict = {} /\ IsMultiTerm(query) /\ wide # {}
               parsed  == IF relaxed THEN wide ELSE strict
           IN  /\ parsed = Wanted(rows, query)
               /\ relaxed <=> \E r \in parsed, w \in ToSet(query) : w \notin r.words
<1> DEFINE strict  == Strict(rows, query)
           wide    == Wide(rows, query)
           relaxed == strict = {} /\ IsMultiTerm(query) /\ wide # {}
           parsed  == IF relaxed THEN wide ELSE strict
           words   == ToSet(query)
           Held(r) == {w \in words : w \in r.words}
           Holding(k) == {r \in rows : Cardinality(Held(r)) >= k}
           all     == Holding(Cardinality(words))
<1>1. /\ Len(query) \in Nat /\ IsFiniteSet(words)
      /\ query = << >> <=> words = {}
      /\ query = << >> <=> Len(query) = 0
  BY WordsAreFinite
<1>2. Cardinality(words) \in Nat
  BY <1>1, FS_CardinalityType
<1>3. ASSUME NEW r \in rows
      PROVE  /\ Cardinality(Held(r)) \in Nat
             /\ Cardinality(Held(r)) >= Cardinality(words) <=> words \subseteq r.words
             /\ Cardinality(Held(r)) >= 1 <=> \E w \in words : w \in r.words
  <2>1. Held(r) \in SUBSET words
    OBVIOUS
  <2>2. /\ IsFiniteSet(Held(r)) /\ Cardinality(Held(r)) <= Cardinality(words)
        /\ Cardinality(words) = Cardinality(Held(r)) => words = Held(r)
    BY <1>1, <2>1, FS_Subset
  <2>3. Cardinality(Held(r)) \in Nat /\ (Cardinality(Held(r)) = 0 <=> Held(r) = {})
    BY <2>2, FS_CardinalityType, FS_EmptySet
  <2>4. words = Held(r) <=> words \subseteq r.words
    OBVIOUS
  <2>5. Held(r) # {} <=> \E w \in words : w \in r.words
    OBVIOUS
  <2>6. words = Held(r) => Cardinality(Held(r)) = Cardinality(words)
    OBVIOUS
  <2> HIDE DEF Held, words
  <2> QED
    BY <1>2, <2>2, <2>3, <2>4, <2>5, <2>6
<1> HIDE DEF Held
<1>4. Holding(1) = wide
  BY <1>3 DEF Wide
<1>5. query # << >> => all = strict
  BY <1>3 DEF Strict
<1>6. query = << >> => strict = {} /\ wide = {}
  BY <1>1 DEF Strict, Wide
<1>7. IsMultiTerm(query) <=> query # << >> /\ Len(query) # 1
  <2>1. PICK n \in Nat : n = Len(query)
    BY <1>1
  <2>2. IsMultiTerm(query) <=> n > 1
    BY <2>1 DEF IsMultiTerm
  <2>3. n > 1 <=> n # 0 /\ n # 1
    OBVIOUS
  <2> QED
    BY <1>1, <2>1, <2>2, <2>3, Zenon
<1>8. Wanted(rows, query) = IF query = << >> THEN {}
                            ELSE IF all # {} \/ Len(query) = 1 THEN all
                            ELSE Holding(1)
  BY DEF Wanted, Held
<1>9. parsed = Wanted(rows, query)
  <2> HIDE DEF all, strict, wide, Holding
  <2> QED
    BY <1>4, <1>5, <1>6, <1>7, <1>8
<1>10. relaxed => \E r \in wide, w \in words : w \notin r.words
  <2> SUFFICES ASSUME relaxed PROVE \E r \in wide, w \in words : w \notin r.words
    OBVIOUS
  <2>1. PICK r \in wide : TRUE
    OBVIOUS
  <2>2. r \in rows /\ r \notin strict /\ query # << >>
    BY <1>6 DEF Wide
  <2> QED
    BY <2>1, <2>2 DEF Strict
<1>11. ~ \E r \in strict, w \in words : w \notin r.words
  BY DEF Strict
<1> QED
  BY <1>9, <1>10, <1>11

\* What is computed for a query is the page the query asks for.
LEMMA EvaluateIsPage ==
    ASSUME NEW rows \in SUBSET Row, \A r, s \in rows : r.url = s.url => r = s,
           NEW query \in Query, NEW limit \in Limit, NEW offset \in Offset
    PROVE  LET page == Evaluate(rows, query, limit, offset)
           IN  page \in Page /\ IsPageOf(page, rows, query, limit, offset)
<1> DEFINE strict  == Strict(rows, query)
           wide    == Wide(rows, query)
           relaxed == strict = {} /\ IsMultiTerm(query) /\ wide # {}
           parsed  == IF relaxed THEN wide ELSE strict
           hits    == TopDocs(parsed, limit, offset)
           page    == Evaluate(rows, query, limit, offset)
<1>1. query \in Seq(ToSet(query)) /\ limit \in Nat /\ offset \in Nat
  BY SearchAssumption
<1>2. page = [hits |-> hits, total |-> Cardinality(parsed), relaxed |-> relaxed]
  BY DEF Evaluate
<1>3. parsed \in SUBSET rows
  BY DEF Strict, Wide
<1>4. /\ parsed = Wanted(rows, query)
      /\ relaxed <=> \E r \in parsed, w \in ToSet(query) : w \notin r.words
      /\ relaxed \in BOOLEAN
  BY <1>1, ParsedIsWanted
<1> HIDE DEF relaxed, parsed, page
<1>5. /\ IsFiniteSet(parsed) /\ Cardinality(parsed) \in Nat
      /\ \A r \in parsed : r.rank \in Nat
      /\ \A r, s \in parsed : r.rank = s.rank => r = s
  <2>1. parsed \in SUBSET Row
    BY <1>3
  <2>2. IsFiniteSet(Row) /\ \A r \in Row : r.rank \in Nat
    BY SearchAssumption
  <2>3. IsFiniteSet(parsed)
    BY <2>1, <2>2, FS_Subset
  <2>4. \A r, s \in parsed : r.rank = s.rank => r = s
    BY <1>3, <2>1, SearchAssumption
  <2> QED
    BY <2>1, <2>2, <2>3, <2>4, FS_CardinalityType
<1>6. /\ hits \in Seq(parsed)
      /\ ToSet(hits) = {r \in parsed :
            /\ Cardinality({s \in parsed : s.rank < r.rank}) >= offset
            /\ Cardinality({s \in parsed : s.rank < r.rank})
                  < offset + (IF limit = 0 THEN 1 ELSE limit)}
      /\ \A i, j \in DOMAIN hits : i < j => hits[i].rank < hits[j].rank
  BY <1>1, <1>5, TopDocsAreThePlaces
<1> HIDE DEF hits
<1>7. hits \in Seq(Row)
  BY <1>3, <1>6
<1>8. page \in Page
  BY <1>2, <1>4, <1>5, <1>7 DEF Page
<1>9. page.hits = hits /\ page.total = Cardinality(parsed) /\ page.relaxed = relaxed
  BY <1>2
<1>10. IsPageOf(page, rows, query, limit, offset)
  BY <1>4, <1>6, <1>9 DEF IsPageOf
<1> QED
  BY <1>8, <1>10 DEF page

-----------------------------------------------------------------------------
(***************************************************************************)
(* The invariant, worker by worker: what it says of an engine e with its   *)
(* reader at r in a call c, of a cache k, and of a reply a.                *)
(***************************************************************************)
HandleOK(e, r, c) ==
    /\ e # NoIndex => e = disk /\ IsCompatible(disk)
    /\ r <= Now
    /\ c.op \in {"warm", "publish"} =>
          e = NoIndex /\ disk # NoIndex /\ IsCompatible(disk)
    /\ c.op \in {"reload", "search", "stats"} => e # NoIndex /\ c.since \in 1 .. Now
    /\ c.op \in {"search", "stats"} => r >= c.since

PageOK(e) ==
    /\ e.key.stamp \in 1 .. Now
    /\ IsPageOf(e.page, log[e.key.stamp], e.key.query, e.key.limit, e.key.offset)

Agree(e, f) ==
    (e.key.query = f.key.query /\ e.key.stamp = f.key.stamp) =>
        /\ e.page.total = f.page.total /\ e.page.relaxed = f.page.relaxed
        /\ f.key.offset >= e.key.offset + SetMax({1, e.key.limit}) =>
              \A r \in ToSet(e.page.hits), q \in ToSet(f.page.hits) : r.url # q.url

CacheOK(k) ==
    /\ \A e \in k : PageOK(e)
    /\ \A e, f \in k : Agree(e, f)

ReplyOK(a) ==
    /\ a.kind = "hits" =>
          /\ a.asked.since \in 1 .. Now
          /\ \E g \in a.asked.since .. Now :
                /\ IsPageOf(a.page, log[g], a.asked.query, a.asked.limit, a.asked.offset)
                /\ a.docs = Cardinality(log[g])
    /\ a.kind = "stats" =>
          /\ a.asked.since >= 1 /\ a.stamp \in 1 .. Now
          /\ a.docs = Cardinality(log[a.stamp])
          /\ a.stamp >= a.asked.since

WorkersOK ==
    \A w \in Worker : /\ HandleOK(engine[w], reader[w], call[w])
                      /\ CacheOK(cache[w])
                      /\ ReplyOK(reply[w])

\* The invariant is this and the types.
LEMMA IInvByWorker == IInv <=> TypeOK /\ LogIsInOrder /\ WorkersOK
<1>1. HandlesAreInOrder <=> \A w \in Worker : HandleOK(engine[w], reader[w], call[w])
  BY DEF HandlesAreInOrder, HandleOK
<1>2. CacheAgrees /\ (\A w \in Worker : \A e \in cache[w] : e.key.stamp \in 1 .. Now)
          <=> \A w \in Worker : CacheOK(cache[w])
  BY DEF CacheAgrees, CacheOK, PageOK, Agree
<1>3. /\ AnswerIsCurrent /\ StatsAreOneGeneration
      /\ \A w \in Worker :
            /\ reply[w].kind = "hits" => reply[w].asked.since \in 1 .. Now
            /\ reply[w].kind = "stats" => reply[w].asked.since >= 1
                                          /\ reply[w].stamp \in 1 .. Now
      <=> \A w \in Worker : ReplyOK(reply[w])
  BY DEF AnswerIsCurrent, StatsAreOneGeneration, ReplyOK
<1> QED
  BY <1>1, <1>2, <1>3 DEF IInv, StampsAreReal, WorkersOK

\* The same of the next state.
LEMMA IInvByWorkerNext == IInv' <=> TypeOK' /\ LogIsInOrder' /\ WorkersOK'
BY IInvByWorker, PTL

\* Two pages of one generation and one query agree.
LEMMA PagesAgree ==
    ASSUME TypeOK, LogIsInOrder, InPlace(disk), NEW e \in Entry, NEW f \in Entry,
           PageOK(e), PageOK(f)
    PROVE  Agree(e, f)
<1> SUFFICES ASSUME e.key.query = f.key.query, e.key.stamp = f.key.stamp
             PROVE  /\ e.page.total = f.page.total /\ e.page.relaxed = f.page.relaxed
                    /\ f.key.offset >= e.key.offset + SetMax({1, e.key.limit}) =>
                          \A r \in ToSet(e.page.hits), q \in ToSet(f.page.hits) :
                              r.url # q.url
  BY DEF Agree
<1> DEFINE rows == log[e.key.stamp]
           wanted == Wanted(rows, e.key.query)
           Above(r) == Cardinality({s \in wanted : s.rank < r.rank})
           size == IF e.key.limit = 0 THEN 1 ELSE e.key.limit
<1>1. /\ e.key.stamp \in 1 .. Now /\ e.key.query \in Query
      /\ e.key.limit \in Nat /\ e.key.offset \in Nat /\ f.key.offset \in Nat
      /\ e.page.relaxed \in BOOLEAN /\ f.page.relaxed \in BOOLEAN
  BY SearchAssumption DEF PageOK, Entry, Page
<1>2. /\ e.page.total = Cardinality(wanted) /\ f.page.total = Cardinality(wanted)
      /\ e.page.relaxed <=> \E r \in wanted, w \in ToSet(e.key.query) : w \notin r.words
      /\ f.page.relaxed <=> \E r \in wanted, w \in ToSet(e.key.query) : w \notin r.words
      /\ \A r \in ToSet(e.page.hits) : r \in wanted /\ Above(r) < e.key.offset + size
      /\ \A r \in ToSet(f.page.hits) : r \in wanted /\ Above(r) >= f.key.offset
  BY DEF PageOK, IsPageOf
<1>3. SetMax({1, e.key.limit}) = size
  BY <1>1, SetMaxOfTwo
<1>4. rows \in SUBSET Row /\ \A r, s \in rows : r.url = s.url => r = s
  BY <1>1 DEF TypeOK, LogIsInOrder, Now
<1>5. wanted \subseteq rows
  BY DEF Wanted
<1>6. \A r \in wanted : Above(r) \in Nat
  <2>1. IsFiniteSet(wanted)
    BY <1>4, <1>5, FS_Subset, SearchAssumption
  <2> SUFFICES ASSUME NEW r \in wanted PROVE Above(r) \in Nat
    OBVIOUS
  <2>2. {s \in wanted : s.rank < r.rank} \in SUBSET wanted
    OBVIOUS
  <2> QED
    BY <2>1, <2>2, FS_Subset, FS_CardinalityType
<1> HIDE DEF wanted, Above, rows, size
<1>7. ASSUME f.key.offset >= e.key.offset + size,
             NEW r \in ToSet(e.page.hits), NEW q \in ToSet(f.page.hits)
      PROVE  r.url # q.url
  <2>1. /\ r \in wanted /\ Above(r) \in Nat /\ Above(r) < e.key.offset + size
        /\ q \in wanted /\ Above(q) \in Nat /\ Above(q) >= f.key.offset
    BY <1>2, <1>6
  <2>2. Above(r) # Above(q)
    BY <1>1, <1>7, <2>1 DEF size
  <2>3. r # q
    BY <2>2
  <2> QED
    BY <1>4, <1>5, <2>1, <2>3
<1>8. e.page.relaxed = f.page.relaxed
  BY <1>1, <1>2
<1> QED
  BY <1>2, <1>3, <1>7, <1>8

-----------------------------------------------------------------------------
(* The index grows *)

\* What is said of a worker keeps when the index grows: the generations it
\* speaks of are still there.
LEMMA GrowthKeepsWorkers ==
    ASSUME Now \in Nat, Now' \in Nat, Now <= Now',
           \A g \in 1 .. Now : log'[g] = log[g],
           disk # NoIndex => disk' = disk,
           NEW CONSTANT e, NEW CONSTANT r \in Nat, NEW CONSTANT c \in Call,
           NEW CONSTANT k, NEW CONSTANT a \in Reply,
           HandleOK(e, r, c), CacheOK(k), ReplyOK(a)
    PROVE  /\ HandleOK(e, r, c)' /\ CacheOK(k)' /\ ReplyOK(a)'
<1>1. HandleOK(e, r, c)'
  BY DEF HandleOK
<1>2. \A f \in k : PageOK(f)'
  BY DEF CacheOK, PageOK
<1>3. CacheOK(k)'
  BY <1>2 DEF CacheOK, Agree
<1>4. ReplyOK(a)'
  <2>1. a.kind = "stats" => ReplyOK(a)'
    BY DEF ReplyOK
  <2>2. ASSUME a.kind = "hits" PROVE ReplyOK(a)'
    <3>1. /\ a.asked.since \in 1 .. Now
          /\ \E g \in a.asked.since .. Now :
                /\ IsPageOf(a.page, log[g], a.asked.query, a.asked.limit, a.asked.offset)
                /\ a.docs = Cardinality(log[g])
      BY <2>2 DEF ReplyOK
    <3>2. PICK g \in a.asked.since .. Now :
                /\ IsPageOf(a.page, log[g], a.asked.query, a.asked.limit, a.asked.offset)
                /\ a.docs = Cardinality(log[g])
      BY <3>1
    <3>3. g \in 1 .. Now /\ g \in a.asked.since .. Now'
      BY <3>1
    <3>4. log'[g] = log[g]
      BY <3>3
    <3>5. a.asked.since \in 1 .. Now'
      BY <3>1
    <3> QED
      BY <2>2, <3>2, <3>3, <3>4, <3>5 DEF ReplyOK
  <2>3. a.kind \notin {"hits", "stats"} => ReplyOK(a)'
    BY DEF ReplyOK
  <2> QED
    BY <2>1, <2>2, <2>3
<1> QED
  BY <1>1, <1>3, <1>4

\* Creating the index, a commit and a merge add a generation, of one row a URL
\* where the writer's handles are in their places.
LEMMA GrowthStep ==
    ASSUME IInv,
           \/ OpenWriter \/ Merge
           \/ \E rows \in SUBSET Row :
                 /\ rows # {} /\ \A r, s \in rows : r.url = s.url => r = s
                 /\ Commit(rows)
    PROVE  IInv'
<1>1. TypeOK /\ LogIsInOrder /\ WorkersOK
  BY IInvByWorker
<1>2. UNCHANGED <<engine, reader, cache, call, reply>>
  BY DEF OpenWriter, Merge, Commit
<1>3. log \in Seq(SUBSET Row) /\ Now \in Nat
  BY <1>1 DEF TypeOK, Now
<1>4. PICK new \in SUBSET Row :
          /\ log' = Append(log, new)
          /\ InPlace(disk') => \A r, s \in new : r.url = s.url => r = s
          /\ disk' \in Disks \cup {NoIndex, Mine} /\ disk' # NoIndex
          /\ disk # NoIndex => disk' = disk
  <2>1. CASE OpenWriter
    <3>1. log = << >> /\ log' = <<Empty>> /\ disk = NoIndex /\ disk' = Mine
      BY <1>1, <2>1 DEF OpenWriter, LogIsInOrder
    <3>2. log' = Append(log, Empty)
      BY <3>1
    <3>3. Mine # NoIndex
      <4>1. Len(Mine) = 6 /\ Len(NoIndex) = 0
        BY DEF Mine, NoIndex
      <4> QED
        BY <4>1
    <3> QED
      BY <3>1, <3>2, <3>3 DEF Empty
  <2>2. ASSUME NEW rows \in SUBSET Row, Commit(rows),
               \A r, s \in rows : r.url = s.url => r = s
        PROVE  \E new \in SUBSET Row :
                  /\ log' = Append(log, new)
                  /\ InPlace(disk') => \A r, s \in new : r.url = s.url => r = s
                  /\ disk' \in Disks \cup {NoIndex, Mine} /\ disk' # NoIndex
                  /\ disk # NoIndex => disk' = disk
    <3> DEFINE upserted == {r \in log[Now] : \A s \in rows : s.url # r.url} \cup rows
    <3>1. disk # NoIndex /\ disk' = disk
      BY <2>2 DEF Commit
    <3>2. PICK new \in Written(rows) : log' = Append(log, new)
      BY <2>2 DEF Commit
    <3>3. Now \in 1 .. Now
      BY <1>1, <1>3, <3>1 DEF LogIsInOrder, Now
    <3>4. log[Now] \in SUBSET Row
      BY <1>1, <1>3, <3>3 DEF Now
    <3>5. CASE InPlace(disk)
      <4>1. \A r, s \in log[Now] : r.url = s.url => r = s
        BY <1>1, <3>3, <3>5 DEF LogIsInOrder
      <4>2. upserted \in SUBSET Row /\ \A r, s \in upserted : r.url = s.url => r = s
        BY <2>2, <3>4, <4>1
      <4>3. new = upserted
        BY <3>2, <3>5 DEF Written
      <4> QED
        BY <1>1, <3>1, <3>2, <4>2, <4>3 DEF TypeOK
    <3>6. CASE ~InPlace(disk)
      <4>1. new \in SUBSET Row
        BY <3>2, <3>6 DEF Written
      <4> QED
        BY <1>1, <3>1, <3>2, <3>6, <4>1 DEF TypeOK
    <3> QED
      BY <3>5, <3>6
  <2>3. CASE Merge
    <3>1. disk # NoIndex /\ disk' = disk /\ log' = Append(log, log[Now])
      BY <2>3 DEF Merge
    <3>2. Now \in 1 .. Now
      BY <1>1, <1>3, <3>1 DEF LogIsInOrder, Now
    <3>3. /\ log[Now] \in SUBSET Row
          /\ InPlace(disk) => \A r, s \in log[Now] : r.url = s.url => r = s
      BY <1>1, <1>3, <3>2 DEF LogIsInOrder, Now
    <3> QED
      BY <1>1, <3>1, <3>3 DEF TypeOK
  <2> QED
    BY <2>1, <2>2, <2>3
<1>5. /\ Now' = Now + 1 /\ log' \in Seq(SUBSET Row) /\ log' # << >>
      /\ \A g \in 1 .. Now : log'[g] = log[g]
      /\ log'[Now + 1] = new
  BY <1>3, <1>4 DEF Now
<1>6. TypeOK'
  BY <1>1, <1>2, <1>4, <1>5 DEF TypeOK
<1>7. LogIsInOrder'
  <2>1. ASSUME InPlace(disk')
        PROVE  \A g \in 1 .. Now' : \A r, s \in log'[g] : r.url = s.url => r = s
    <3> SUFFICES ASSUME NEW g \in 1 .. (Now + 1)
                 PROVE  \A r, s \in log'[g] : r.url = s.url => r = s
      BY <1>5
    <3>1. CASE g = Now + 1
      BY <1>4, <1>5, <2>1, <3>1
    <3>2. CASE g # Now + 1
      <4>1. g \in 1 .. Now
        BY <1>3, <3>2
      <4>2. disk # NoIndex /\ disk' = disk
        BY <1>1, <1>3, <1>4, <4>1 DEF LogIsInOrder, Now
      <4> QED
        BY <1>1, <1>5, <2>1, <4>1, <4>2 DEF LogIsInOrder
    <3> QED
      BY <3>1, <3>2
  <2> QED
    BY <1>4, <1>5, <2>1 DEF LogIsInOrder, InPlace
<1>8. WorkersOK'
  <2> SUFFICES ASSUME NEW CONSTANT w \in Worker
               PROVE  /\ HandleOK(engine[w], reader[w], call[w])'
                      /\ CacheOK(cache[w])'
                      /\ ReplyOK(reply[w])'
    BY DEF WorkersOK
  <2>1. PICK e, r, c, k, a :
            /\ e = engine[w] /\ r = reader[w] /\ c = call[w]
            /\ k = cache[w] /\ a = reply[w]
    OBVIOUS
  <2>2. r \in Nat /\ c \in Call /\ a \in Reply
    BY <1>1, <2>1 DEF TypeOK
  <2>3. HandleOK(e, r, c) /\ CacheOK(k) /\ ReplyOK(a)
    BY <1>1, <2>1 DEF WorkersOK
  <2>4. Now' \in Nat /\ Now <= Now'
    BY <1>3, <1>5
  <2>5. HandleOK(e, r, c)' /\ CacheOK(k)' /\ ReplyOK(a)'
    BY <1>3, <1>4, <1>5, <2>2, <2>3, <2>4, GrowthKeepsWorkers
  <2>6. /\ e = engine'[w] /\ r = reader'[w] /\ c = call'[w]
        /\ k = cache'[w] /\ a = reply'[w]
    BY <1>2, <2>1
  <2>7. HandleOK(engine[w], reader[w], call[w])'
    BY <2>5, <2>6 DEF HandleOK
  <2>8. CacheOK(cache[w])'
    BY <2>5, <2>6 DEF CacheOK, PageOK, Agree
  <2>9. ReplyOK(reply[w])'
    BY <2>5, <2>6 DEF ReplyOK
  <2> QED
    BY <2>7, <2>8, <2>9
<1> QED
  BY <1>6, <1>7, <1>8, IInvByWorkerNext

-----------------------------------------------------------------------------
(* A worker moves *)

\* A step of one worker leaves the index and the other workers alone.
LEMMA WorkerStep ==
    ASSUME IInv, NEW w \in Worker, UNCHANGED <<disk, log>>,
           NEW e \in Disks \cup {NoIndex, Mine}, NEW r \in Nat,
           NEW k \in SUBSET Entry, NEW c \in Call, NEW a \in Reply,
           engine' = [engine EXCEPT ![w] = e], reader' = [reader EXCEPT ![w] = r],
           cache' = [cache EXCEPT ![w] = k], call' = [call EXCEPT ![w] = c],
           reply' = [reply EXCEPT ![w] = a],
           HandleOK(e, r, c), CacheOK(k), ReplyOK(a)
    PROVE  IInv'
<1>1. TypeOK /\ LogIsInOrder /\ WorkersOK
  BY IInvByWorker
<1>2. TypeOK'
  BY <1>1 DEF TypeOK
<1>3. LogIsInOrder'
  BY <1>1 DEF LogIsInOrder, Now
<1>4. ASSUME NEW v \in Worker
      PROVE  /\ HandleOK(engine'[v], reader'[v], call'[v])
             /\ CacheOK(cache'[v])
             /\ ReplyOK(reply'[v])
  <2>1. CASE v = w
    <3>1. /\ engine'[v] = e /\ reader'[v] = r /\ call'[v] = c
          /\ cache'[v] = k /\ reply'[v] = a
      BY <1>1, <2>1 DEF TypeOK
    <3> QED
      BY <3>1
  <2>2. CASE v # w
    <3>1. /\ engine'[v] = engine[v] /\ reader'[v] = reader[v]
          /\ call'[v] = call[v] /\ cache'[v] = cache[v] /\ reply'[v] = reply[v]
      BY <1>1, <2>2 DEF TypeOK
    <3> QED
      BY <1>1, <3>1 DEF WorkersOK
  <2> QED
    BY <2>1, <2>2
<1>5. WorkersOK'
  <2> SUFFICES ASSUME NEW v \in Worker
               PROVE  /\ HandleOK(engine[v], reader[v], call[v])'
                      /\ CacheOK(cache[v])'
                      /\ ReplyOK(reply[v])'
    BY DEF WorkersOK
  <2>1. Now' = Now
    BY DEF Now
  <2>2. HandleOK(engine[v], reader[v], call[v])'
    BY <1>4, <2>1 DEF HandleOK
  <2>3. CacheOK(cache[v])'
    BY <1>4, <2>1 DEF CacheOK, PageOK, Agree
  <2>4. ReplyOK(reply[v])'
    BY <1>4, <2>1 DEF ReplyOK
  <2> QED
    BY <2>2, <2>3, <2>4
<1> QED
  BY <1>2, <1>3, <1>5, IInvByWorkerNext

\* What holds of a worker in any state of the invariant.
LEMMA OneWorker ==
    ASSUME IInv, NEW w \in Worker
    PROVE  /\ engine[w] \in Disks \cup {NoIndex, Mine} /\ reader[w] \in Nat
           /\ cache[w] \in SUBSET Entry /\ call[w] \in Call /\ reply[w] \in Reply
           /\ engine = [engine EXCEPT ![w] = engine[w]]
           /\ reader = [reader EXCEPT ![w] = reader[w]]
           /\ cache = [cache EXCEPT ![w] = cache[w]]
           /\ call = [call EXCEPT ![w] = call[w]]
           /\ reply = [reply EXCEPT ![w] = reply[w]]
           /\ HandleOK(engine[w], reader[w], call[w])
           /\ CacheOK(cache[w]) /\ ReplyOK(reply[w])
           /\ Now \in Nat /\ (disk # NoIndex => Now >= 1)
<1>1. TypeOK /\ LogIsInOrder /\ WorkersOK
  BY IInvByWorker
<1>2. log \in Seq(SUBSET Row) /\ (disk # NoIndex => log # << >>)
  BY <1>1 DEF TypeOK, LogIsInOrder
<1>3. Now \in Nat /\ (disk # NoIndex => Now >= 1)
  BY <1>2 DEF Now
<1>4. /\ engine[w] \in Disks \cup {NoIndex, Mine} /\ reader[w] \in Nat
      /\ cache[w] \in SUBSET Entry /\ call[w] \in Call /\ reply[w] \in Reply
      /\ engine = [engine EXCEPT ![w] = engine[w]]
      /\ reader = [reader EXCEPT ![w] = reader[w]]
      /\ cache = [cache EXCEPT ![w] = cache[w]]
      /\ call = [call EXCEPT ![w] = call[w]]
      /\ reply = [reply EXCEPT ![w] = reply[w]]
  BY <1>1 DEF TypeOK
<1> QED
  BY <1>1, <1>3, <1>4 DEF WorkersOK

\* A worker without a call, without an answer, or with an error, says nothing.
LEMMA Quiet ==
    /\ Idle \in Call /\ Nothing \in Reply /\ ReplyOK(Nothing)
    /\ \A what \in {"missing index", "incompatible schema", "not open", "query parse"} :
          Failed(what) \in Reply /\ ReplyOK(Failed(what))
    /\ \A e, r, c : HandleOK(e, r, c) => HandleOK(e, r, Idle)
    /\ CacheOK({})
<1>1. CacheOK({})
  BY DEF CacheOK
<1> QED
  BY <1>1 DEF Call, Reply, Idle, Nothing, Failed, ReplyOK, HandleOK

\* Opening, warming and publishing the handle.
LEMMA OpeningStep ==
    ASSUME IInv, NEW w \in Worker, OpenIndex(w) \/ WarmUp(w) \/ Publish(w)
    PROVE  IInv'
<1>1. /\ engine[w] \in Disks \cup {NoIndex, Mine} /\ reader[w] \in Nat
      /\ cache[w] \in SUBSET Entry /\ call[w] \in Call /\ reply[w] \in Reply
      /\ engine = [engine EXCEPT ![w] = engine[w]]
      /\ reader = [reader EXCEPT ![w] = reader[w]]
      /\ cache = [cache EXCEPT ![w] = cache[w]]
      /\ reply = [reply EXCEPT ![w] = reply[w]]
      /\ HandleOK(engine[w], reader[w], call[w])
      /\ CacheOK(cache[w]) /\ ReplyOK(reply[w])
      /\ Now \in Nat
  BY OneWorker
<1>2. disk \in Disks \cup {NoIndex, Mine}
  BY DEF IInv, TypeOK
<1>3. UNCHANGED <<disk, log>>
  BY DEF OpenIndex, WarmUp, Publish
<1>4. ASSUME NEW a \in Reply, ReplyOK(a), Return(w, a),
             UNCHANGED <<engine, reader, cache>>
      PROVE  IInv'
  <2>1. /\ call' = [call EXCEPT ![w] = Idle] /\ reply' = [reply EXCEPT ![w] = a]
        /\ engine' = [engine EXCEPT ![w] = engine[w]]
        /\ reader' = [reader EXCEPT ![w] = reader[w]]
        /\ cache' = [cache EXCEPT ![w] = cache[w]]
    BY <1>1, <1>4 DEF Return
  <2>2. Idle \in Call /\ HandleOK(engine[w], reader[w], Idle)
    BY <1>1, Quiet
  <2> QED
    BY <1>1, <1>3, <1>4, <2>1, <2>2, WorkerStep
<1>5. CASE OpenIndex(w)
  <2>1. UNCHANGED <<engine, cache>> /\ call[w] = Idle
    BY <1>5 DEF OpenIndex
  <2>2. CASE Return(w, Nothing) /\ UNCHANGED reader
    BY <1>4, <2>1, <2>2, Quiet
  <2>3. CASE Return(w, Failed("missing index")) /\ UNCHANGED reader
    BY <1>4, <2>1, <2>3, Quiet
  <2>4. CASE Return(w, Failed("incompatible schema")) /\ UNCHANGED reader
    BY <1>4, <2>1, <2>4, Quiet
  <2>5. CASE /\ engine[w] = NoIndex /\ disk # NoIndex /\ IsCompatible(disk)
             /\ reader' = [reader EXCEPT ![w] = Now]
             /\ call' = [call EXCEPT ![w] = [op |-> IF Warm THEN "warm" ELSE "publish"]]
             /\ UNCHANGED reply
    <3> DEFINE c == [op |-> IF Warm THEN "warm" ELSE "publish"]
    <3>1. c \in Call /\ c.op \in {"warm", "publish"}
      BY DEF Call
    <3> HIDE DEF c
    <3>2. HandleOK(engine[w], Now, c)
      BY <1>1, <2>5, <3>1 DEF HandleOK
    <3>3. call' = [call EXCEPT ![w] = c]
      BY <2>5 DEF c
    <3>4. /\ engine' = [engine EXCEPT ![w] = engine[w]]
          /\ cache' = [cache EXCEPT ![w] = cache[w]]
          /\ reply' = [reply EXCEPT ![w] = reply[w]]
      BY <1>1, <2>1, <2>5
    <3> QED
      BY <1>1, <1>3, <2>5, <3>1, <3>2, <3>3, <3>4, WorkerStep
  <2> QED
    BY <1>5, <2>2, <2>3, <2>4, <2>5 DEF OpenIndex
<1>6. CASE WarmUp(w)
  <2> DEFINE c == [op |-> "publish"]
  <2>1. /\ call[w].op = "warm"
        /\ reader' = [reader EXCEPT ![w] = Now]
        /\ call' = [call EXCEPT ![w] = c]
        /\ engine' = [engine EXCEPT ![w] = engine[w]]
        /\ cache' = [cache EXCEPT ![w] = cache[w]]
        /\ reply' = [reply EXCEPT ![w] = reply[w]]
    BY <1>1, <1>6 DEF WarmUp
  <2>2. c \in Call /\ c.op = "publish"
    BY DEF Call
  <2> HIDE DEF c
  <2>3. HandleOK(engine[w], Now, c)
    BY <1>1, <2>1, <2>2 DEF HandleOK
  <2> QED
    BY <1>1, <1>3, <2>1, <2>2, <2>3, WorkerStep
<1>7. CASE Publish(w)
  <2>1. /\ call[w].op = "publish"
        /\ engine' = [engine EXCEPT ![w] = disk]
        /\ cache' = [cache EXCEPT ![w] = {}]
        /\ call' = [call EXCEPT ![w] = Idle]
        /\ reply' = [reply EXCEPT ![w] = Nothing]
        /\ reader' = [reader EXCEPT ![w] = reader[w]]
    BY <1>1, <1>7 DEF Publish, Return
  <2>2. disk # NoIndex /\ IsCompatible(disk)
    BY <1>1, <2>1 DEF HandleOK
  <2>3. HandleOK(disk, reader[w], Idle)
    BY <1>1, <2>2 DEF HandleOK, Idle
  <2> QED
    BY <1>1, <1>2, <1>3, <2>1, <2>3, Quiet, WorkerStep
<1> QED
  BY <1>5, <1>6, <1>7

\* Asking, for a page or for statistics.
LEMMA AskStep ==
    ASSUME IInv, NEW w \in Worker,
           \/ \E q \in Query, l \in Limit, o \in Offset : Ask(w, q, l, o)
           \/ AskStats(w)
    PROVE  IInv'
<1>1. /\ engine[w] \in Disks \cup {NoIndex, Mine} /\ reader[w] \in Nat
      /\ cache[w] \in SUBSET Entry /\ call[w] \in Call /\ reply[w] \in Reply
      /\ engine = [engine EXCEPT ![w] = engine[w]]
      /\ reader = [reader EXCEPT ![w] = reader[w]]
      /\ cache = [cache EXCEPT ![w] = cache[w]]
      /\ reply = [reply EXCEPT ![w] = reply[w]]
      /\ HandleOK(engine[w], reader[w], call[w])
      /\ CacheOK(cache[w]) /\ ReplyOK(reply[w])
      /\ Now \in Nat /\ (disk # NoIndex => Now >= 1)
  BY OneWorker
<1>2. /\ UNCHANGED <<disk, log, engine, reader, cache>>
      /\ \/ Return(w, Failed("not open"))
         \/ /\ engine[w] # NoIndex
            /\ reply' = [reply EXCEPT ![w] = Nothing]
            /\ \E c \in Call : /\ c.op = "reload" /\ c.since = Now
                              /\ call' = [call EXCEPT ![w] = c]
  <2>1. CASE AskStats(w)
    <3> DEFINE c == [op |-> "reload", then |-> "stats", since |-> Now]
    <3>1. c \in Call /\ c.op = "reload" /\ c.since = Now
      BY <1>1 DEF Call, StatsCall
    <3> QED
      BY <2>1, <3>1 DEF AskStats
  <2>2. ASSUME NEW q \in Query, NEW l \in Limit, NEW o \in Offset, Ask(w, q, l, o)
        PROVE  /\ UNCHANGED <<disk, log, engine, reader, cache>>
               /\ \/ Return(w, Failed("not open"))
                  \/ /\ engine[w] # NoIndex
                     /\ reply' = [reply EXCEPT ![w] = Nothing]
                     /\ \E c \in Call : /\ c.op = "reload" /\ c.since = Now
                                       /\ call' = [call EXCEPT ![w] = c]
    <3> DEFINE c == [op |-> "reload", then |-> "search", since |-> Now,
                     query |-> q, limit |-> l, offset |-> o]
    <3>1. c \in Call /\ c.op = "reload" /\ c.since = Now
      BY <1>1 DEF Call, SearchCall
    <3> QED
      BY <2>2, <3>1 DEF Ask
  <2> QED
    BY <2>1, <2>2
<1>3. /\ engine' = [engine EXCEPT ![w] = engine[w]]
      /\ reader' = [reader EXCEPT ![w] = reader[w]]
      /\ cache' = [cache EXCEPT ![w] = cache[w]]
  BY <1>1, <1>2
<1>4. CASE Return(w, Failed("not open"))
  <2>1. HandleOK(engine[w], reader[w], Idle)
    BY <1>1, Quiet
  <2> QED
    BY <1>1, <1>2, <1>3, <1>4, <2>1, Quiet, WorkerStep DEF Return
<1>5. ASSUME NEW c \in Call, c.op = "reload", c.since = Now, engine[w] # NoIndex,
             call' = [call EXCEPT ![w] = c], reply' = [reply EXCEPT ![w] = Nothing]
      PROVE  IInv'
  <2>1. HandleOK(engine[w], reader[w], c)
    BY <1>1, <1>5 DEF HandleOK
  <2> QED
    BY <1>1, <1>2, <1>3, <1>5, <2>1, Quiet, WorkerStep
<1> QED
  BY <1>2, <1>4, <1>5

\* Reloading brings the reader to the last generation, past the call's start.
LEMMA ReloadStep ==
    ASSUME IInv, NEW w \in Worker, Reload(w)
    PROVE  IInv'
<1>1. /\ engine[w] \in Disks \cup {NoIndex, Mine} /\ reader[w] \in Nat
      /\ cache[w] \in SUBSET Entry /\ call[w] \in Call /\ reply[w] \in Reply
      /\ engine = [engine EXCEPT ![w] = engine[w]]
      /\ reader = [reader EXCEPT ![w] = reader[w]]
      /\ cache = [cache EXCEPT ![w] = cache[w]]
      /\ reply = [reply EXCEPT ![w] = reply[w]]
      /\ HandleOK(engine[w], reader[w], call[w])
      /\ CacheOK(cache[w]) /\ ReplyOK(reply[w])
      /\ Now \in Nat /\ (disk # NoIndex => Now >= 1)
  BY OneWorker
<1>2. /\ call[w].op = "reload"
      /\ reader' = [reader EXCEPT ![w] = Now]
      /\ call' = [call EXCEPT ![w] = [call[w] EXCEPT !.op = call[w].then]]
      /\ UNCHANGED <<disk, log, engine, cache, reply>>
  BY DEF Reload
<1> DEFINE c == [call[w] EXCEPT !.op = call[w].then]
<1>3. c \in Call /\ c.op \in {"search", "stats"} /\ c.since = call[w].since
  <2>1. CASE call[w] \in SearchCall
    BY <2>1 DEF Call, SearchCall
  <2>2. CASE call[w] \in StatsCall
    BY <2>2 DEF Call, StatsCall
  <2>3. call[w] \in SearchCall \cup StatsCall
    BY <1>1, <1>2 DEF Call, Idle
  <2> QED
    BY <2>1, <2>2, <2>3
<1> HIDE DEF c
<1>4. HandleOK(engine[w], Now, c)
  BY <1>1, <1>2, <1>3 DEF HandleOK
<1>5. /\ engine' = [engine EXCEPT ![w] = engine[w]]
      /\ cache' = [cache EXCEPT ![w] = cache[w]]
      /\ reply' = [reply EXCEPT ![w] = reply[w]]
      /\ call' = [call EXCEPT ![w] = c]
  BY <1>1, <1>2 DEF c
<1> QED
  BY <1>1, <1>2, <1>3, <1>4, <1>5, WorkerStep

\* A reloaded call has what it asks for at a generation no older than its start.
LEMMA CallShape ==
    ASSUME IInv, NEW w \in Worker
    PROVE  /\ call[w].op = "search" =>
                 /\ call[w] \in SearchCall
                 /\ call[w].since \in 1 .. Now /\ reader[w] \in 1 .. Now
                 /\ reader[w] \in call[w].since .. Now
           /\ call[w].op = "stats" =>
                 /\ call[w] \in StatsCall
                 /\ call[w].since \in 1 .. Now /\ reader[w] \in 1 .. Now
                 /\ reader[w] >= call[w].since
<1>1. /\ engine[w] \in Disks \cup {NoIndex, Mine} /\ reader[w] \in Nat
      /\ cache[w] \in SUBSET Entry /\ call[w] \in Call /\ reply[w] \in Reply
      /\ engine = [engine EXCEPT ![w] = engine[w]]
      /\ reader = [reader EXCEPT ![w] = reader[w]]
      /\ cache = [cache EXCEPT ![w] = cache[w]]
      /\ reply = [reply EXCEPT ![w] = reply[w]]
      /\ HandleOK(engine[w], reader[w], call[w])
      /\ CacheOK(cache[w]) /\ ReplyOK(reply[w])
      /\ Now \in Nat /\ (disk # NoIndex => Now >= 1)
  BY OneWorker
<1>2. /\ call[w].op = "search" => call[w] \in SearchCall
      /\ call[w].op = "stats" => call[w] \in StatsCall
  BY <1>1 DEF Call, SearchCall, StatsCall, Idle
<1> QED
  BY <1>1, <1>2 DEF HandleOK

\* A page of the reader's generation is an answer, computed or from the cache.
LEMMA OutcomeOK ==
    ASSUME IInv, NEW w \in Worker, call[w].op = "search", NEW page \in Page,
           IsPageOf(page, log[reader[w]], call[w].query, call[w].limit, call[w].offset),
           NEW hit \in BOOLEAN
    PROVE  Outcome(w, page, hit) \in Reply /\ ReplyOK(Outcome(w, page, hit))
<1> DEFINE a == Outcome(w, page, hit)
<1>1. /\ call[w] \in SearchCall
      /\ call[w].since \in 1 .. Now /\ reader[w] \in 1 .. Now
      /\ reader[w] \in call[w].since .. Now
  BY CallShape
<1>2. a = [kind |-> "hits", page |-> page, docs |-> Cardinality(log[reader[w]]),
           cached |-> hit, asked |-> call[w]]
  BY DEF Outcome
<1>3. Cardinality(log[reader[w]]) \in Nat
  <2>1. log[reader[w]] \in SUBSET Row
    BY <1>1 DEF IInv, TypeOK, Now
  <2> QED
    BY <2>1, SearchAssumption, FS_Subset, FS_CardinalityType
<1>4. a \in Reply
  <2> DEFINE docs == Cardinality(log[reader[w]])
  <2>1. docs \in Nat /\ call[w] \in SearchCall
    BY <1>1, <1>3
  <2> HIDE DEF docs
  <2>2. [kind |-> "hits", page |-> page, docs |-> docs, cached |-> hit,
         asked |-> call[w]]
        \in [kind : {"hits"}, page : Page, docs : Nat, cached : BOOLEAN,
            asked : SearchCall]
    BY <2>1
  <2> QED
    BY <1>2, <2>2 DEF Reply, docs
<1>5. /\ a.kind = "hits" /\ a.page = page /\ a.docs = Cardinality(log[reader[w]])
      /\ a.asked = call[w]
  BY <1>2
<1> HIDE DEF a
<1>6. ReplyOK(a)
  BY <1>1, <1>5 DEF ReplyOK
<1> QED
  BY <1>4, <1>6 DEF a

\* A cached page under the key of the call is the page of the call.
LEMMA HitStep ==
    ASSUME IInv, NEW w \in Worker, Hit(w)
    PROVE  IInv'
<1>1. /\ engine[w] \in Disks \cup {NoIndex, Mine} /\ reader[w] \in Nat
      /\ cache[w] \in SUBSET Entry /\ call[w] \in Call /\ reply[w] \in Reply
      /\ engine = [engine EXCEPT ![w] = engine[w]]
      /\ reader = [reader EXCEPT ![w] = reader[w]]
      /\ cache = [cache EXCEPT ![w] = cache[w]]
      /\ HandleOK(engine[w], reader[w], call[w])
      /\ CacheOK(cache[w])
      /\ Now \in Nat /\ (disk # NoIndex => Now >= 1)
  BY OneWorker
<1>2. PICK entry \in cache[w] :
          entry.key = Key(w) /\ Return(w, Outcome(w, entry.page, TRUE))
  BY DEF Hit
<1>3. call[w].op = "search" /\ UNCHANGED <<disk, log, engine, reader, cache>>
  BY DEF Hit
<1>4. PageOK(entry) /\ entry.page \in Page
  BY <1>1, <1>2 DEF CacheOK, Entry
<1>5. IsPageOf(entry.page, log[reader[w]], call[w].query, call[w].limit, call[w].offset)
  BY <1>2, <1>4 DEF PageOK, Key, Fingerprint
<1>6. /\ Outcome(w, entry.page, TRUE) \in Reply
      /\ ReplyOK(Outcome(w, entry.page, TRUE))
  BY <1>3, <1>4, <1>5, OutcomeOK
<1>7. /\ call' = [call EXCEPT ![w] = Idle]
      /\ reply' = [reply EXCEPT ![w] = Outcome(w, entry.page, TRUE)]
      /\ engine' = [engine EXCEPT ![w] = engine[w]]
      /\ reader' = [reader EXCEPT ![w] = reader[w]]
      /\ cache' = [cache EXCEPT ![w] = cache[w]]
  BY <1>1, <1>2, <1>3 DEF Return
<1>8. HandleOK(engine[w], reader[w], Idle)
  BY <1>1, Quiet
<1> QED
  BY <1>1, <1>3, <1>6, <1>7, <1>8, Quiet, WorkerStep

\* A computed page is the page of the call, and may be kept under its key.
LEMMA MissStep ==
    ASSUME IInv, NEW w \in Worker, Miss(w)
    PROVE  IInv'
<1>1. /\ engine[w] \in Disks \cup {NoIndex, Mine} /\ reader[w] \in Nat
      /\ cache[w] \in SUBSET Entry /\ call[w] \in Call /\ reply[w] \in Reply
      /\ engine = [engine EXCEPT ![w] = engine[w]]
      /\ reader = [reader EXCEPT ![w] = reader[w]]
      /\ cache = [cache EXCEPT ![w] = cache[w]]
      /\ HandleOK(engine[w], reader[w], call[w])
      /\ CacheOK(cache[w])
      /\ Now \in Nat /\ (disk # NoIndex => Now >= 1)
  BY OneWorker
<1>2. call[w].op = "search" /\ UNCHANGED <<disk, log, engine, reader>>
  BY DEF Miss
<1>3. /\ engine' = [engine EXCEPT ![w] = engine[w]]
      /\ reader' = [reader EXCEPT ![w] = reader[w]]
  BY <1>1, <1>2
<1>4. HandleOK(engine[w], reader[w], Idle)
  BY <1>1, Quiet
<1>5. CASE Return(w, Failed("query parse")) /\ UNCHANGED cache
  <2>1. cache' = [cache EXCEPT ![w] = cache[w]]
    BY <1>1, <1>5
  <2> QED
    BY <1>1, <1>2, <1>3, <1>4, <1>5, <2>1, Quiet, WorkerStep DEF Return
<1> DEFINE page == Evaluate(log[reader[w]], call[w].query, call[w].limit, call[w].offset)
           entry == [key |-> Key(w), page |-> page]
<1>6. CASE Remember(w, entry) /\ Return(w, Outcome(w, page, FALSE))
  <2>1. /\ call[w] \in SearchCall /\ reader[w] \in 1 .. Now
    BY <1>2, CallShape
  <2>12. InPlace(disk)
    <3>1. engine[w] # NoIndex
      BY <1>1, <1>2 DEF HandleOK
    <3> QED
      BY <1>1, <3>1 DEF HandleOK, Miss
  <2>2. /\ call[w].query \in Query /\ call[w].limit \in Limit
        /\ call[w].offset \in Offset
    BY <2>1 DEF SearchCall
  <2>3. /\ log[reader[w]] \in SUBSET Row
        /\ \A r, s \in log[reader[w]] : r.url = s.url => r = s
    BY <2>1, <2>12 DEF IInv, TypeOK, LogIsInOrder, Now
  <2>4. /\ page \in Page
        /\ IsPageOf(page, log[reader[w]], call[w].query, call[w].limit, call[w].offset)
    BY <2>2, <2>3, EvaluateIsPage
  <2> HIDE DEF page
  <2>5. /\ Outcome(w, page, FALSE) \in Reply
        /\ ReplyOK(Outcome(w, page, FALSE))
    BY <1>2, <2>4, OutcomeOK
  <2>6. entry \in Entry /\ PageOK(entry)
    <3>1. Key(w) = [query |-> call[w].query, limit |-> call[w].limit,
                    offset |-> call[w].offset, stamp |-> reader[w]]
      BY DEF Key, Fingerprint
    <3> QED
      BY <1>1, <2>1, <2>2, <2>4, <3>1 DEF Entry, PageOK
  <2> HIDE DEF entry
  <2>7. PICK kept \in SUBSET (cache[w] \cup {entry}) :
            cache' = [cache EXCEPT ![w] = kept]
    BY <1>6 DEF Remember
  <2>8. kept \in SUBSET Entry /\ \A e \in kept : PageOK(e)
    BY <1>1, <2>6, <2>7 DEF CacheOK
  <2>9. \A e, f \in kept : Agree(e, f)
    BY <2>8, <2>12, PagesAgree DEF IInv
  <2>10. CacheOK(kept)
    BY <2>8, <2>9 DEF CacheOK
  <2>11. /\ call' = [call EXCEPT ![w] = Idle]
         /\ reply' = [reply EXCEPT ![w] = Outcome(w, page, FALSE)]
    BY <1>6 DEF Return
  <2> QED
    BY <1>1, <1>2, <1>3, <1>4, <2>5, <2>7, <2>8, <2>10, <2>11, Quiet, WorkerStep
<1> QED
  BY <1>5, <1>6 DEF Miss

\* What is read through handles out of place is not kept.
LEMMA MisreadStep ==
    ASSUME IInv, NEW w \in Worker, Misread(w)
    PROVE  IInv'
<1> DEFINE a == [kind |-> "misread"]
<1>1. /\ engine[w] \in Disks \cup {NoIndex, Mine} /\ reader[w] \in Nat
      /\ cache[w] \in SUBSET Entry
      /\ engine = [engine EXCEPT ![w] = engine[w]]
      /\ reader = [reader EXCEPT ![w] = reader[w]]
      /\ cache = [cache EXCEPT ![w] = cache[w]]
      /\ HandleOK(engine[w], reader[w], Idle)
      /\ CacheOK(cache[w])
  BY OneWorker, Quiet
<1>2. a \in Reply /\ ReplyOK(a)
  BY DEF Reply, ReplyOK
<1>3. /\ UNCHANGED <<disk, log, engine, reader, cache>>
      /\ call' = [call EXCEPT ![w] = Idle]
      /\ reply' = [reply EXCEPT ![w] = a]
  BY DEF Misread, Return
<1> HIDE DEF a
<1> QED
  BY <1>1, <1>2, <1>3, Quiet, WorkerStep

\* The count and the fingerprint come from the one generation the reader is at.
LEMMA StatsStep ==
    ASSUME IInv, NEW w \in Worker, Stats(w)
    PROVE  IInv'
<1>1. /\ engine[w] \in Disks \cup {NoIndex, Mine} /\ reader[w] \in Nat
      /\ cache[w] \in SUBSET Entry /\ call[w] \in Call /\ reply[w] \in Reply
      /\ engine = [engine EXCEPT ![w] = engine[w]]
      /\ reader = [reader EXCEPT ![w] = reader[w]]
      /\ cache = [cache EXCEPT ![w] = cache[w]]
      /\ HandleOK(engine[w], reader[w], call[w])
      /\ CacheOK(cache[w])
      /\ Now \in Nat /\ (disk # NoIndex => Now >= 1)
  BY OneWorker
<1> DEFINE a == [kind |-> "stats", docs |-> Cardinality(log[reader[w]]),
                  stamp |-> Fingerprint(w), asked |-> call[w]]
<1>2. /\ call[w].op = "stats" /\ UNCHANGED <<disk, log, engine, reader, cache>>
      /\ call' = [call EXCEPT ![w] = Idle]
      /\ reply' = [reply EXCEPT ![w] = a]
  BY DEF Stats, Return
<1>3. /\ call[w] \in StatsCall
      /\ call[w].since \in 1 .. Now /\ reader[w] \in 1 .. Now
      /\ reader[w] >= call[w].since
  BY <1>2, CallShape
<1>4. Cardinality(log[reader[w]]) \in Nat
  <2>1. log[reader[w]] \in SUBSET Row
    BY <1>3 DEF IInv, TypeOK, Now
  <2> QED
    BY <2>1, SearchAssumption, FS_Subset, FS_CardinalityType
<1>5. a \in Reply
  BY <1>1, <1>3, <1>4 DEF Reply, Fingerprint
<1>6. ReplyOK(a)
  BY <1>3 DEF ReplyOK, Fingerprint
<1> HIDE DEF a
<1>7. /\ engine' = [engine EXCEPT ![w] = engine[w]]
      /\ reader' = [reader EXCEPT ![w] = reader[w]]
      /\ cache' = [cache EXCEPT ![w] = cache[w]]
  BY <1>1, <1>2
<1>8. HandleOK(engine[w], reader[w], Idle)
  BY <1>1, Quiet
<1> QED
  BY <1>1, <1>2, <1>5, <1>6, <1>7, <1>8, Quiet, WorkerStep

\* A worker that is started again has nothing.
LEMMA RestartStep ==
    ASSUME IInv, NEW w \in Worker, Restart(w)
    PROVE  IInv'
<1>1. /\ UNCHANGED <<disk, log>>
      /\ engine' = [engine EXCEPT ![w] = NoIndex]
      /\ reader' = [reader EXCEPT ![w] = 0]
      /\ cache' = [cache EXCEPT ![w] = {}]
      /\ call' = [call EXCEPT ![w] = Idle]
      /\ reply' = [reply EXCEPT ![w] = Nothing]
  BY DEF Restart
<1>2. Now \in Nat
  BY OneWorker
<1>3. HandleOK(NoIndex, 0, Idle)
  BY <1>2 DEF HandleOK, Idle
<1> QED
  BY <1>1, <1>3, Quiet, WorkerStep

\* An engine that opens its first generation satisfies the invariant.
LEMMA InitIInv == Init => IInv
<1> SUFFICES ASSUME Init PROVE IInv
  OBVIOUS
<1>1. /\ disk \in Disks
      /\ log = IF disk = NoIndex THEN << >> ELSE <<Empty>>
      /\ engine = [w \in Worker |-> NoIndex]
      /\ reader = [w \in Worker |-> 0]
      /\ cache = [w \in Worker |-> {}]
      /\ call = [w \in Worker |-> Idle]
      /\ reply = [w \in Worker |-> Nothing]
  BY DEF Init
<1>2. Now \in Nat /\ log \in Seq(SUBSET Row) /\ \A g \in 1 .. Now : log[g] = {}
  <2>1. log = << >> \/ log = <<{}>>
    BY <1>1 DEF Empty
  <2>2. CASE log = << >>
    BY <2>2 DEF Now
  <2>3. CASE log = <<{}>>
    <3>1. <<{}>> \in Seq(SUBSET Row)
      OBVIOUS
    <3>2. Len(<<{}>>) = 1 /\ <<{}>>[1] = {}
      OBVIOUS
    <3> QED
      BY <2>3, <3>1, <3>2 DEF Now
  <2> QED
    BY <2>1, <2>2, <2>3
<1>3. TypeOK
  BY <1>1, <1>2 DEF TypeOK, Call, Reply
<1>4. LogIsInOrder
  BY <1>1, <1>2 DEF LogIsInOrder, Empty
<1>5. HandleOK(NoIndex, 0, Idle) /\ CacheOK({}) /\ ReplyOK(Nothing)
  <2>1. CacheOK({}) /\ ReplyOK(Nothing)
    BY Quiet
  <2>2. Idle.op = "idle" /\ 0 <= Now
    BY <1>2 DEF Idle
  <2> QED
    BY <2>1, <2>2 DEF HandleOK
<1>6. WorkersOK
  BY <1>1, <1>5 DEF WorkersOK
<1> QED
  BY <1>3, <1>4, <1>6, IInvByWorker

\* Every step of the indexer and of the API's threads keeps it.
LEMMA NextIInv == IInv /\ [Next]_vars => IInv'
<1> SUFFICES ASSUME IInv, [Next]_vars PROVE IInv'
  OBVIOUS
<1>1. CASE OpenWriter
  BY <1>1, GrowthStep
<1>2. CASE \E rows \in SUBSET Row :
              /\ rows # {} /\ \A r, s \in rows : r.url = s.url => r = s
              /\ Commit(rows)
  BY <1>2, GrowthStep
<1>3. CASE Merge
  BY <1>3, GrowthStep
<1>4. ASSUME NEW w \in Worker, OpenIndex(w) \/ WarmUp(w) \/ Publish(w)
      PROVE  IInv'
  BY <1>4, OpeningStep
<1>5. ASSUME NEW w \in Worker, NEW q \in Query, NEW l \in Limit, NEW o \in Offset,
             Ask(w, q, l, o)
      PROVE  IInv'
  BY <1>5, AskStep
<1>6. ASSUME NEW w \in Worker, AskStats(w)
      PROVE  IInv'
  BY <1>6, AskStep
<1>7. ASSUME NEW w \in Worker, Reload(w) \/ Hit(w) \/ Miss(w) \/ Misread(w)
                                \/ Stats(w) \/ Restart(w)
      PROVE  IInv'
  BY <1>7, ReloadStep, HitStep, MissStep, MisreadStep, StatsStep, RestartStep
<1>8. CASE UNCHANGED vars
  <2>1. UNCHANGED <<disk, log, engine, reader, cache, call, reply>>
    BY <1>8 DEF vars
  <2>2. TypeOK' /\ LogIsInOrder' /\ HandlesAreInOrder' /\ StampsAreReal'
    BY <2>1 DEF IInv, TypeOK, LogIsInOrder, HandlesAreInOrder, StampsAreReal, Now
  <2>3. CacheAgrees'
    BY <2>1 DEF IInv, CacheAgrees
  <2>4. AnswerIsCurrent' /\ StatsAreOneGeneration'
    BY <2>1 DEF IInv, AnswerIsCurrent, StatsAreOneGeneration, Now
  <2> QED
    BY <2>2, <2>3, <2>4 DEF IInv
<1> QED
  BY <1>1, <1>2, <1>3, <1>4, <1>5, <1>6, <1>7, <1>8 DEF Next

\* What a step may do to the handle of a worker.
LEMMA StepKeepsHandle ==
    ASSUME IInv, [Next]_vars, NEW w \in Worker, engine[w] # NoIndex
    PROVE  \/ engine'[w] = NoIndex /\ reply'[w] = Nothing
           \/ /\ engine'[w] = engine[w] /\ reader'[w] >= reader[w]
              /\ ToSet(Mine) \subseteq ToSet(engine[w])
<1> DEFINE Ended == engine'[w] = NoIndex /\ reply'[w] = Nothing
           Stays == engine'[w] = engine[w] /\ reader'[w] >= reader[w]
<1>1. /\ HandleOK(engine[w], reader[w], call[w])
      /\ Now \in Nat /\ reader[w] \in Nat
      /\ engine \in [Worker -> Disks \cup {NoIndex, Mine}]
      /\ reader \in [Worker -> Nat] /\ reply \in [Worker -> Reply]
  BY OneWorker DEF IInv, TypeOK
<1>2. /\ ToSet(Mine) \subseteq ToSet(engine[w]) /\ reader[w] <= Now
      /\ call[w].op \notin {"warm", "publish"}
  BY <1>1 DEF HandleOK, IsCompatible, ToSet
<1>3. CASE UNCHANGED <<engine, reader>>
  BY <1>1, <1>2, <1>3
<1>4. ASSUME NEW v \in Worker, UNCHANGED engine,
             reader' = [reader EXCEPT ![v] = Now]
      PROVE  Stays
  BY <1>1, <1>2, <1>4
<1>5. ASSUME NEW v \in Worker, Publish(v)
      PROVE  Stays
  <2>1. v # w /\ engine' = [engine EXCEPT ![v] = disk] /\ UNCHANGED reader
    BY <1>2, <1>5 DEF Publish
  <2> QED
    BY <1>1, <2>1
<1>6. ASSUME NEW v \in Worker, Restart(v)
      PROVE  Ended \/ Stays
  <2>1. /\ engine' = [engine EXCEPT ![v] = NoIndex]
        /\ reader' = [reader EXCEPT ![v] = 0]
        /\ reply' = [reply EXCEPT ![v] = Nothing]
    BY <1>6 DEF Restart
  <2>2. CASE v = w
    BY <1>1, <2>1, <2>2
  <2>3. CASE v # w
    BY <1>1, <2>1, <2>3
  <2> QED
    BY <2>2, <2>3
<1>7. \/ UNCHANGED <<engine, reader>>
      \/ \E v \in Worker : UNCHANGED engine /\ reader' = [reader EXCEPT ![v] = Now]
      \/ \E v \in Worker : Publish(v) \/ Restart(v)
  BY DEF Next, vars, OpenWriter, Commit, Merge, OpenIndex, WarmUp, Ask, Reload, Hit,
         Miss, Misread, AskStats, Stats
<1>8. Ended \/ Stays
  BY <1>3, <1>4, <1>5, <1>6, <1>7
<1> QED
  BY <1>2, <1>8

-----------------------------------------------------------------------------
(***************************************************************************)
(* Whatever the workers ask, the indexer commits and merges, and the       *)
(* processes end and start, the invariant holds.                           *)
(***************************************************************************)
THEOREM SpecIInv == Spec => []IInv
<1> QED
  BY InitIInv, NextIInv, PTL DEF Spec

(***************************************************************************)
(* search.rs, Engine::search: every answer is the page of one generation,  *)
(* no older than the last commit before the question, cached or not.       *)
(***************************************************************************)
THEOREM SpecAnswerIsCurrent == Spec => []AnswerIsCurrent
<1>1. IInv => AnswerIsCurrent
  BY DEF IInv
<1> QED
  BY <1>1, SpecIInv, PTL

(***************************************************************************)
(* search.rs, CacheKey: the pages a worker keeps are right and agree with  *)
(* one another.                                                            *)
(***************************************************************************)
THEOREM SpecCacheAgrees == Spec => []CacheAgrees
<1>1. IInv => CacheAgrees
  BY DEF IInv
<1> QED
  BY <1>1, SpecIInv, PTL

(***************************************************************************)
(* search.rs, Engine::stats: count and fingerprint are of one generation.  *)
(***************************************************************************)
THEOREM SpecStatsAreOneGeneration == Spec => []StatsAreOneGeneration
<1>1. IInv => StatsAreOneGeneration
  BY DEF IInv
<1> QED
  BY <1>1, SpecIInv, PTL

(***************************************************************************)
(* python_api.rs, ENGINE, with the check of SearchEngine::open: a handle   *)
(* keeps its index and never steps back in the history until its process   *)
(* ends, and it is open only on an index with every field of ours, of our  *)
(* types.  Nothing is said of where those fields are.                      *)
(***************************************************************************)
THEOREM SpecHandleIsFinal == Spec => HandleIsFinal
<1>1. ASSUME IInv, [Next]_vars
      PROVE  [\A w \in Worker : engine[w] # NoIndex =>
                \/ engine'[w] = NoIndex /\ reply'[w] = Nothing
                \/ /\ engine'[w] = engine[w] /\ reader'[w] >= reader[w]
                   /\ ToSet(Mine) \subseteq ToSet(engine[w])]_vars
  BY <1>1, StepKeepsHandle
<1> QED
  BY <1>1, SpecIInv, PTL DEF Spec, HandleIsFinal
=============================================================================
