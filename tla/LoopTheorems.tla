---------------------------- MODULE LoopTheorems -----------------------------
(***************************************************************************)
(* Facts about numbers and loops that the proofs about the parts share.  A *)
(* step of a loop is a function here, so that the facts can be cited for   *)
(* any loop; each is an induction said of a set.                           *)
(***************************************************************************)
EXTENDS Naturals, Sequences, SequencesExt, WellFoundedInduction, TLAPS

\* Induction, said of a set.
LEMMA NatBySteps ==
    ASSUME NEW S, 0 \in S, \A n \in Nat : n \in S => n + 1 \in S
    PROVE  Nat \subseteq S
<1> DEFINE less == {pair \in Nat \X Nat : pair[1] < pair[2]}
           T == Nat \ S
<1>1. IsWellFoundedOn(less, Nat)
  BY NatLessThanWellFounded DEF OpToRel
<1> SUFFICES ASSUME T # {} PROVE FALSE
  OBVIOUS
<1> HIDE DEF less
<1>2. PICK x \in T : \A y \in T : <<y, x>> \notin less
  <2>1. T \subseteq Nat
    OBVIOUS
  <2> HIDE DEF T
  <2> QED
    BY <1>1, <2>1, WFMin
<1>3. \A y \in Nat : y < x => y \in S
  BY <1>2 DEF less
<1>4. x # 0 /\ x - 1 \in Nat /\ x - 1 < x /\ (x - 1) + 1 = x
  OBVIOUS
<1> QED
  BY <1>3, <1>4

\* A set of numbers that is not empty has a least one.
LEMMA LeastOf ==
    ASSUME NEW S, S \subseteq Nat, S # {}
    PROVE  \E m \in S : \A n \in S : m <= n
<1> DEFINE Below == {n \in Nat : \A m \in S : m >= n}
<1> SUFFICES ASSUME \A m \in S : \E n \in S : n < m PROVE FALSE
  OBVIOUS
<1>1. 0 \in Below
  OBVIOUS
<1>2. ASSUME NEW n \in Nat, n \in Below PROVE n + 1 \in Below
  <2>1. ASSUME NEW m \in S PROVE m >= n + 1
    <3>1. PICK k \in S : k < m
      OBVIOUS
    <3>2. k \in Nat /\ m \in Nat /\ k >= n
      BY <1>2
    <3> QED
      BY <3>1, <3>2
  <2> QED
    BY <2>1
<1> HIDE DEF Below
<1>3. Nat \subseteq Below
  BY <1>1, <1>2, NatBySteps
<1>4. PICK m \in S : TRUE
  OBVIOUS
<1>5. m + 1 \in Nat /\ m \in Nat
  OBVIOUS
<1>6. m >= m + 1
  BY <1>3, <1>5 DEF Below
<1> QED
  BY <1>5, <1>6

\* One that is bounded has a greatest.
LEMMA GreatestOf ==
    ASSUME NEW b \in Nat, NEW S, S \subseteq 0 .. b, S # {}
    PROVE  \E m \in S : \A n \in S : n <= m
<1> DEFINE Left == {b - n : n \in S}
<1>1. Left \subseteq Nat /\ Left # {}
  <2>1. \A n \in S : b - n \in Nat
    OBVIOUS
  <2> QED
    BY <2>1
<1>2. PICK m \in S : \A x \in Left : b - m <= x
  BY <1>1, LeastOf
<1>3. \A n \in S : b - m <= b - n
  BY <1>2
<1>4. \A n \in S : n <= m
  <2> SUFFICES ASSUME NEW n \in S PROVE n <= m
    OBVIOUS
  <2>1. m \in Nat /\ n \in Nat /\ b - m <= b - n
    BY <1>3
  <2> QED
    BY <2>1
<1> QED
  BY <1>4

\* Finitely many numbers have a bound.
LEMMA BoundOf ==
    ASSUME NEW n \in Nat, NEW f, \A i \in 1 .. n : f[i] \in Nat
    PROVE  \E b \in Nat : \A i \in 1 .. n : f[i] <= b
<1> DEFINE S == {m \in Nat : m <= n => \E b \in Nat : \A i \in 1 .. m : f[i] <= b}
<1>1. 0 \in S
  OBVIOUS
<1>2. ASSUME NEW m \in Nat, m \in S PROVE m + 1 \in S
  <2> SUFFICES ASSUME m + 1 <= n PROVE \E b \in Nat : \A i \in 1 .. m + 1 : f[i] <= b
    OBVIOUS
  <2>1. PICK b \in Nat : \A i \in 1 .. m : f[i] <= b
    BY <1>2
  <2>2. f[m + 1] \in Nat
    OBVIOUS
  <2> DEFINE top == f[m + 1]
  <2>3. \A i \in 1 .. m + 1 : f[i] \in Nat /\ (i \in 1 .. m \/ i = m + 1)
    OBVIOUS
  <2>4. \A i \in 1 .. m + 1 : f[i] <= b + top
    BY <2>1, <2>2, <2>3
  <2>5. b + top \in Nat
    BY <2>2
  <2> QED
    BY <2>4, <2>5
<1> HIDE DEF S
<1>3. Nat \subseteq S
  BY <1>1, <1>2, NatBySteps
<1>4. n \in S /\ n <= n
  BY <1>3
<1> QED
  BY <1>4 DEF S

-----------------------------------------------------------------------------
(* Loops *)

\* The states of a loop up to its n-th turn.
Runs(f, n, X, start, turn) ==
    /\ f \in [0 .. n -> X] /\ f[0] = start
    /\ \A i \in 1 .. n : f[i] = turn[<<i, f[i - 1]>>]

\* A loop over a body has its states.
LEMMA LoopRuns ==
    ASSUME NEW n \in Nat, NEW X, NEW start \in X, NEW turn,
           \A i \in 1 .. n : \A x \in X : turn[<<i, x>>] \in X
    PROVE  \E f : Runs(f, n, X, start, turn)
<1> DEFINE S == {m \in Nat : m <= n => \E f : Runs(f, m, X, start, turn)}
<1>1. 0 \in S
  <2>1. Runs([i \in 0 .. 0 |-> start], 0, X, start, turn)
    BY DEF Runs
  <2> QED
    BY <2>1
<1>2. ASSUME NEW m \in Nat, m \in S PROVE m + 1 \in S
  <2> SUFFICES ASSUME m + 1 <= n PROVE \E f : Runs(f, m + 1, X, start, turn)
    OBVIOUS
  <2>1. PICK f : Runs(f, m, X, start, turn)
    BY <1>2
  <2> DEFINE longer == [i \in 0 .. m + 1 |-> IF i = m + 1 THEN turn[<<m + 1, f[m]>>] ELSE f[i]]
  <2>2. /\ f \in [0 .. m -> X] /\ f[0] = start
        /\ \A i \in 1 .. m : f[i] = turn[<<i, f[i - 1]>>]
    BY <2>1 DEF Runs
  <2>3. m + 1 \in 1 .. n /\ f[m] \in X
    BY <2>2
  <2>4. turn[<<m + 1, f[m]>>] \in X
    BY <2>3
  <2>5. longer \in [0 .. m + 1 -> X] /\ longer[0] = start
    BY <2>2, <2>4
  <2>6. longer[m + 1] = turn[<<m + 1, f[m]>>] /\ \A i \in 0 .. m : longer[i] = f[i]
    OBVIOUS
  <2> HIDE DEF longer
  <2>7. ASSUME NEW i \in 1 .. m + 1 PROVE longer[i] = turn[<<i, longer[i - 1]>>]
    <3>1. CASE i = m + 1
      <4>1. longer[i - 1] = f[m]
        BY <2>6, <3>1
      <4> QED
        BY <2>6, <3>1, <4>1
    <3>2. CASE i # m + 1
      <4>1. i \in 1 .. m /\ i - 1 \in 0 .. m /\ i \in 0 .. m
        BY <3>2
      <4> QED
        BY <2>2, <2>6, <4>1
    <3> QED
      BY <3>1, <3>2
  <2>8. Runs(longer, m + 1, X, start, turn)
    BY <2>5, <2>7 DEF Runs
  <2> QED
    BY <2>8
<1> HIDE DEF S
<1>3. Nat \subseteq S
  BY <1>1, <1>2, NatBySteps
<1>4. n \in S /\ n <= n
  BY <1>3
<1> QED
  BY <1>4 DEF S

\* Sequences that are put together in order, as FlattenSeq does.
Flattens(f, n, X, seqs) ==
    /\ f \in [0 .. n -> Seq(X)] /\ f[0] = << >>
    /\ \A i \in 1 .. n : f[i] = f[i - 1] \o seqs[i]
    /\ FlattenSeq(seqs) = f[n]

LEMMA FlattenLoop ==
    ASSUME NEW X, NEW n \in Nat, NEW seqs, Len(seqs) = n, n = 0 => seqs = << >>,
           \A i \in 1 .. n : seqs[i] \in Seq(X)
    PROVE  \E f : Flattens(f, n, X, seqs)
<1> DEFINE turn == [step \in (1 .. n) \X Seq(X) |-> step[2] \o seqs[step[1]]]
           Loop(g) == g = [i \in 1 .. n |-> IF i = 1 THEN seqs[i] ELSE g[i - 1] \o seqs[i]]
<1>1. << >> \in Seq(X)
  OBVIOUS
<1>2. ASSUME NEW i \in 1 .. n, NEW x \in Seq(X) PROVE x \o seqs[i] \in Seq(X)
  OBVIOUS
<1>3. \A i \in 1 .. n : \A x \in Seq(X) :
          turn[<<i, x>>] \in Seq(X) /\ turn[<<i, x>>] = x \o seqs[i]
  BY <1>2
<1>4. PICK f : Runs(f, n, Seq(X), << >>, turn)
  <2> HIDE DEF turn
  <2> QED
    BY <1>1, <1>3, LoopRuns
<1> HIDE DEF turn
<1>5. /\ f \in [0 .. n -> Seq(X)] /\ f[0] = << >>
      /\ \A i \in 1 .. n : f[i] = turn[<<i, f[i - 1]>>]
  BY <1>4 DEF Runs
<1>6. \A i \in 1 .. n : i - 1 \in 0 .. n
  OBVIOUS
<1>7. \A i \in 1 .. n : f[i] = f[i - 1] \o seqs[i]
  BY <1>3, <1>5, <1>6
<1>8. CASE n = 0
  <2>1. FlattenSeq(seqs) = << >>
    BY <1>8 DEF FlattenSeq
  <2> QED
    BY <1>5, <1>7, <1>8, <2>1 DEF Flattens
<1>9. CASE n # 0
  <2>1. f[1] = seqs[1]
    <3>1. 1 \in 1 .. n /\ 1 - 1 = 0 /\ seqs[1] \in Seq(X)
      BY <1>9
    <3>2. f[1] = << >> \o seqs[1]
      BY <1>5, <1>7, <3>1
    <3> QED
      BY <3>1, <3>2
  <2>2. Loop([i \in 1 .. n |-> f[i]])
    <3>1. \A i \in 1 .. n : i # 1 => i - 1 \in 1 .. n
      OBVIOUS
    <3> QED
      BY <1>7, <2>1, <3>1
  <2> DEFINE flatten == CHOOSE g : Loop(g)
  <2>3. Loop(flatten)
    <3> HIDE DEF Loop
    <3> QED
      BY <2>2
  <2>4. FlattenSeq(seqs) = flatten[n]
    BY <1>9 DEF FlattenSeq
  <2> HIDE DEF flatten
  <2>5. \A i \in 1 .. n : flatten[i] = IF i = 1 THEN seqs[i] ELSE flatten[i - 1] \o seqs[i]
    BY <2>3
  <2> DEFINE S == {m \in Nat : m # 0 /\ m <= n => flatten[m] = f[m]}
  <2>6. 0 \in S
    OBVIOUS
  <2>7. ASSUME NEW m \in Nat, m \in S PROVE m + 1 \in S
    <3> SUFFICES ASSUME m + 1 <= n PROVE flatten[m + 1] = f[m + 1]
      OBVIOUS
    <3>1. m + 1 \in 1 .. n /\ (m + 1) - 1 = m /\ (m + 1 = 1 <=> m = 0)
      OBVIOUS
    <3>2. flatten[m + 1] = IF m = 0 THEN seqs[m + 1] ELSE flatten[m] \o seqs[m + 1]
      BY <2>5, <3>1
    <3>3. f[m + 1] = f[m] \o seqs[m + 1]
      BY <1>7, <3>1
    <3>4. CASE m = 0
      BY <2>1, <3>2, <3>4
    <3>5. CASE m # 0
      <4>1. flatten[m] = f[m]
        BY <2>7, <3>5
      <4>2. flatten[m + 1] = flatten[m] \o seqs[m + 1]
        BY <3>2, <3>5
      <4> QED
        BY <3>3, <4>1, <4>2, Zenon
    <3> QED
      BY <3>4, <3>5
  <2> HIDE DEF S
  <2>8. n \in S
    BY <2>6, <2>7, NatBySteps
  <2>9. flatten[n] = f[n]
    BY <1>9, <2>8 DEF S
  <2> QED
    BY <1>5, <1>7, <2>4, <2>9 DEF Flattens
<1> QED
  BY <1>8, <1>9
=============================================================================
