---------------------------- MODULE RobotsProofs -----------------------------
(***************************************************************************)
(* robots.rs: the rules that parse and select_group keep are those of the  *)
(* file read as a whole, for files of any lines; and glob_matches decides  *)
(* what a pattern means, for patterns and paths of any length.  And the    *)
(* sitemaps it names: parse of sitemap.rs reads what is well formed.       *)
(***************************************************************************)
EXTENDS RobotsFile, GlobMatch, SitemapScan, FiniteSetTheorems, LoopTheorems

-----------------------------------------------------------------------------
(* Lines and their records *)

\* Max returns the greatest of a bounded set of numbers.
LEMMA MaxOf ==
    ASSUME NEW b \in Nat, NEW S, S \subseteq 0 .. b, S # {}
    PROVE  Max(S) \in S /\ \A k \in S : k <= Max(S)
<1>1. PICK m \in S : \A k \in S : k <= m
  BY GreatestOf
<1>2. \A k \in S : m >= k
  BY <1>1
<1>3. Max(S) \in S /\ \A k \in S : Max(S) >= k
  BY <1>2 DEF Max
<1> QED
  BY <1>3

\* What is above all the others is what Max returns.
LEMMA MaxIs ==
    ASSUME NEW b \in Nat, NEW S, S \subseteq 0 .. b, NEW m \in S, \A k \in S : k <= m
    PROVE  Max(S) = m
<1>1. Max(S) \in S /\ m <= Max(S)
  BY MaxOf
<1>2. Max(S) <= m
  BY <1>1, Zenon
<1>3. Max(S) \in 0 .. b /\ m \in 0 .. b
  BY <1>1, Zenon
<1> QED
  BY <1>1, <1>2, <1>3

\* The record of a line is none or one that begins up to there.
LEMMA OwnerRange ==
    ASSUME NEW i \in Nat
    PROVE  Owner(i) \in 0 .. i /\ \A j \in 1 .. i : Begins(j) => j <= Owner(i)
<1> DEFINE S == {0} \cup {j \in 1 .. i : Begins(j)}
<1>1. S \subseteq 0 .. i /\ S # {}
  OBVIOUS
<1>2. Max(S) \in S /\ \A k \in S : k <= Max(S)
  <2> HIDE DEF S
  <2> QED
    BY <1>1, MaxOf
<1>3. Owner(i) = Max(S)
  BY DEF Owner
<1> QED
  BY <1>1, <1>2, <1>3

\* One more line.
LEMMA AppendShape ==
    ASSUME RobotsIInv, NEW n \in Nat, n = Len(lines), NEW line \in FileLine,
           lines' = Append(lines, line)
    PROVE  /\ lines \in Seq(FileLine) /\ lines' \in Seq(FileLine)
           /\ Len(lines') = n + 1
           /\ DOMAIN lines = 1 .. n /\ DOMAIN lines' = 1 .. n + 1
           /\ \A i \in 1 .. n : lines'[i] = lines[i]
           /\ lines'[n + 1] = line
BY DEF RobotsIInv, RobotsTypeOK

\* The lines before it keep their record; it begins one if it names an agent and
\* rules, or nobody, were named last.
LEMMA AppendOwner ==
    ASSUME RobotsIInv, NEW n \in Nat, n = Len(lines), NEW line \in FileLine,
           lines' = Append(lines, line)
    PROVE  /\ \A i \in 0 .. n : Owner(i)' = Owner(i)
           /\ LastRecord' = IF line.field = "user-agent" /\ (groupHasRules \/ agents = << >>)
                            THEN n + 1 ELSE LastRecord
           /\ \A i \in 0 .. n + 1 : Owner(i)' = IF i = n + 1 THEN LastRecord' ELSE Owner(i)
<1>1. /\ Len(lines') = n + 1 /\ DOMAIN lines = 1 .. n
      /\ \A i \in 1 .. n : lines'[i] = lines[i]
      /\ lines'[n + 1] = line
  BY AppendShape
<1>2. \A i \in 1 .. n : Begins(i)' <=> Begins(i)
  <2> SUFFICES ASSUME NEW i \in 1 .. n PROVE Begins(i)' <=> Begins(i)
    OBVIOUS
  <2>1. \A j \in 1 .. n : (Is(j, "user-agent"))' <=> Is(j, "user-agent")
    BY <1>1 DEF Is
  <2>2. \A j \in 1 .. n : IsRule(j)' <=> IsRule(j)
    BY <1>1 DEF IsRule
  <2>3. \A j \in 1 .. i - 1 : j \in 1 .. n /\ \A k \in j .. i - 1 : k \in 1 .. n
    OBVIOUS
  <2> QED
    BY <2>1, <2>2, <2>3 DEF Begins
<1>3. ASSUME NEW i \in 0 .. n PROVE Owner(i)' = Owner(i)
  <2>1. {j \in 1 .. i : Begins(j)}' = {j \in 1 .. i : Begins(j)}
    BY <1>2
  <2> QED
    BY <2>1 DEF Owner
<1>4. Begins(n + 1)' <=> (line.field = "user-agent" /\ (groupHasRules \/ agents = << >>))
  <2>1. \A j \in 1 .. n : (Is(j, "user-agent"))' <=> Is(j, "user-agent")
    BY <1>1 DEF Is
  <2>2. \A j \in 1 .. n : IsRule(j)' <=> IsRule(j)
    BY <1>1 DEF IsRule
  <2>3. (Is(n + 1, "user-agent"))' <=> line.field = "user-agent"
    BY <1>1 DEF Is
  <2>4. /\ (n + 1) - 1 = n
        /\ \A j \in 1 .. n : \A k \in j .. n : k \in 1 .. n
    OBVIOUS
  <2>5. Begins(n + 1)' <=> /\ line.field = "user-agent"
                           /\ \A j \in 1 .. n : Is(j, "user-agent") =>
                                 \E k \in j .. n : IsRule(k)
    BY <2>1, <2>2, <2>3, <2>4 DEF Begins
  <2>6. (groupHasRules \/ agents = << >>) <=>
            \A j \in 1 .. n : Is(j, "user-agent") => \E k \in j .. n : IsRule(k)
    BY <1>1 DEF RobotsIInv, NextRecord, RobotsTypeOK
  <2> QED
    BY <2>5, <2>6
<1>5. LastRecord' = Owner(n + 1)'
  BY <1>1 DEF LastRecord
<1>6. CASE Begins(n + 1)'
  <2> DEFINE S == {0} \cup {j \in 1 .. n + 1 : Begins(j)'}
  <2>1. S \subseteq 0 .. n + 1 /\ n + 1 \in S /\ \A k \in S : k <= n + 1
    BY <1>6
  <2>2. Max(S) = n + 1
    <3>1. n + 1 \in Nat
      OBVIOUS
    <3> HIDE DEF S
    <3> QED
      BY <2>1, <3>1, MaxIs
  <2>3. Owner(n + 1)' = Max(S)
    BY DEF Owner
  <2> QED
    BY <1>3, <1>4, <1>5, <1>6, <2>2, <2>3
<1>7. CASE ~Begins(n + 1)'
  <2>1. {0} \cup {j \in 1 .. n + 1 : Begins(j)'} = {0} \cup {j \in 1 .. n : Begins(j)}
    BY <1>2, <1>7
  <2>2. Owner(n + 1)' = Owner(n)
    BY <2>1 DEF Owner
  <2>3. LastRecord = Owner(n)
    BY DEF LastRecord
  <2> QED
    BY <1>3, <1>4, <1>5, <1>7, <2>2, <2>3
<1> QED
  BY <1>6, <1>7

\* It adds what it says to its record.
LEMMA AppendSays ==
    ASSUME RobotsIInv, NEW n \in Nat, n = Len(lines), NEW line \in FileLine,
           lines' = Append(lines, line), NEW s
    PROVE  /\ \A f : Values(s, f)' = IF s = LastRecord' /\ line.field = f
                                     THEN Values(s, f) \cup {line.value} ELSE Values(s, f)
           /\ HasRules(s)' <=> \/ HasRules(s)
                               \/ /\ s = LastRecord'
                                  /\ line.field \in {"disallow", "allow", "crawl-delay"}
           /\ DelayOf(s)' = IF /\ s = LastRecord' /\ line.field = "crawl-delay"
                               /\ line.value \in DOMAIN SecondsOf
                            THEN SecondsOf[line.value] ELSE DelayOf(s)
<1>1. /\ DOMAIN lines = 1 .. n /\ DOMAIN lines' = 1 .. n + 1
      /\ \A i \in 1 .. n : lines'[i] = lines[i]
      /\ lines'[n + 1] = line
  BY AppendShape
<1>2. \A i \in 1 .. n + 1 : Owner(i)' = IF i = n + 1 THEN LastRecord' ELSE Owner(i)
  BY AppendOwner
<1>3. ASSUME NEW f
      PROVE  Record(s, f)' = Record(s, f) \cup
                 (IF s = LastRecord' /\ line.field = f THEN {n + 1} ELSE {})
  BY <1>1, <1>2 DEF Record, Is
<1>4. ASSUME NEW f PROVE Record(s, f) \subseteq 1 .. n
  BY <1>1 DEF Record
<1>5. ASSUME NEW f
      PROVE  Values(s, f)' = IF s = LastRecord' /\ line.field = f
                             THEN Values(s, f) \cup {line.value} ELSE Values(s, f)
  BY <1>1, <1>3, <1>4 DEF Values
<1>6. HasRules(s)' <=> \/ HasRules(s)
                       \/ /\ s = LastRecord'
                          /\ line.field \in {"disallow", "allow", "crawl-delay"}
  BY <1>1, <1>2 DEF HasRules, IsRule
<1>7. DelayOf(s)' = IF /\ s = LastRecord' /\ line.field = "crawl-delay"
                       /\ line.value \in DOMAIN SecondsOf
                    THEN SecondsOf[line.value] ELSE DelayOf(s)
  <2>1. Timed(s) \subseteq 1 .. n
    BY <1>4 DEF Timed
  <2>2. CASE /\ s = LastRecord' /\ line.field = "crawl-delay"
             /\ line.value \in DOMAIN SecondsOf
    <3>1. Timed(s)' = Timed(s) \cup {n + 1}
      BY <1>1, <1>3, <1>4, <2>2 DEF Timed
    <3>2. Max(Timed(s) \cup {n + 1}) = n + 1
      <4>1. /\ Timed(s) \cup {n + 1} \subseteq 0 .. n + 1
            /\ \A k \in Timed(s) \cup {n + 1} : k <= n + 1
        BY <2>1
      <4> QED
        BY <4>1, MaxIs
    <3> QED
      BY <1>1, <2>2, <3>1, <3>2 DEF DelayOf
  <2>3. CASE ~(/\ s = LastRecord' /\ line.field = "crawl-delay"
               /\ line.value \in DOMAIN SecondsOf)
    <3>1. Timed(s)' = Timed(s)
      BY <1>1, <1>3, <1>4, <2>3 DEF Timed
    <3>2. Timed(s) # {} => Max(Timed(s)) \in 1 .. n
      BY <2>1, MaxOf
    <3> QED
      BY <1>1, <2>3, <3>1, <3>2 DEF DelayOf
  <2> QED
    BY <2>2, <2>3
<1> QED
  BY <1>5, <1>6, <1>7

-----------------------------------------------------------------------------
(* The steps of the parser *)

\* A line that closes no group leaves the closed ones what they were.
LEMMA GroupsStay ==
    ASSUME RobotsIInv, NEW n \in Nat, n = Len(lines), NEW line \in FileLine,
           lines' = Append(lines, line), groups' = groups, LastRecord' = LastRecord
    PROVE  GroupsAreRecords'
<1>1. PICK at \in [DOMAIN groups -> Nat] :
          /\ \A g \in DOMAIN groups :
                /\ Gathers(groups[g].agents, groups[g].rules, at[g])
                /\ HasRules(at[g]) /\ at[g] < LastRecord
          /\ \A g, h \in DOMAIN groups : g < h => at[g] < at[h]
          /\ \A i \in DOMAIN lines :
                Owner(i) \in {0, LastRecord} \cup {at[g] : g \in DOMAIN groups}
  BY DEF RobotsIInv, GroupsAreRecords
<1>2. /\ Len(lines') = n + 1 /\ DOMAIN lines = 1 .. n /\ DOMAIN lines' = 1 .. n + 1
  BY AppendShape
<1>3. LastRecord \in Nat
  BY OwnerRange DEF LastRecord
<1>4. ASSUME NEW g \in DOMAIN groups
      PROVE  (Gathers(groups[g].agents, groups[g].rules, at[g]))' /\ HasRules(at[g])'
  <2>1. at[g] \in Nat /\ at[g] # LastRecord'
    BY <1>1, <1>3
  <2>2. /\ \A f : Values(at[g], f)' = Values(at[g], f)
        /\ HasRules(at[g])
        /\ HasRules(at[g])' <=> HasRules(at[g])
        /\ DelayOf(at[g])' = DelayOf(at[g])
    BY <1>1, <2>1, AppendSays
  <2>3. Len(groups[g].agents) <= n /\ Len(groups[g].agents) \in Nat
    BY <1>1 DEF Gathers, RobotsIInv, RobotsTypeOK
  <2>4. Gathers(groups[g].agents, groups[g].rules, at[g])
    BY <1>1
  <2>5. /\ (Values(at[g], "user-agent"))' = Values(at[g], "user-agent")
        /\ (Patterns(at[g], "disallow"))' = Patterns(at[g], "disallow")
        /\ (Patterns(at[g], "allow"))' = Patterns(at[g], "allow")
    BY <2>2 DEF Patterns
  <2>6. (Len(groups[g].agents) <= Len(lines))'
    BY <1>2, <2>3
  <2> QED
    BY <2>2, <2>4, <2>5, <2>6 DEF Gathers
<1>5. \A i \in DOMAIN lines' :
          Owner(i)' \in {0, LastRecord'} \cup {at[g] : g \in DOMAIN groups}
  <2>1. \A i \in 0 .. n + 1 : Owner(i)' = IF i = n + 1 THEN LastRecord' ELSE Owner(i)
    BY AppendOwner
  <2> QED
    BY <1>1, <1>2, <2>1
<1> QED
  BY <1>1, <1>4, <1>5 DEF GroupsAreRecords

\* What the records of no line say.
LEMMA NewRecordIsEmpty ==
    ASSUME RobotsIInv, NEW s \in Nat, s > Len(lines)
    PROVE  (\A f : Values(s, f) = {}) /\ ~HasRules(s) /\ DelayOf(s) = 0
<1>1. PICK n \in Nat : n = Len(lines) /\ DOMAIN lines = 1 .. n
  BY DEF RobotsIInv, RobotsTypeOK
<1>2. \A i \in 1 .. n : Owner(i) # s
  <2> SUFFICES ASSUME NEW i \in 1 .. n PROVE Owner(i) # s
    OBVIOUS
  <2>1. Owner(i) \in 0 .. i
    BY OwnerRange
  <2> QED
    BY <1>1, <2>1
<1>3. \A f : Record(s, f) = {}
  BY <1>1, <1>2 DEF Record
<1> QED
  BY <1>1, <1>2, <1>3 DEF Values, HasRules, DelayOf, Timed

\* The record of a user-agent line is known as soon as it is read.
LEMMA AgentLinesAreOwned ==
    ASSUME RobotsIInv, NEW n \in Nat, n = Len(lines), NEW line \in FileLine,
           lines' = Append(lines, line), line.field = "user-agent" => LastRecord' # 0
    PROVE  \A i \in DOMAIN lines' : (Is(i, "user-agent"))' => Owner(i)' # 0
<1>1. /\ DOMAIN lines = 1 .. n /\ DOMAIN lines' = 1 .. n + 1
      /\ \A i \in 1 .. n : lines'[i] = lines[i]
      /\ lines'[n + 1] = line
  BY AppendShape
<1>2. \A i \in 0 .. n + 1 : Owner(i)' = IF i = n + 1 THEN LastRecord' ELSE Owner(i)
  BY AppendOwner
<1>3. \A i \in 1 .. n : Is(i, "user-agent") => Owner(i) # 0
  BY <1>1 DEF RobotsIInv, NextRecord
<1> QED
  BY <1>1, <1>2, <1>3 DEF Is

\* What one more element says.
LEMMA AppendElement ==
    ASSUME NEW T, NEW list \in Seq(T), NEW value \in T
    PROVE  /\ Append(list, value) \in Seq(T)
           /\ Len(Append(list, value)) = Len(list) + 1
           /\ ToSet(Append(list, value)) = ToSet(list) \cup {value}
<1>1. /\ Append(list, value) \in Seq(T)
      /\ Len(list) \in Nat /\ DOMAIN list = 1 .. Len(list)
      /\ Len(Append(list, value)) = Len(list) + 1
      /\ DOMAIN Append(list, value) = 1 .. Len(list) + 1
      /\ \A i \in 1 .. Len(list) : Append(list, value)[i] = list[i]
      /\ Append(list, value)[Len(list) + 1] = value
  OBVIOUS
<1> DEFINE longer == Append(list, value)
<1> HIDE DEF longer
<1>2. ToSet(longer) = ToSet(list) \cup {value}
  BY <1>1 DEF longer, ToSet
<1> QED
  BY <1>1, <1>2 DEF longer

\* What WithPattern keeps.
LEMMA PatternIsKept ==
    ASSUME NEW T, NEW list \in Seq(T), NEW value, value = "" \/ value \in T
    PROVE  /\ WithPattern(list, value) \in Seq(T)
           /\ ToSet(WithPattern(list, value))
                  = IF value = "" THEN ToSet(list) ELSE ToSet(list) \cup {value}
<1>1. ASSUME NEW v \in T
      PROVE  Append(list, v) \in Seq(T) /\ ToSet(Append(list, v)) = ToSet(list) \cup {v}
  BY AppendElement, ZenonT(60)
<1>2. CASE value = ""
  BY <1>2, Zenon DEF WithPattern
<1>3. CASE value # ""
  <2>1. value \in T
    BY <1>3, Zenon
  <2> QED
    BY <1>1, <1>3, <2>1, Zenon DEF WithPattern
<1> QED
  BY <1>2, <1>3, Zenon

\* A record without a rule keeps no pattern and no delay.
LEMMA NoRulesSayNothing ==
    ASSUME NEW s, ~HasRules(s)
    PROVE  /\ Values(s, "disallow") = {} /\ Values(s, "allow") = {}
           /\ DelayOf(s) = 0
<1>1. /\ Record(s, "disallow") = {} /\ Record(s, "allow") = {}
      /\ Record(s, "crawl-delay") = {}
  BY DEF HasRules, Record, Is, IsRule
<1> QED
  BY <1>1 DEF Values, DelayOf, Timed

\* The number of the record being read.
LEMMA LastRecordRange ==
    ASSUME RobotsIInv
    PROVE  LastRecord \in 0 .. Len(lines) /\ Len(lines) \in Nat
<1>1. Len(lines) \in Nat
  BY DEF RobotsIInv, RobotsTypeOK
<1> QED
  BY <1>1, OwnerRange DEF LastRecord

\* A line that is no sitemap leaves the sitemaps what they were.
LEMMA SitemapsStay ==
    ASSUME RobotsIInv, NEW n \in Nat, n = Len(lines), NEW line \in FileLine,
           lines' = Append(lines, line), line.field # "sitemap", sitemaps' = sitemaps
    PROVE  SitemapsAreTheLines'
<1>1. /\ DOMAIN lines = 1 .. n /\ DOMAIN lines' = 1 .. n + 1
      /\ \A i \in 1 .. n : lines'[i] = lines[i]
      /\ lines'[n + 1] = line
  BY AppendShape
<1>2. {j \in DOMAIN lines : Is(j, "sitemap")}' = {j \in DOMAIN lines : Is(j, "sitemap")}
  BY <1>1 DEF Is
<1>3. \A i \in {j \in DOMAIN lines : Is(j, "sitemap")} : lines'[i].value = lines[i].value
  BY <1>1
<1>4. SitemapsAreTheLines
  BY DEF RobotsIInv
<1> QED
  BY <1>2, <1>3, <1>4 DEF SitemapsAreTheLines

\* A user-agent line closes the group when it has rules, and names its own.
LEMMA ClosingStep ==
    ASSUME RobotsIInv, NEW line \in FileLine, Len(lines) < MaxLines,
           UserAgentLine(line), groupHasRules
    PROVE  RobotsIInv'
<1>1. PICK n \in Nat : n = Len(lines)
  BY LastRecordRange
<1>2. PICK last \in 0 .. n : last = LastRecord
  BY <1>1, LastRecordRange
<1>3. PICK m \in Nat : m = Len(groups) /\ DOMAIN groups = 1 .. m
  BY DEF RobotsIInv, RobotsTypeOK
<1>4. /\ line.field = "user-agent" /\ lines' = Append(lines, line)
      /\ groups' = Append(groups, [agents |-> agents, rules |-> rules])
      /\ agents' = <<line.value>> /\ rules' = NoRules /\ groupHasRules' = FALSE
      /\ sitemaps' = sitemaps
  BY DEF UserAgentLine, StartsGroup, Read
<1>5. /\ lines' \in Seq(FileLine) /\ Len(lines') = n + 1
      /\ DOMAIN lines = 1 .. n /\ DOMAIN lines' = 1 .. n + 1
      /\ \A i \in 1 .. n : lines'[i] = lines[i]
      /\ lines'[n + 1] = line
  BY <1>1, <1>4, AppendShape
<1>6. /\ LastRecord' = n + 1
      /\ \A i \in 0 .. n + 1 : Owner(i)' = IF i = n + 1 THEN n + 1 ELSE Owner(i)
  BY <1>1, <1>4, AppendOwner
<1>7. line.value \in FileValue
  BY DEF FileValue
<1>8. /\ groups' \in Seq([agents : Seq(FileValue), rules : Rules])
      /\ DOMAIN groups' = 1 .. m + 1
      /\ \A g \in 1 .. m : groups'[g] = groups[g]
      /\ groups'[m + 1] = [agents |-> agents, rules |-> rules]
  <2>1. [agents |-> agents, rules |-> rules] \in [agents : Seq(FileValue), rules : Rules]
    BY DEF RobotsIInv, RobotsTypeOK
  <2>2. groups \in Seq([agents : Seq(FileValue), rules : Rules])
    BY DEF RobotsIInv, RobotsTypeOK
  <2> QED
    BY <1>3, <1>4, <2>1, <2>2
<1>9. RobotsTypeOK'
  <2>1. NoRules \in Rules
    BY DEF NoRules, Rules
  <2>2. <<line.value>> \in Seq(FileValue)
    BY <1>7
  <2>3. n + 1 <= MaxLines
    <3>1. MaxLines \in Nat
      BY RobotsAssumption
    <3> QED
      BY <1>1, <3>1
  <2> QED
    BY <1>4, <1>5, <1>8, <2>1, <2>2, <2>3 DEF RobotsTypeOK, RobotsIInv
<1>10. NextRecord'
  <2>1. \A i \in DOMAIN lines' : (Is(i, "user-agent"))' => Owner(i)' # 0
    <3>1. LastRecord' # 0
      BY <1>6
    <3> QED
      BY <1>1, <1>4, <3>1, AgentLinesAreOwned
  <2>2. (Is(n + 1, "user-agent"))' /\ \A k \in n + 1 .. n + 1 : ~IsRule(k)'
    BY <1>4, <1>5 DEF Is, IsRule
  <2> QED
    BY <1>4, <1>5, <2>1, <2>2 DEF NextRecord
<1>11. GroupIsLastRecord'
  <2>0. PICK new \in Nat : new = n + 1
    OBVIOUS
  <2>1. /\ \A f : Values(new, f)' = IF line.field = f THEN {line.value} ELSE {}
        /\ ~HasRules(new)' /\ DelayOf(new)' = 0
    <3>1. (\A f : Values(new, f) = {}) /\ ~HasRules(new) /\ DelayOf(new) = 0
      BY <1>1, <2>0, NewRecordIsEmpty
    <3>2. new = LastRecord'
      BY <1>6, <2>0
    <3>3. /\ \A f : Values(new, f)' = IF line.field = f THEN Values(new, f) \cup {line.value}
                                      ELSE Values(new, f)
          /\ HasRules(new)' <=> HasRules(new)
          /\ DelayOf(new)' = DelayOf(new)
      BY <1>1, <1>4, <3>2, AppendSays
    <3> QED
      BY <3>1, <3>3
  <2>2. /\ ToSet(<<line.value>>) = {line.value} /\ Len(<<line.value>>) = 1
        /\ ToSet(<< >>) = {}
    BY DEF ToSet
  <2>3. /\ (Values(new, "user-agent"))' = {line.value}
        /\ (Patterns(new, "disallow"))' = {} /\ (Patterns(new, "allow"))' = {}
    <3>1. (Values(new, "user-agent"))' = {line.value}
      BY <1>4, <2>1
    <3>2. (Values(new, "disallow"))' = {} /\ (Values(new, "allow"))' = {}
      BY <1>4, <2>1
    <3> QED
      BY <3>1, <3>2 DEF Patterns
  <2>4. (Gathers(agents, rules, new))'
    <3>1. /\ rules'.disallow = << >> /\ rules'.allow = << >> /\ rules'.delay = 0
      BY <1>4 DEF NoRules
    <3>2. Len(agents') <= Len(lines')
      BY <1>4, <1>5, <2>2
    <3> QED
      BY <1>4, <2>1, <2>2, <2>3, <3>1, <3>2 DEF Gathers
  <2> QED
    BY <1>4, <1>6, <2>0, <2>1, <2>4 DEF GroupIsLastRecord
<1>12. GroupsAreRecords'
  <2>1. PICK at \in [1 .. m -> Nat] :
            /\ \A g \in 1 .. m :
                  /\ Gathers(groups[g].agents, groups[g].rules, at[g])
                  /\ HasRules(at[g]) /\ at[g] < last
            /\ \A g, h \in 1 .. m : g < h => at[g] < at[h]
            /\ \A i \in 1 .. n : Owner(i) \in {0, last} \cup {at[g] : g \in 1 .. m}
    BY <1>2, <1>3, <1>5 DEF RobotsIInv, GroupsAreRecords
  <2> DEFINE more == [g \in 1 .. m + 1 |-> IF g = m + 1 THEN last ELSE at[g]]
  <2>2. /\ more \in [1 .. m + 1 -> Nat] /\ more[m + 1] = last
        /\ \A g \in 1 .. m : more[g] = at[g]
    OBVIOUS
  <2> HIDE DEF more
  <2>3. ASSUME NEW s \in 0 .. n
        PROVE  /\ (Values(s, "user-agent"))' = Values(s, "user-agent")
               /\ (Patterns(s, "disallow"))' = Patterns(s, "disallow")
               /\ (Patterns(s, "allow"))' = Patterns(s, "allow")
               /\ HasRules(s)' <=> HasRules(s)
               /\ DelayOf(s)' = DelayOf(s)
    <3>1. s # LastRecord'
      BY <1>6
    <3>2. /\ \A f : Values(s, f)' = Values(s, f)
          /\ HasRules(s)' <=> HasRules(s)
          /\ DelayOf(s)' = DelayOf(s)
      BY <1>1, <1>4, <3>1, AppendSays
    <3> QED
      BY <3>2 DEF Patterns
  <2>4. ASSUME NEW g \in 1 .. m + 1
        PROVE  /\ (Gathers(groups[g].agents, groups[g].rules, more[g]))'
               /\ HasRules(more[g])' /\ more[g] < n + 1
    <3>1. CASE g = m + 1
      <4>1. Gathers(agents, rules, last) /\ HasRules(last)
        BY <1>2 DEF RobotsIInv, GroupIsLastRecord
      <4>2. Len(agents) <= n + 1
        BY <1>1, <4>1 DEF Gathers, RobotsIInv, RobotsTypeOK
      <4> QED
        BY <1>5, <1>8, <2>2, <2>3, <3>1, <4>1, <4>2, SMTT(30) DEF Gathers
    <3>2. CASE g # m + 1
      <4>1. g \in 1 .. m /\ at[g] \in 0 .. n /\ at[g] < n + 1
        BY <2>1, <3>2
      <4>2. Gathers(groups[g].agents, groups[g].rules, at[g]) /\ HasRules(at[g])
        BY <2>1, <4>1
      <4>3. Len(groups[g].agents) <= n + 1
        BY <1>1, <1>3, <4>1, <4>2 DEF Gathers, RobotsIInv, RobotsTypeOK
      <4> QED
        BY <1>5, <1>8, <2>2, <2>3, <4>1, <4>2, <4>3 DEF Gathers
    <3> QED
      BY <3>1, <3>2
  <2>5. \A g, h \in 1 .. m + 1 : g < h => more[g] < more[h]
    <3> SUFFICES ASSUME NEW g \in 1 .. m + 1, NEW h \in 1 .. m + 1, g < h
                 PROVE  more[g] < more[h]
      OBVIOUS
    <3>1. g \in 1 .. m
      OBVIOUS
    <3>2. h \in 1 .. m \/ h = m + 1
      OBVIOUS
    <3> QED
      BY <2>1, <2>2, <3>1, <3>2
  <2>6. \A i \in 1 .. n + 1 :
            Owner(i)' \in {0, n + 1} \cup {more[g] : g \in 1 .. m + 1}
    <3> SUFFICES ASSUME NEW i \in 1 .. n
                 PROVE  Owner(i) \in {0, n + 1} \cup {more[g] : g \in 1 .. m + 1}
      BY <1>6
    <3>1. Owner(i) \in {0, last} \cup {at[g] : g \in 1 .. m}
      BY <2>1
    <3> QED
      BY <2>2, <3>1
  <2> QED
    BY <1>5, <1>6, <1>8, <2>2, <2>4, <2>5, <2>6 DEF GroupsAreRecords
<1>13. SitemapsAreTheLines'
  BY <1>1, <1>4, SitemapsStay
<1> QED
  BY <1>9, <1>10, <1>11, <1>12, <1>13 DEF RobotsIInv

\* The first user-agent line of all begins the first record.
LEMMA FirstAgentStep ==
    ASSUME RobotsIInv, NEW line \in FileLine, Len(lines) < MaxLines,
           UserAgentLine(line), ~groupHasRules, agents = << >>
    PROVE  RobotsIInv'
<1>1. PICK n \in Nat : n = Len(lines)
  BY LastRecordRange
<1>2. PICK new \in Nat : new = n + 1
  OBVIOUS
<1>3. LastRecord = 0 /\ ~HasRules(0)
  BY DEF RobotsIInv, GroupIsLastRecord
<1>4. /\ line.field = "user-agent" /\ lines' = Append(lines, line)
      /\ groups' = groups /\ rules' = rules /\ groupHasRules' = groupHasRules
      /\ agents' = Append(agents, line.value) /\ sitemaps' = sitemaps
  BY DEF UserAgentLine, StartsGroup, Read
<1>5. /\ lines' \in Seq(FileLine) /\ Len(lines') = new
      /\ DOMAIN lines = 1 .. n /\ DOMAIN lines' = 1 .. n + 1
      /\ \A i \in 1 .. n : lines'[i] = lines[i]
      /\ lines'[new] = line
  BY <1>1, <1>2, <1>4, AppendShape
<1>6. /\ LastRecord' = new
      /\ \A i \in 0 .. n + 1 : Owner(i)' = IF i = n + 1 THEN new ELSE Owner(i)
  BY <1>1, <1>2, <1>4, AppendOwner
<1>7. agents' = <<line.value>>
  BY <1>4
<1>8. RobotsTypeOK'
  <2>1. line.value \in FileValue
    BY DEF FileValue
  <2>2. <<line.value>> \in Seq(FileValue)
    BY <2>1
  <2>3. new <= MaxLines
    <3>1. MaxLines \in Nat
      BY RobotsAssumption
    <3> QED
      BY <1>1, <1>2, <3>1
  <2> QED
    BY <1>4, <1>5, <1>7, <2>2, <2>3 DEF RobotsTypeOK, RobotsIInv
<1>9. NextRecord'
  <2>1. \A i \in DOMAIN lines' : (Is(i, "user-agent"))' => Owner(i)' # 0
    <3>1. LastRecord' # 0
      BY <1>2, <1>6
    <3> QED
      BY <1>1, <1>4, <3>1, AgentLinesAreOwned
  <2>2. (Is(new, "user-agent"))' /\ \A k \in new .. new : ~IsRule(k)'
    BY <1>4, <1>5 DEF Is, IsRule
  <2>3. new \in DOMAIN lines' /\ ~groupHasRules' /\ agents' # << >>
    BY <1>2, <1>4, <1>5, <1>7
  <2> QED
    BY <1>5, <2>1, <2>2, <2>3 DEF NextRecord
<1>10. GroupIsLastRecord'
  <2>1. /\ \A f : Values(new, f)' = IF line.field = f THEN {line.value} ELSE {}
        /\ ~HasRules(new)' /\ DelayOf(new)' = 0
    <3>1. (\A f : Values(new, f) = {}) /\ ~HasRules(new) /\ DelayOf(new) = 0
      BY <1>1, <1>2, NewRecordIsEmpty
    <3> QED
      BY <1>1, <1>4, <1>6, <3>1, AppendSays
  <2>2. ToSet(<<line.value>>) = {line.value} /\ Len(<<line.value>>) = 1
    BY DEF ToSet
  <2>3. /\ (Values(new, "user-agent"))' = {line.value}
        /\ (Patterns(new, "disallow"))' = {} /\ (Patterns(new, "allow"))' = {}
    <3>1. (Values(new, "user-agent"))' = {line.value}
      BY <1>4, <2>1
    <3>2. (Values(new, "disallow"))' = {} /\ (Values(new, "allow"))' = {}
      BY <1>4, <2>1
    <3> QED
      BY <3>1, <3>2 DEF Patterns
  <2>4. /\ ToSet(rules.disallow) = {} /\ ToSet(rules.allow) = {} /\ rules.delay = 0
    <3>1. Gathers(agents, rules, 0)
      BY <1>3 DEF RobotsIInv, GroupIsLastRecord
    <3>2. Patterns(0, "disallow") = {} /\ Patterns(0, "allow") = {} /\ DelayOf(0) = 0
      BY <1>3, NoRulesSayNothing DEF Patterns
    <3> QED
      BY <3>1, <3>2 DEF Gathers
  <2>5. Len(agents') <= Len(lines')
    BY <1>2, <1>5, <1>7, <2>2
  <2>6. (Gathers(agents, rules, new))'
    BY <1>4, <1>7, <2>1, <2>2, <2>3, <2>4, <2>5 DEF Gathers
  <2>7. new # 0 /\ agents' # << >> /\ ~groupHasRules'
    BY <1>2, <1>4, <1>7
  <2> QED
    BY <1>6, <2>1, <2>6, <2>7 DEF GroupIsLastRecord
<1>11. GroupsAreRecords'
  <2>1. PICK at \in [DOMAIN groups -> Nat] :
            /\ \A g \in DOMAIN groups : at[g] < LastRecord
            /\ \A i \in DOMAIN lines :
                  Owner(i) \in {0, LastRecord} \cup {at[g] : g \in DOMAIN groups}
    BY DEF RobotsIInv, GroupsAreRecords
  <2>2. DOMAIN groups = {}
    <3> SUFFICES ASSUME NEW g \in DOMAIN groups PROVE FALSE
      OBVIOUS
    <3>1. at[g] \in Nat /\ at[g] < 0
      BY <1>3, <2>1
    <3> QED
      BY <3>1
  <2>3. \A i \in 1 .. n : Owner(i) = 0
    BY <1>3, <1>5, <2>1, <2>2
  <2>4. \A i \in DOMAIN lines' : Owner(i)' \in {0, LastRecord'}
    BY <1>5, <1>6, <2>3
  <2>5. DOMAIN groups' = {} /\ at \in [DOMAIN groups' -> Nat]
    BY <1>4, <2>2
  <2> QED
    BY <2>4, <2>5 DEF GroupsAreRecords
<1>12. SitemapsAreTheLines'
  BY <1>1, <1>4, SitemapsStay
<1> QED
  BY <1>8, <1>9, <1>10, <1>11, <1>12 DEF RobotsIInv

\* One more user-agent line of a record that has no rules yet.
LEMMA JoiningAgentStep ==
    ASSUME RobotsIInv, NEW line \in FileLine, Len(lines) < MaxLines,
           UserAgentLine(line), ~groupHasRules, agents # << >>
    PROVE  RobotsIInv'
<1>1. PICK n \in Nat : n = Len(lines)
  BY LastRecordRange
<1>2. PICK last \in 1 .. n : last = LastRecord
  BY <1>1, LastRecordRange DEF RobotsIInv, GroupIsLastRecord
<1>4. /\ line.field = "user-agent" /\ lines' = Append(lines, line)
      /\ groups' = groups /\ rules' = rules /\ groupHasRules' = groupHasRules
      /\ agents' = Append(agents, line.value) /\ sitemaps' = sitemaps
  BY DEF UserAgentLine, StartsGroup, Read
<1>5. /\ lines' \in Seq(FileLine) /\ Len(lines') = n + 1
      /\ DOMAIN lines = 1 .. n /\ DOMAIN lines' = 1 .. n + 1
      /\ \A i \in 1 .. n : lines'[i] = lines[i]
      /\ lines'[n + 1] = line
  BY <1>1, <1>4, AppendShape
<1>6. LastRecord' = last
  BY <1>1, <1>2, <1>4, AppendOwner
<1>7. /\ agents' \in Seq(FileValue) /\ Len(agents') = Len(agents) + 1
      /\ ToSet(agents') = ToSet(agents) \cup {line.value}
  <2>1. line.value \in FileValue /\ agents \in Seq(FileValue)
    BY DEF FileValue, RobotsIInv, RobotsTypeOK
  <2> QED
    BY <1>4, <2>1, AppendElement
<1>8. RobotsTypeOK'
  <2>1. n + 1 <= MaxLines
    <3>1. MaxLines \in Nat
      BY RobotsAssumption
    <3> QED
      BY <1>1, <3>1
  <2> QED
    BY <1>4, <1>5, <1>7, <2>1 DEF RobotsTypeOK, RobotsIInv
<1>9. ~groupHasRules' /\ agents' # << >>
  <2>1. agents \in Seq(FileValue)
    BY DEF RobotsIInv, RobotsTypeOK
  <2> QED
    BY <1>4, <1>7, <2>1
<1>10. NextRecord'
  <2>1. \A i \in DOMAIN lines' : (Is(i, "user-agent"))' => Owner(i)' # 0
    <3>1. LastRecord' # 0
      BY <1>6
    <3> QED
      BY <1>1, <1>4, <3>1, AgentLinesAreOwned
  <2>2. PICK j \in 1 .. n : Is(j, "user-agent") /\ \A k \in j .. n : ~IsRule(k)
    BY <1>1, <1>5 DEF RobotsIInv, NextRecord
  <2>3. (Is(j, "user-agent"))'
    BY <1>5, <2>2 DEF Is
  <2>4. \A k \in j .. n + 1 : ~IsRule(k)'
    <3>1. \A k \in j .. n : ~IsRule(k)'
      BY <1>5, <2>2 DEF IsRule
    <3>2. ~IsRule(n + 1)'
      BY <1>4, <1>5 DEF IsRule
    <3> QED
      BY <1>1, <3>1, <3>2
  <2>5. j \in DOMAIN lines'
    BY <1>5
  <2> QED
    BY <1>5, <1>9, <2>1, <2>3, <2>4, <2>5 DEF NextRecord
<1>11. GroupIsLastRecord'
  <2>1. Gathers(agents, rules, last) /\ ~HasRules(last)
    BY <1>2 DEF RobotsIInv, GroupIsLastRecord
  <2>2. /\ \A f : Values(last, f)' = IF line.field = f THEN Values(last, f) \cup {line.value}
                                     ELSE Values(last, f)
        /\ ~HasRules(last)' /\ DelayOf(last)' = DelayOf(last)
    BY <1>1, <1>4, <1>6, <2>1, AppendSays
  <2>3. /\ (Values(last, "user-agent"))' = Values(last, "user-agent") \cup {line.value}
        /\ (Patterns(last, "disallow"))' = Patterns(last, "disallow")
        /\ (Patterns(last, "allow"))' = Patterns(last, "allow")
    <3>1. (Values(last, "user-agent"))' = Values(last, "user-agent") \cup {line.value}
      BY <1>4, <2>2
    <3>2. /\ (Values(last, "disallow"))' = Values(last, "disallow")
          /\ (Values(last, "allow"))' = Values(last, "allow")
      BY <1>4, <2>2
    <3> QED
      BY <3>1, <3>2 DEF Patterns
  <2>4. Len(agents') <= Len(lines')
    <3>1. Len(agents) <= n /\ Len(agents) \in Nat
      BY <1>1, <2>1 DEF Gathers, RobotsIInv, RobotsTypeOK
    <3> QED
      BY <1>5, <1>7, <3>1
  <2>5. (Gathers(agents, rules, last))'
    BY <1>4, <1>7, <2>1, <2>2, <2>3, <2>4 DEF Gathers
  <2> QED
    BY <1>6, <1>9, <2>2, <2>5 DEF GroupIsLastRecord
<1>12. GroupsAreRecords'
  BY <1>1, <1>2, <1>4, <1>6, GroupsStay
<1>13. SitemapsAreTheLines'
  BY <1>1, <1>4, SitemapsStay
<1> QED
  BY <1>8, <1>10, <1>11, <1>12, <1>13 DEF RobotsIInv

\* A rule belongs to the record being read, and the next user-agent line begins one.
LEMMA RuleStep ==
    ASSUME RobotsIInv, NEW line \in FileLine, Len(lines) < MaxLines, RuleLine(line)
    PROVE  RobotsIInv'
<1>1. PICK n \in Nat : n = Len(lines)
  BY LastRecordRange
<1>2. PICK last \in 0 .. n : last = LastRecord
  BY <1>1, LastRecordRange
<1>3. /\ lines' = Append(lines, line) /\ groupHasRules' = TRUE
      /\ groups' = groups /\ agents' = agents /\ sitemaps' = sitemaps
      /\ line.field \in {"disallow", "allow", "crawl-delay"}
  BY DEF RuleLine, Read
<1>4. line.field # "user-agent" /\ line.field # "sitemap"
  BY <1>3
<1>5. /\ lines' \in Seq(FileLine) /\ Len(lines') = n + 1
      /\ DOMAIN lines = 1 .. n /\ DOMAIN lines' = 1 .. n + 1
      /\ \A i \in 1 .. n : lines'[i] = lines[i]
      /\ lines'[n + 1] = line
  BY <1>1, <1>3, AppendShape
<1>6. LastRecord' = last
  BY <1>1, <1>2, <1>3, <1>4, AppendOwner
<1>7. NextRecord'
  <2>1. \A i \in DOMAIN lines' : (Is(i, "user-agent"))' => Owner(i)' # 0
    BY <1>1, <1>3, <1>4, AgentLinesAreOwned
  <2>2. \A j \in 1 .. n + 1 : n + 1 \in j .. n + 1
    OBVIOUS
  <2>3. IsRule(n + 1)'
    BY <1>3, <1>5 DEF IsRule
  <2>4. \A j \in 1 .. n + 1 : \E k \in j .. n + 1 : IsRule(k)'
    BY <2>2, <2>3
  <2>5. agents = << >> => \A j \in 1 .. n : ~Is(j, "user-agent")
    BY <1>5 DEF RobotsIInv, NextRecord
  <2>6. agents = << >> => \A j \in 1 .. n + 1 : ~(Is(j, "user-agent"))'
    BY <1>4, <1>5, <2>5 DEF Is
  <2> QED
    BY <1>3, <1>5, <2>1, <2>4, <2>6 DEF NextRecord
<1>8. /\ rules \in Rules
      /\ rules.disallow \in Seq(DOMAIN LengthOf) /\ rules.allow \in Seq(DOMAIN LengthOf)
  BY DEF RobotsIInv, RobotsTypeOK, Rules
<1>9. /\ Gathers(agents, rules, last)
      /\ agents = << >> <=> last = 0
  BY <1>2 DEF RobotsIInv, GroupIsLastRecord
<1>10. /\ \A f : Values(last, f)' = IF line.field = f THEN Values(last, f) \cup {line.value}
                                      ELSE Values(last, f)
       /\ HasRules(last)'
       /\ DelayOf(last)' = IF line.field = "crawl-delay" /\ line.value \in DOMAIN SecondsOf
                            THEN SecondsOf[line.value] ELSE DelayOf(last)
  BY <1>1, <1>3, <1>6, AppendSays
<1>11. Len(agents) <= n + 1
  BY <1>1, <1>9 DEF Gathers, RobotsIInv, RobotsTypeOK
<1>12. (Values(last, "user-agent"))' = Values(last, "user-agent")
  BY <1>4, <1>10
<1>13. /\ rules' \in Rules
       /\ ToSet(rules.disallow)' = (Patterns(last, "disallow"))'
       /\ ToSet(rules.allow)' = (Patterns(last, "allow"))'
       /\ rules'.delay = DelayOf(last)'
  <2>1. CASE line.field = "disallow"
    <3>1. rules' = [rules EXCEPT !.disallow = WithPattern(@, line.value)]
      BY <2>1 DEF RuleLine, Read
    <3>2. line.value = "" \/ line.value \in DOMAIN LengthOf
      BY <2>1, RobotsAssumption
    <3>3. /\ WithPattern(rules.disallow, line.value) \in Seq(DOMAIN LengthOf)
          /\ ToSet(WithPattern(rules.disallow, line.value))
                = IF line.value = "" THEN ToSet(rules.disallow)
                  ELSE ToSet(rules.disallow) \cup {line.value}
      BY <1>8, <3>2, PatternIsKept, ZenonT(60)
    <3>4. /\ rules'.disallow = WithPattern(rules.disallow, line.value)
          /\ rules'.allow = rules.allow /\ rules'.delay = rules.delay /\ rules' \in Rules
      BY <1>8, <3>1, <3>3 DEF Rules
    <3>5. /\ (Values(last, "disallow"))' = Values(last, "disallow") \cup {line.value}
          /\ (Values(last, "allow"))' = Values(last, "allow")
          /\ DelayOf(last)' = DelayOf(last)
      BY <1>10, <2>1
    <3> QED
      BY <1>9, <3>3, <3>4, <3>5 DEF Gathers, Patterns
  <2>2. CASE line.field = "allow"
    <3>1. rules' = [rules EXCEPT !.allow = WithPattern(@, line.value)]
      BY <2>2 DEF RuleLine, Read
    <3>2. line.value = "" \/ line.value \in DOMAIN LengthOf
      BY <2>2, RobotsAssumption
    <3>3. /\ WithPattern(rules.allow, line.value) \in Seq(DOMAIN LengthOf)
          /\ ToSet(WithPattern(rules.allow, line.value))
                = IF line.value = "" THEN ToSet(rules.allow)
                  ELSE ToSet(rules.allow) \cup {line.value}
      BY <1>8, <3>2, PatternIsKept, ZenonT(60)
    <3>4. /\ rules'.allow = WithPattern(rules.allow, line.value)
          /\ rules'.disallow = rules.disallow /\ rules'.delay = rules.delay /\ rules' \in Rules
      BY <1>8, <3>1, <3>3 DEF Rules
    <3>5. /\ (Values(last, "allow"))' = Values(last, "allow") \cup {line.value}
          /\ (Values(last, "disallow"))' = Values(last, "disallow")
          /\ DelayOf(last)' = DelayOf(last)
      BY <1>10, <2>2
    <3> QED
      BY <1>9, <3>3, <3>4, <3>5 DEF Gathers, Patterns
  <2>3. CASE line.field = "crawl-delay"
    <3>1. rules' = IF line.value \in DOMAIN SecondsOf
                   THEN [rules EXCEPT !.delay = SecondsOf[line.value]] ELSE rules
      BY <2>3 DEF RuleLine, Read
    <3>2. /\ rules'.disallow = rules.disallow /\ rules'.allow = rules.allow
          /\ rules'.delay = IF line.value \in DOMAIN SecondsOf THEN SecondsOf[line.value]
                            ELSE rules.delay
          /\ rules' \in Rules
      BY <1>8, <3>1 DEF Rules
    <3>3. /\ (Values(last, "allow"))' = Values(last, "allow")
          /\ (Values(last, "disallow"))' = Values(last, "disallow")
      BY <1>10, <2>3
    <3> QED
      BY <1>9, <1>10, <2>3, <3>2, <3>3 DEF Gathers, Patterns
  <2> QED
    BY <1>3, <2>1, <2>2, <2>3
<1>14. RobotsTypeOK'
  <2>1. n + 1 <= MaxLines
    <3>1. MaxLines \in Nat
      BY RobotsAssumption
    <3> QED
      BY <1>1, <3>1
  <2> QED
    BY <1>3, <1>5, <1>13, <2>1 DEF RobotsTypeOK, RobotsIInv
<1>15. GroupIsLastRecord'
  <2>1. (Gathers(agents, rules, last))'
    BY <1>3, <1>5, <1>9, <1>11, <1>12, <1>13 DEF Gathers
  <2> QED
    BY <1>3, <1>6, <1>9, <1>10, <2>1 DEF GroupIsLastRecord
<1>16. GroupsAreRecords'
  BY <1>1, <1>2, <1>3, <1>6, GroupsStay
<1>17. SitemapsAreTheLines'
  BY <1>1, <1>3, <1>4, SitemapsStay
<1> QED
  BY <1>7, <1>14, <1>15, <1>16, <1>17 DEF RobotsIInv

\* A line that says nothing to a group leaves every record what it was.
LEMMA RecordsStay ==
    ASSUME RobotsIInv, NEW n \in Nat, n = Len(lines), NEW line \in FileLine,
           lines' = Append(lines, line), line.field \in {"sitemap", "other"},
           UNCHANGED <<groups, agents, rules, groupHasRules>>
    PROVE  NextRecord' /\ GroupIsLastRecord' /\ GroupsAreRecords'
<1>1. /\ line.field # "user-agent"
      /\ line.field \notin {"disallow", "allow", "crawl-delay"}
  OBVIOUS
<1>2. PICK last \in 0 .. n : last = LastRecord
  BY LastRecordRange
<1>3. /\ Len(lines') = n + 1
      /\ DOMAIN lines = 1 .. n /\ DOMAIN lines' = 1 .. n + 1
      /\ \A i \in 1 .. n : lines'[i] = lines[i]
      /\ lines'[n + 1] = line
  BY AppendShape
<1>4. LastRecord' = last
  BY <1>1, <1>2, AppendOwner
<1>5. NextRecord'
  <2>1. \A i \in DOMAIN lines' : (Is(i, "user-agent"))' => Owner(i)' # 0
    BY <1>1, AgentLinesAreOwned
  <2>2. /\ \A j \in 1 .. n + 1 : (Is(j, "user-agent"))' <=> (j # n + 1 /\ Is(j, "user-agent"))
        /\ \A j \in 1 .. n + 1 : IsRule(j)' <=> (j # n + 1 /\ IsRule(j))
    BY <1>1, <1>3 DEF Is, IsRule
  <2>3. groupHasRules => \A j \in 1 .. n + 1 : (Is(j, "user-agent"))' =>
                             \E k \in j .. n + 1 : IsRule(k)'
    <3> SUFFICES ASSUME groupHasRules, NEW j \in 1 .. n + 1, (Is(j, "user-agent"))'
                 PROVE  \E k \in j .. n + 1 : IsRule(k)'
      OBVIOUS
    <3>1. j \in 1 .. n /\ Is(j, "user-agent")
      BY <2>2
    <3>2. PICK k \in j .. n : IsRule(k)
      BY <1>3, <3>1 DEF RobotsIInv, NextRecord
    <3>3. k \in j .. n + 1 /\ k \in 1 .. n + 1 /\ k # n + 1
      BY <3>1
    <3> QED
      BY <2>2, <3>2, <3>3
  <2>4. agents = << >> => \A j \in 1 .. n + 1 : ~(Is(j, "user-agent"))'
    BY <1>3, <2>2 DEF RobotsIInv, NextRecord
  <2>5. ~groupHasRules /\ agents # << >> =>
            \E j \in 1 .. n + 1 : (Is(j, "user-agent"))' /\ \A k \in j .. n + 1 : ~IsRule(k)'
    <3> SUFFICES ASSUME ~groupHasRules, agents # << >>
                 PROVE  \E j \in 1 .. n + 1 : /\ (Is(j, "user-agent"))'
                                               /\ \A k \in j .. n + 1 : ~IsRule(k)'
      OBVIOUS
    <3>1. PICK j \in 1 .. n : Is(j, "user-agent") /\ \A k \in j .. n : ~IsRule(k)
      BY <1>3 DEF RobotsIInv, NextRecord
    <3>2. j \in 1 .. n + 1 /\ j # n + 1
      OBVIOUS
    <3>3. \A k \in j .. n + 1 : ~IsRule(k)'
      BY <2>2, <3>1
    <3> QED
      BY <2>2, <3>1, <3>2, <3>3
  <2> QED
    BY <1>3, <2>1, <2>3, <2>4, <2>5 DEF NextRecord
<1>6. GroupIsLastRecord'
  <2>1. /\ Gathers(agents, rules, last)
        /\ groupHasRules <=> HasRules(last)
        /\ agents = << >> <=> last = 0
    BY <1>2 DEF RobotsIInv, GroupIsLastRecord
  <2>2. /\ (Values(last, "user-agent"))' = Values(last, "user-agent")
        /\ (Values(last, "disallow"))' = Values(last, "disallow")
        /\ (Values(last, "allow"))' = Values(last, "allow")
        /\ HasRules(last)' <=> HasRules(last)
        /\ DelayOf(last)' = DelayOf(last)
    BY <1>1, <1>4, AppendSays
  <2>3. Len(agents) <= n + 1
    BY <2>1 DEF Gathers, RobotsIInv, RobotsTypeOK
  <2>4. (Gathers(agents, rules, last))'
    BY <1>3, <2>1, <2>2, <2>3 DEF Gathers, Patterns
  <2> QED
    BY <1>4, <2>1, <2>2, <2>4 DEF GroupIsLastRecord
<1>7. GroupsAreRecords'
  BY <1>2, <1>4, GroupsStay
<1> QED
  BY <1>5, <1>6, <1>7

\* A sitemap is kept for the file.
LEMMA SitemapStep ==
    ASSUME RobotsIInv, NEW line \in FileLine, Len(lines) < MaxLines, SitemapLine(line)
    PROVE  RobotsIInv'
<1>1. PICK n \in Nat : n = Len(lines)
  BY LastRecordRange
<1>2. /\ lines' = Append(lines, line) /\ line.field = "sitemap"
      /\ groups' = groups /\ agents' = agents /\ rules' = rules
      /\ groupHasRules' = groupHasRules
      /\ sitemaps' = WithPattern(sitemaps, line.value)
  BY DEF SitemapLine, Read
<1>3. /\ lines' \in Seq(FileLine) /\ Len(lines') = n + 1
      /\ DOMAIN lines = 1 .. n /\ DOMAIN lines' = 1 .. n + 1
      /\ \A i \in 1 .. n : lines'[i] = lines[i]
      /\ lines'[n + 1] = line
  BY <1>1, <1>2, AppendShape
<1>4. /\ sitemaps' \in Seq(FileValue)
      /\ ToSet(sitemaps') = IF line.value = "" THEN ToSet(sitemaps)
                            ELSE ToSet(sitemaps) \cup {line.value}
  <2>1. line.value \in FileValue /\ sitemaps \in Seq(FileValue)
    BY DEF FileValue, RobotsIInv, RobotsTypeOK
  <2>2. /\ WithPattern(sitemaps, line.value) \in Seq(FileValue)
        /\ ToSet(WithPattern(sitemaps, line.value))
              = IF line.value = "" THEN ToSet(sitemaps) ELSE ToSet(sitemaps) \cup {line.value}
    BY <2>1, PatternIsKept, ZenonT(60)
  <2> QED
    BY <1>2, <2>2
<1>5. RobotsTypeOK'
  <2>1. n + 1 <= MaxLines
    <3>1. MaxLines \in Nat
      BY RobotsAssumption
    <3> QED
      BY <1>1, <3>1
  <2> QED
    BY <1>2, <1>3, <1>4, <2>1 DEF RobotsTypeOK, RobotsIInv
<1>6. NextRecord' /\ GroupIsLastRecord' /\ GroupsAreRecords'
  BY <1>1, <1>2, RecordsStay
<1>7. SitemapsAreTheLines'
  <2>1. {lines[i].value : i \in {j \in DOMAIN lines : Is(j, "sitemap")}}'
           = {lines[i].value : i \in {j \in DOMAIN lines : Is(j, "sitemap")}} \cup {line.value}
    <3>1. \A j \in 1 .. n + 1 : (Is(j, "sitemap"))' <=> (j = n + 1 \/ Is(j, "sitemap"))
      BY <1>2, <1>3 DEF Is
    <3>2. {j \in DOMAIN lines : Is(j, "sitemap")}'
             = {j \in DOMAIN lines : Is(j, "sitemap")} \cup {n + 1}
      BY <1>3, <3>1 DEF Is
    <3>3. \A i \in {j \in DOMAIN lines : Is(j, "sitemap")} : lines'[i].value = lines[i].value
      BY <1>3
    <3>4. lines'[n + 1].value = line.value
      BY <1>3
    <3> QED
      BY <3>2, <3>3, <3>4
  <2>2. SitemapsAreTheLines
    BY DEF RobotsIInv
  <2> QED
    BY <1>4, <2>1, <2>2 DEF SitemapsAreTheLines
<1> QED
  BY <1>5, <1>6, <1>7 DEF RobotsIInv

\* Any other line is none of the parser's matters.
LEMMA OtherStep ==
    ASSUME RobotsIInv, NEW line \in FileLine, Len(lines) < MaxLines, OtherLine(line)
    PROVE  RobotsIInv'
<1>1. PICK n \in Nat : n = Len(lines)
  BY LastRecordRange
<1>2. /\ lines' = Append(lines, line) /\ line.field = "other"
      /\ groups' = groups /\ agents' = agents /\ rules' = rules
      /\ groupHasRules' = groupHasRules /\ sitemaps' = sitemaps
  BY DEF OtherLine, Read
<1>3. RobotsTypeOK'
  <2>1. lines' \in Seq(FileLine) /\ Len(lines') = n + 1
    BY <1>1, <1>2, AppendShape
  <2>2. n + 1 <= MaxLines
    <3>1. MaxLines \in Nat
      BY RobotsAssumption
    <3> QED
      BY <1>1, <3>1
  <2> QED
    BY <1>2, <2>1, <2>2 DEF RobotsTypeOK, RobotsIInv
<1>4. NextRecord' /\ GroupIsLastRecord' /\ GroupsAreRecords'
  BY <1>1, <1>2, RecordsStay
<1>5. SitemapsAreTheLines'
  BY <1>1, <1>2, SitemapsStay
<1> QED
  BY <1>3, <1>4, <1>5 DEF RobotsIInv

\* Nothing is read at first.
LEMMA InitRobotsIInv == RobotsInit => RobotsIInv
<1> SUFFICES ASSUME RobotsInit PROVE RobotsIInv
  OBVIOUS
<1>1. /\ lines = << >> /\ groups = << >> /\ agents = << >> /\ rules = NoRules
      /\ groupHasRules = FALSE /\ sitemaps = << >>
      /\ Len(lines) = 0 /\ DOMAIN lines = {} /\ DOMAIN groups = {}
  BY DEF RobotsInit
<1>2. RobotsTypeOK
  <2>1. NoRules \in Rules
    BY DEF NoRules, Rules
  <2>2. MaxLines \in Nat
    BY RobotsAssumption
  <2> QED
    <3>1. \A T : << >> \in Seq(T)
      OBVIOUS
    <3>2. Len(lines) <= MaxLines
      BY <1>1, <2>2
    <3> QED
      BY <1>1, <2>1, <3>1, <3>2 DEF RobotsTypeOK
<1>3. NextRecord
  BY <1>1 DEF NextRecord
<1>4. LastRecord = 0
  BY <1>1, OwnerRange DEF LastRecord
<1>5. GroupIsLastRecord
  <2>1. \A s, f : Record(s, f) = {}
    BY <1>1 DEF Record
  <2>2. /\ \A s, f : Values(s, f) = {} /\ Patterns(s, f) = {}
        /\ \A s : ~HasRules(s) /\ DelayOf(s) = 0
    BY <1>1, <2>1 DEF Values, Patterns, HasRules, DelayOf, Timed
  <2>3. ToSet(<< >>) = {}
    BY DEF ToSet
  <2>4. Gathers(agents, rules, 0)
    <3>1. /\ rules.disallow = << >> /\ rules.allow = << >> /\ rules.delay = 0
          /\ Len(agents) <= Len(lines)
      BY <1>1 DEF NoRules
    <3> QED
      BY <1>1, <2>2, <2>3, <3>1 DEF Gathers
  <2> QED
    BY <1>1, <1>4, <2>2, <2>4 DEF GroupIsLastRecord
<1>6. GroupsAreRecords
  <2>1. << >> \in [DOMAIN groups -> Nat]
    BY <1>1
  <2> QED
    BY <1>1, <2>1 DEF GroupsAreRecords
<1>7. SitemapsAreTheLines
  BY <1>1 DEF SitemapsAreTheLines, ToSet
<1> QED
  BY <1>2, <1>3, <1>5, <1>6, <1>7 DEF RobotsIInv

\* Every line keeps the invariant.
LEMMA NextRobotsIInv == RobotsIInv /\ [RobotsNext]_robotsVars => RobotsIInv'
<1> SUFFICES ASSUME RobotsIInv, [RobotsNext]_robotsVars PROVE RobotsIInv'
  OBVIOUS
<1>1. CASE RobotsNext
  <2>1. PICK line \in FileLine :
            UserAgentLine(line) \/ RuleLine(line) \/ SitemapLine(line) \/ OtherLine(line)
    BY <1>1 DEF RobotsNext
  <2>2. Len(lines) < MaxLines
    BY <1>1 DEF RobotsNext
  <2> QED
    BY <2>1, <2>2, ClosingStep, FirstAgentStep, JoiningAgentStep, RuleStep, SitemapStep,
       OtherStep
<1>2. CASE UNCHANGED robotsVars
  <2>1. /\ lines' = lines /\ groups' = groups /\ agents' = agents /\ rules' = rules
        /\ groupHasRules' = groupHasRules /\ sitemaps' = sitemaps
    BY <1>2 DEF robotsVars
  <2>2. /\ \A i, f : (Is(i, f))' <=> Is(i, f)
        /\ \A i : IsRule(i)' <=> IsRule(i)
    BY <2>1 DEF Is, IsRule
  <2>3. \A i : Begins(i)' <=> Begins(i)
    BY <2>2 DEF Begins
  <2>4. \A i : Owner(i)' = Owner(i)
    BY <2>3 DEF Owner
  <2>5. \A s, f : Record(s, f)' = Record(s, f)
    BY <2>1, <2>2, <2>4 DEF Record
  <2>6. /\ \A s, f : Values(s, f)' = Values(s, f)
        /\ \A s : HasRules(s)' <=> HasRules(s)
        /\ \A s : Timed(s)' = Timed(s)
    BY <2>1, <2>2, <2>4, <2>5 DEF Values, HasRules, Timed
  <2>7. /\ \A s, f : Patterns(s, f)' = Patterns(s, f)
        /\ \A s : DelayOf(s)' = DelayOf(s)
        /\ LastRecord' = LastRecord
    BY <2>1, <2>4, <2>6 DEF Patterns, DelayOf, LastRecord
  <2>8. RobotsTypeOK' /\ NextRecord' /\ SitemapsAreTheLines'
    BY <2>1, <2>2, <2>4 DEF RobotsIInv, RobotsTypeOK, NextRecord, SitemapsAreTheLines
  <2>9. GroupIsLastRecord' /\ GroupsAreRecords'
    BY <2>1, <2>4, <2>6, <2>7 DEF RobotsIInv, GroupIsLastRecord, GroupsAreRecords, Gathers
  <2> QED
    BY <2>8, <2>9 DEF RobotsIInv
<1> QED
  BY <1>1, <1>2

-----------------------------------------------------------------------------
(* The verdict about a path *)

\* What a loop of RobotsRules::allows has kept.
Kept == [length : Nat, allowed : BOOLEAN]

\* One pattern after another.
LEMMA PatternsAreConsidered ==
    ASSUME NEW list \in Seq(DOMAIN LengthOf), NEW start \in Kept, NEW path,
           NEW allowed \in BOOLEAN
    PROVE  \E best \in [0 .. Len(list) -> Kept] :
               /\ best[0] = start
               /\ \A n \in 1 .. Len(list) :
                     best[n] = Consider(best[n - 1], list[n], path, allowed)
               /\ AfterList(list, start, path, allowed) = best[Len(list)]
<1> DEFINE size == Len(list)
           turn == [step \in (1 .. size) \X Kept |->
                        Consider(step[2], list[step[1]], path, allowed)]
           Loop(f) == f = [n \in 0 .. size |->
                             IF n = 0 THEN start
                             ELSE Consider(f[n - 1], list[n], path, allowed)]
<1>1. size \in Nat /\ \A i \in 1 .. size : list[i] \in DOMAIN LengthOf
  OBVIOUS
<1>2. ASSUME NEW x \in Kept, NEW i \in 1 .. size
      PROVE  Consider(x, list[i], path, allowed) \in Kept
  BY <1>1, RobotsAssumption DEF Consider, Kept
<1>3. \A i \in 1 .. size : \A x \in Kept :
          turn[<<i, x>>] \in Kept /\ turn[<<i, x>>] = Consider(x, list[i], path, allowed)
  BY <1>2
<1>4. \E f : Runs(f, size, Kept, start, turn)
  <2> HIDE DEF turn
  <2> QED
    BY <1>1, <1>3, LoopRuns
<1>5. \E f : Loop(f)
  <2>1. PICK f : Runs(f, size, Kept, start, turn)
    BY <1>4
  <2> HIDE DEF turn
  <2>2. /\ f \in [0 .. size -> Kept] /\ f[0] = start
        /\ \A i \in 1 .. size : f[i] = turn[<<i, f[i - 1]>>]
    BY <2>1 DEF Runs
  <2>3. \A i \in 1 .. size : i - 1 \in 0 .. size /\ i \in 0 .. size /\ i # 0
    BY <1>1
  <2>4. \A i \in 1 .. size : f[i] = Consider(f[i - 1], list[i], path, allowed)
    BY <1>3, <2>2, <2>3
  <2>5. \A i \in 0 .. size : i = 0 \/ i \in 1 .. size
    BY <1>1
  <2>6. Loop(f)
    BY <2>2, <2>4, <2>5
  <2> QED
    BY <2>6
<1> DEFINE best == CHOOSE f : Loop(f)
<1>6. Loop(best)
  <2> HIDE DEF Loop
  <2> QED
    BY <1>5
<1>7. AfterList(list, start, path, allowed) = best[size]
  BY DEF AfterList
<1> HIDE DEF best
<1>8. /\ best[0] = start
      /\ \A n \in 1 .. size : best[n] = Consider(best[n - 1], list[n], path, allowed)
      /\ DOMAIN best = 0 .. size
  BY <1>1, <1>6
<1>9. best \in [0 .. size -> Kept]
  <2> DEFINE S == {n \in Nat : n <= size => best[n] \in Kept}
  <2>1. 0 \in S
    BY <1>8
  <2>2. ASSUME NEW n \in Nat, n \in S PROVE n + 1 \in S
    <3> SUFFICES ASSUME n + 1 <= size PROVE best[n + 1] \in Kept
      OBVIOUS
    <3>1. n + 1 \in 1 .. size /\ (n + 1) - 1 = n /\ best[n] \in Kept
      BY <1>1, <2>2
    <3> QED
      BY <1>2, <1>8, <3>1
  <2> HIDE DEF S
  <2>3. Nat \subseteq S
    BY <2>1, <2>2, NatBySteps
  <2>4. \A n \in 0 .. size : best[n] \in Kept
    BY <1>1, <2>3 DEF S
  <2> QED
    BY <1>6, <1>8, <2>4
<1> QED
  BY <1>7, <1>8, <1>9

\* What the patterns of a list leave of what was kept before: the longest one that
\* covers the path has decided, if it is longer.
Decides(list, start, path, allowed, after) ==
    /\ after \in Kept
    /\ after.length >= start.length
    /\ \A p \in ToSet(list) : path \in Covered[p] => LengthOf[p] <= after.length
    /\ \/ after = start
       \/ /\ after.allowed = allowed
          /\ \E p \in ToSet(list) :
                /\ path \in Covered[p] /\ LengthOf[p] = after.length
                /\ LengthOf[p] > start.length

\* AfterList leaves that.
LEMMA LongestDecides ==
    ASSUME NEW list \in Seq(DOMAIN LengthOf), NEW start \in Kept, NEW path,
           NEW allowed \in BOOLEAN
    PROVE  Decides(list, start, path, allowed, AfterList(list, start, path, allowed))
<1>0. PICK after : after = AfterList(list, start, path, allowed)
  OBVIOUS
<1>1. PICK best \in [0 .. Len(list) -> Kept] :
          /\ best[0] = start
          /\ \A n \in 1 .. Len(list) :
                best[n] = Consider(best[n - 1], list[n], path, allowed)
          /\ after = best[Len(list)]
  BY <1>0, PatternsAreConsidered
<1>2. PICK size \in Nat : size = Len(list) /\ DOMAIN list = 1 .. size
  OBVIOUS
<1>3. \A i \in 1 .. size : list[i] \in DOMAIN LengthOf /\ LengthOf[list[i]] \in Nat
  <2>1. \A i \in 1 .. size : list[i] \in DOMAIN LengthOf
    BY <1>2
  <2>2. \A p \in DOMAIN LengthOf : LengthOf[p] \in Nat
    BY RobotsAssumption
  <2> QED
    BY <2>1, <2>2
<1>4. \A n \in 0 .. size : best[n].length \in Nat /\ start.length \in Nat
  BY <1>2 DEF Kept
<1> DEFINE Decided(n) ==
        /\ best[n].length >= start.length
        /\ \A i \in 1 .. n : path \in Covered[list[i]] => LengthOf[list[i]] <= best[n].length
        /\ \/ best[n] = start
           \/ /\ best[n].allowed = allowed
              /\ \E i \in 1 .. n : /\ path \in Covered[list[i]]
                                   /\ LengthOf[list[i]] = best[n].length
                                   /\ LengthOf[list[i]] > start.length
        S == {n \in Nat : n <= size => Decided(n)}
<1>5. 0 \in S
  BY <1>1, <1>4
<1>6. ASSUME NEW n \in Nat, n \in S PROVE n + 1 \in S
  <2> SUFFICES ASSUME n + 1 <= size PROVE Decided(n + 1)
    OBVIOUS
  <2>1. /\ n + 1 \in 1 .. size /\ n + 1 \in 0 .. size /\ n \in 0 .. size
        /\ (n + 1) - 1 = n
        /\ \A i \in 1 .. n + 1 : i \in 1 .. n \/ i = n + 1
        /\ \A i \in 1 .. n : i \in 1 .. n + 1 /\ i \in 1 .. size
    BY <1>2
  <2>2. Decided(n)
    BY <1>6, <2>1
  <2>3. best[n + 1] = Consider(best[n], list[n + 1], path, allowed)
    BY <1>1, <1>2, <2>1
  <2>4. /\ best[n].length \in Nat /\ start.length \in Nat /\ best[n + 1].length \in Nat
        /\ \A i \in 1 .. n + 1 : LengthOf[list[i]] \in Nat
    BY <1>3, <1>4, <2>1
  <2>5. CASE path \in Covered[list[n + 1]] /\ LengthOf[list[n + 1]] > best[n].length
    <3>1. /\ best[n + 1].length = LengthOf[list[n + 1]]
          /\ best[n + 1].allowed = allowed
      BY <2>3, <2>5 DEF Consider
    <3>2. best[n + 1].length >= start.length /\ LengthOf[list[n + 1]] > start.length
      BY <2>2, <2>4, <2>5, <3>1
    <3>3. ASSUME NEW i \in 1 .. n + 1, path \in Covered[list[i]]
          PROVE  LengthOf[list[i]] <= best[n + 1].length
      <4>1. CASE i \in 1 .. n
        <5>1. LengthOf[list[i]] <= best[n].length /\ LengthOf[list[i]] \in Nat
          BY <2>2, <2>4, <3>3, <4>1
        <5> QED
          BY <2>4, <2>5, <3>1, <5>1
      <4>2. CASE i = n + 1
        BY <2>4, <3>1, <4>2
      <4> QED
        BY <2>1, <4>1, <4>2
    <3>4. n + 1 \in 1 .. n + 1
      BY <2>1
    <3> QED
      BY <2>5, <3>1, <3>2, <3>3, <3>4
  <2>6. CASE ~(path \in Covered[list[n + 1]] /\ LengthOf[list[n + 1]] > best[n].length)
    <3>1. best[n + 1] = best[n]
      BY <2>3, <2>6 DEF Consider
    <3>2. ASSUME NEW i \in 1 .. n + 1, path \in Covered[list[i]]
          PROVE  LengthOf[list[i]] <= best[n + 1].length
      <4>1. CASE i \in 1 .. n
        BY <2>2, <3>1, <3>2, <4>1
      <4>2. CASE i = n + 1
        BY <2>4, <2>6, <3>1, <3>2, <4>2
      <4> QED
        BY <2>1, <4>1, <4>2
    <3> QED
      BY <2>1, <2>2, <3>1, <3>2
  <2> QED
    BY <2>5, <2>6
<1> HIDE DEF S
<1>7. Nat \subseteq S
  BY <1>5, <1>6, NatBySteps
<1>8. Decided(size)
  BY <1>2, <1>7 DEF S
<1>9. ToSet(list) = {list[i] : i \in 1 .. size}
  BY <1>2 DEF ToSet
<1>10. after \in Kept
  BY <1>1, <1>2
<1> QED
  BY <1>0, <1>1, <1>2, <1>8, <1>9, <1>10 DEF Decides

\* The two loops together: a path is turned down when a disallow that covers it is
\* at least as long as every allow that does.
LEMMA AllowsIsLongest ==
    ASSUME NEW r \in Rules, NEW path
    PROVE  Allows(r, path) <=>
               \A d \in ToSet(r.disallow) : path \in Covered[d] =>
                   \E a \in ToSet(r.allow) : path \in Covered[a] /\ LengthOf[a] > LengthOf[d]
<1>1. /\ r.disallow \in Seq(DOMAIN LengthOf) /\ r.allow \in Seq(DOMAIN LengthOf)
      /\ [length |-> 0, allowed |-> TRUE] \in Kept
  BY DEF Rules, Kept
<1> DEFINE start == [length |-> 0, allowed |-> TRUE]
<1>2. PICK first : first = AfterList(r.disallow, start, path, FALSE)
  OBVIOUS
<1>3. PICK last : last = AfterList(r.allow, first, path, TRUE)
  OBVIOUS
<1>4. Allows(r, path) = last.allowed
  BY <1>2, <1>3 DEF Allows
<1>5. start \in Kept /\ start.length = 0 /\ start.allowed = TRUE
  BY <1>1
<1> HIDE DEF start
<1>6. Decides(r.disallow, start, path, FALSE, first)
  BY <1>1, <1>2, <1>5, LongestDecides DEF start
<1>7. Decides(r.allow, first, path, TRUE, last)
  <2>1. first \in Kept
    BY <1>6 DEF Decides
  <2> QED
    BY <1>1, <1>3, <2>1, LongestDecides
<1>8. /\ first.length \in Nat /\ last.length \in Nat
      /\ first.allowed \in BOOLEAN /\ last.allowed \in BOOLEAN
  BY <1>6, <1>7 DEF Decides, Kept
<1>9. \A p \in ToSet(r.disallow) \cup ToSet(r.allow) :
          LengthOf[p] \in Nat /\ (LengthOf[p] = 0 => Covered[p] = {})
  <2>1. ToSet(r.disallow) \cup ToSet(r.allow) \subseteq DOMAIN LengthOf
    BY <1>1 DEF ToSet
  <2>2. \A p \in DOMAIN LengthOf : LengthOf[p] \in Nat /\ (LengthOf[p] = 0 => Covered[p] = {})
    BY RobotsAssumption
  <2> QED
    BY <2>1, <2>2
<1>10. ASSUME last.allowed, NEW d \in ToSet(r.disallow), path \in Covered[d]
       PROVE  \E a \in ToSet(r.allow) : path \in Covered[a] /\ LengthOf[a] > LengthOf[d]
  <2>1. LengthOf[d] <= first.length /\ LengthOf[d] \in Nat /\ LengthOf[d] # 0
    BY <1>6, <1>9, <1>10 DEF Decides
  <2>2. first # start
    BY <1>5, <1>8, <2>1
  <2>3. last # first
    BY <1>6, <1>10, <2>2 DEF Decides
  <2>4. PICK a \in ToSet(r.allow) : path \in Covered[a] /\ LengthOf[a] > first.length
    BY <1>7, <2>3 DEF Decides
  <2>5. LengthOf[a] > LengthOf[d]
    BY <1>8, <1>9, <2>1, <2>4
  <2> QED
    BY <2>4, <2>5
<1>11. ASSUME ~last.allowed
       PROVE  \E d \in ToSet(r.disallow) :
                  /\ path \in Covered[d]
                  /\ \A a \in ToSet(r.allow) :
                        path \in Covered[a] => ~(LengthOf[a] > LengthOf[d])
  <2>1. last = first
    BY <1>7, <1>11 DEF Decides
  <2>2. first # start
    BY <1>5, <1>11, <2>1
  <2>3. PICK d \in ToSet(r.disallow) : path \in Covered[d] /\ LengthOf[d] = first.length
    BY <1>6, <2>2 DEF Decides
  <2>4. \A a \in ToSet(r.allow) :
            path \in Covered[a] => LengthOf[a] <= LengthOf[d] /\ LengthOf[a] \in Nat
    BY <1>7, <1>9, <2>1, <2>3 DEF Decides
  <2>5. \A a \in ToSet(r.allow) : path \in Covered[a] => ~(LengthOf[a] > LengthOf[d])
    BY <1>8, <2>3, <2>4
  <2> QED
    BY <2>3, <2>5
<1> QED
  BY <1>4, <1>8, <1>10, <1>11

-----------------------------------------------------------------------------
(* The group that is ours *)

\* The groups of the whole file are the records that have rules, in their order.
Gathered(gs, at) ==
    /\ DOMAIN gs \subseteq Nat /\ at \in [DOMAIN gs -> Nat]
    /\ \A g \in DOMAIN gs :
          /\ gs[g].agents \in Seq(FileValue) /\ gs[g].rules \in Rules
          /\ Gathers(gs[g].agents, gs[g].rules, at[g]) /\ HasRules(at[g])
    /\ \A g, h \in DOMAIN gs : g < h => at[g] < at[h]
    /\ \A s \in Nat \ {0} : HasRules(s) => \E g \in DOMAIN gs : at[g] = s

\* That holds of what the parser has at the end of the file.
LEMMA AllGroupsAreRecords ==
    ASSUME RobotsIInv
    PROVE  \E at : Gathered(AllGroups, at)
<1>1. PICK at \in [DOMAIN groups -> Nat] :
          /\ \A g \in DOMAIN groups :
                /\ Gathers(groups[g].agents, groups[g].rules, at[g])
                /\ HasRules(at[g]) /\ at[g] < LastRecord
          /\ \A g, h \in DOMAIN groups : g < h => at[g] < at[h]
          /\ \A i \in DOMAIN lines :
                Owner(i) \in {0, LastRecord} \cup {at[g] : g \in DOMAIN groups}
  BY DEF RobotsIInv, GroupsAreRecords
<1>2. PICK m \in Nat : m = Len(groups) /\ DOMAIN groups = 1 .. m
  BY DEF RobotsIInv, RobotsTypeOK
<1>3. \A g \in 1 .. m : groups[g].agents \in Seq(FileValue) /\ groups[g].rules \in Rules
  <2> DEFINE Group == [agents : Seq(FileValue), rules : Rules]
  <2>1. groups \in Seq(Group)
    BY DEF RobotsIInv, RobotsTypeOK
  <2>2. \A g \in 1 .. m : groups[g] \in Group
    <3> HIDE DEF Group
    <3> QED
      BY <1>2, <2>1
  <2>3. \A x \in Group : x.agents \in Seq(FileValue) /\ x.rules \in Rules
    OBVIOUS
  <2> HIDE DEF Group
  <2> QED
    BY <2>2, <2>3
<1>4. \A s \in Nat \ {0} : HasRules(s) => s = LastRecord \/ \E g \in 1 .. m : at[g] = s
  BY <1>1, <1>2 DEF HasRules
<1>5. /\ agents \in Seq(FileValue) /\ rules \in Rules /\ LastRecord \in Nat
      /\ Gathers(agents, rules, LastRecord)
      /\ groupHasRules <=> HasRules(LastRecord)
      /\ agents = << >> <=> LastRecord = 0
  BY LastRecordRange DEF RobotsIInv, RobotsTypeOK, GroupIsLastRecord
<1>6. CASE groupHasRules /\ agents # << >>
  <2> DEFINE more == [g \in 1 .. m + 1 |-> IF g = m + 1 THEN LastRecord ELSE at[g]]
  <2>1. AllGroups = Append(groups, [agents |-> agents, rules |-> rules])
    BY <1>6 DEF AllGroups
  <2>2. /\ DOMAIN AllGroups = 1 .. m + 1
        /\ \A g \in 1 .. m : AllGroups[g] = groups[g]
        /\ AllGroups[m + 1] = [agents |-> agents, rules |-> rules]
    <3>1. groups \in Seq([agents : Seq(FileValue), rules : Rules])
      BY DEF RobotsIInv, RobotsTypeOK
    <3>2. [agents |-> agents, rules |-> rules] \in [agents : Seq(FileValue), rules : Rules]
      BY <1>5
    <3> QED
      BY <1>2, <2>1, <3>1, <3>2
  <2>3. /\ more \in [1 .. m + 1 -> Nat] /\ more[m + 1] = LastRecord
        /\ \A g \in 1 .. m : more[g] = at[g]
    BY <1>1, <1>2, <1>5
  <2> HIDE DEF more
  <2>4. \A g \in 1 .. m + 1 : g \in 1 .. m \/ g = m + 1
    OBVIOUS
  <2>5. ASSUME NEW g \in 1 .. m + 1
        PROVE  /\ AllGroups[g].agents \in Seq(FileValue) /\ AllGroups[g].rules \in Rules
               /\ Gathers(AllGroups[g].agents, AllGroups[g].rules, more[g])
               /\ HasRules(more[g])
    <3>1. CASE g = m + 1
      BY <1>5, <1>6, <2>2, <2>3, <3>1
    <3>2. CASE g \in 1 .. m
      BY <1>1, <1>2, <1>3, <2>2, <2>3, <3>2
    <3> QED
      BY <2>4, <3>1, <3>2
  <2>6. \A g, h \in 1 .. m + 1 : g < h => more[g] < more[h]
    <3> SUFFICES ASSUME NEW g \in 1 .. m + 1, NEW h \in 1 .. m + 1, g < h
                 PROVE  more[g] < more[h]
      OBVIOUS
    <3>1. g \in 1 .. m /\ (h \in 1 .. m \/ h = m + 1)
      OBVIOUS
    <3> QED
      BY <1>1, <1>2, <2>3, <3>1
  <2>7. \A s \in Nat \ {0} : HasRules(s) => \E g \in 1 .. m + 1 : more[g] = s
    <3>1. \A g \in 1 .. m : g \in 1 .. m + 1
      OBVIOUS
    <3>2. m + 1 \in 1 .. m + 1
      OBVIOUS
    <3> QED
      BY <1>4, <2>3, <3>1, <3>2
  <2>8. Gathered(AllGroups, more)
    BY <2>2, <2>3, <2>5, <2>6, <2>7 DEF Gathered
  <2> QED
    BY <2>8
<1>7. CASE ~(groupHasRules /\ agents # << >>)
  <2>1. AllGroups = groups
    BY <1>7 DEF AllGroups
  <2>2. \A s \in Nat \ {0} : HasRules(s) => \E g \in 1 .. m : at[g] = s
    BY <1>4, <1>5, <1>7
  <2>3. Gathered(groups, at)
    BY <1>1, <1>2, <1>3, <2>2 DEF Gathered
  <2> QED
    BY <2>1, <2>3
<1> QED
  BY <1>6, <1>7

\* The agents a file names for us are of bounded length.
LEMMA AgentsAreBounded ==
    ASSUME RobotsIInv
    PROVE  \E b \in Nat : \A s : \A a \in Values(s, "user-agent") \cap DOMAIN AgentLength :
               AgentLength[a] \in 0 .. b
<1>1. PICK n \in Nat : n = Len(lines) /\ DOMAIN lines = 1 .. n
  BY DEF RobotsIInv, RobotsTypeOK
<1> DEFINE f == [i \in 1 .. n |-> IF lines[i].value \in DOMAIN AgentLength
                                  THEN AgentLength[lines[i].value] ELSE 0]
<1>2. \A a \in DOMAIN AgentLength : AgentLength[a] \in Nat
  BY RobotsAssumption
<1>3. \A i \in 1 .. n : f[i] \in Nat
  BY <1>2
<1>4. PICK b \in Nat : \A i \in 1 .. n : f[i] <= b
  <2> HIDE DEF f
  <2> QED
    BY <1>3, BoundOf
<1>5. \A i \in 1 .. n : lines[i].value \in DOMAIN AgentLength =>
                            AgentLength[lines[i].value] \in 0 .. b
  BY <1>2, <1>4
<1>6. \A s : \A a \in Values(s, "user-agent") : \E i \in 1 .. n : a = lines[i].value
  BY <1>1 DEF Values, Record
<1> QED
  BY <1>5, <1>6

\* How well a record with rules fits is what its best agent says.
LEMMA FitIsBestAgent ==
    ASSUME RobotsIInv, NEW s
    PROVE  /\ Fit(s) \in Nat
           /\ ~HasRules(s) => Fit(s) = 0
           /\ HasRules(s) => \A a \in Values(s, "user-agent") \cap DOMAIN AgentLength :
                                 1 + AgentLength[a] <= Fit(s)
           /\ Fit(s) # 0 => \E a \in Values(s, "user-agent") \cap DOMAIN AgentLength :
                                 Fit(s) = 1 + AgentLength[a]
<1>1. CASE ~HasRules(s)
  BY <1>1 DEF Fit
<1>2. CASE HasRules(s)
  <2> DEFINE named == Values(s, "user-agent") \cap DOMAIN AgentLength
             fits == {0} \cup {1 + AgentLength[a] : a \in named}
  <2>1. PICK b \in Nat : \A a \in named : AgentLength[a] \in 0 .. b
    BY AgentsAreBounded
  <2>2. \A a \in named : 1 + AgentLength[a] \in 0 .. b + 1
    <3> HIDE DEF named
    <3> QED
      BY <2>1
  <2>3. fits \subseteq 0 .. b + 1 /\ fits # {} /\ b + 1 \in Nat
    <3> HIDE DEF named
    <3> QED
      BY <2>2
  <2>4. Max(fits) \in fits /\ \A k \in fits : k <= Max(fits)
    <3> HIDE DEF fits
    <3> QED
      BY <2>3, MaxOf
  <2>5. Fit(s) = Max(fits)
    BY <1>2 DEF Fit
  <2> HIDE DEF named
  <2>6. /\ Max(fits) \in Nat
        /\ \A a \in named : 1 + AgentLength[a] <= Max(fits)
        /\ Max(fits) # 0 => \E a \in named : Max(fits) = 1 + AgentLength[a]
    <3>1. Max(fits) \in 0 .. b + 1
      BY <2>3, <2>4
    <3>2. \A a \in named : 1 + AgentLength[a] \in fits
      OBVIOUS
    <3>3. \A a \in named : 1 + AgentLength[a] <= Max(fits)
      <4> HIDE DEF fits
      <4> QED
        BY <2>4, <3>2
    <3>4. Max(fits) = 0 \/ \E a \in named : Max(fits) = 1 + AgentLength[a]
      BY <2>4
    <3> HIDE DEF fits
    <3> QED
      BY <3>1, <3>3, <3>4
  <2> QED
    BY <1>2, <2>5, <2>6 DEF named
<1> QED
  BY <1>1, <1>2

\* A candidate is an agent of a record that fits, and a record that fits has one of
\* its best agents among the candidates.
LEMMA CandidatesFit ==
    ASSUME RobotsIInv, NEW gs, NEW at, Gathered(gs, at)
    PROVE  /\ \A c \in Candidates(gs) :
                 /\ c[1] \in DOMAIN gs /\ Specificity(gs, c) \in Nat
                 /\ 1 + Specificity(gs, c) <= Fit(at[c[1]]) /\ at[c[1]] # 0
           /\ \A g \in DOMAIN gs : Fit(at[g]) # 0 =>
                 \E c \in Candidates(gs) : c[1] = g /\ Fit(at[g]) = 1 + Specificity(gs, c)
<1>1. \A g \in DOMAIN gs :
          /\ gs[g].agents \in Seq(FileValue) /\ HasRules(at[g])
          /\ Len(gs[g].agents) <= Len(lines)
          /\ ToSet(gs[g].agents) = Values(at[g], "user-agent")
  BY DEF Gathered, Gathers
<1>2. ASSUME NEW c \in Candidates(gs)
      PROVE  /\ c[1] \in DOMAIN gs /\ Specificity(gs, c) \in Nat
             /\ 1 + Specificity(gs, c) <= Fit(at[c[1]]) /\ at[c[1]] # 0
  <2>1. /\ c[1] \in DOMAIN gs /\ c[2] \in DOMAIN gs[c[1]].agents
        /\ gs[c[1]].agents[c[2]] \in DOMAIN AgentLength
    BY DEF Candidates
  <2>2. PICK a : a = gs[c[1]].agents[c[2]]
    OBVIOUS
  <2>3. a \in Values(at[c[1]], "user-agent") \cap DOMAIN AgentLength
    BY <1>1, <2>1, <2>2 DEF ToSet
  <2>4. Specificity(gs, c) = AgentLength[a] /\ AgentLength[a] \in Nat
    BY <2>1, <2>2, RobotsAssumption DEF Specificity
  <2>5. 1 + AgentLength[a] <= Fit(at[c[1]])
    BY <1>1, <2>1, <2>3, FitIsBestAgent
  <2>6. at[c[1]] # 0
    BY <2>3 DEF Values, Record, RobotsIInv, NextRecord
  <2> QED
    BY <2>1, <2>4, <2>5, <2>6
<1>3. ASSUME NEW g \in DOMAIN gs, Fit(at[g]) # 0
      PROVE  \E c \in Candidates(gs) : c[1] = g /\ Fit(at[g]) = 1 + Specificity(gs, c)
  <2>1. PICK a \in Values(at[g], "user-agent") \cap DOMAIN AgentLength :
            Fit(at[g]) = 1 + AgentLength[a]
    BY <1>3, FitIsBestAgent
  <2>2. PICK i \in DOMAIN gs[g].agents : gs[g].agents[i] = a
    BY <1>1, <2>1 DEF ToSet
  <2>3. i \in 1 .. MaxLines
    <3>1. Len(lines) <= MaxLines /\ Len(lines) \in Nat
      BY DEF RobotsIInv, RobotsTypeOK
    <3>2. MaxLines \in Nat
      BY RobotsAssumption
    <3>3. i \in 1 .. Len(gs[g].agents) /\ Len(gs[g].agents) \in Nat
      BY <1>1, <2>2
    <3>4. Len(gs[g].agents) <= Len(lines)
      BY <1>1
    <3> QED
      BY <3>1, <3>2, <3>3, <3>4
  <2>4. <<g, i>> \in Candidates(gs)
    BY <2>1, <2>2, <2>3 DEF Candidates
  <2>5. Specificity(gs, <<g, i>>) = AgentLength[a]
    BY <2>2 DEF Specificity
  <2> QED
    BY <2>1, <2>4, <2>5
<1> QED
  BY <1>2, <1>3

\* Is c the best of the candidates: none is longer, and of equals none is earlier.
BestCandidate(gs, c) ==
    \A d \in Candidates(gs) :
        \/ Specificity(gs, d) < Specificity(gs, c)
        \/ Specificity(gs, d) = Specificity(gs, c) /\ c[1] <= d[1]

\* If there is a candidate there is a best one, and it is selected.
LEMMA BestIsSelected ==
    ASSUME RobotsIInv, NEW gs, NEW at, Gathered(gs, at)
    PROVE  /\ Candidates(gs) = {} => SelectGroup(gs) = NoRules
           /\ Candidates(gs) # {} =>
                 \E c \in Candidates(gs) :
                     BestCandidate(gs, c) /\ SelectGroup(gs) = gs[c[1]].rules
<1>1. ASSUME Candidates(gs) # {} PROVE \E c \in Candidates(gs) : BestCandidate(gs, c)
  <2> DEFINE lengths == {Specificity(gs, c) : c \in Candidates(gs)}
  <2>1. PICK b \in Nat : \A s : \A a \in Values(s, "user-agent") \cap DOMAIN AgentLength :
                             AgentLength[a] \in 0 .. b
    BY AgentsAreBounded
  <2>2. \A c \in Candidates(gs) : Specificity(gs, c) \in 0 .. b
    <3> SUFFICES ASSUME NEW c \in Candidates(gs) PROVE Specificity(gs, c) \in 0 .. b
      OBVIOUS
    <3>1. /\ c[1] \in DOMAIN gs /\ c[2] \in DOMAIN gs[c[1]].agents
          /\ gs[c[1]].agents[c[2]] \in DOMAIN AgentLength
      BY DEF Candidates
    <3>2. ToSet(gs[c[1]].agents) = Values(at[c[1]], "user-agent")
      BY <3>1 DEF Gathered, Gathers
    <3>3. gs[c[1]].agents[c[2]] \in Values(at[c[1]], "user-agent") \cap DOMAIN AgentLength
      BY <3>1, <3>2 DEF ToSet
    <3> QED
      BY <2>1, <3>3 DEF Specificity
  <2>3. lengths \subseteq 0 .. b /\ lengths # {}
    BY <1>1, <2>2
  <2>4. PICK most \in lengths : \A k \in lengths : k <= most
    <3> HIDE DEF lengths
    <3> QED
      BY <2>3, GreatestOf
  <2>5. /\ most \in 0 .. b /\ \E c \in Candidates(gs) : Specificity(gs, c) = most
        /\ \A c \in Candidates(gs) : Specificity(gs, c) <= most
    BY <2>3, <2>4
  <2> HIDE DEF lengths
  <2> DEFINE firsts == {c[1] : c \in {d \in Candidates(gs) : Specificity(gs, d) = most}}
  <2>6. firsts \subseteq Nat /\ firsts # {}
    <3>1. \A c \in Candidates(gs) : c[1] \in Nat
      BY CandidatesFit DEF Gathered
    <3> QED
      BY <2>5, <3>1
  <2>7. PICK least \in firsts : \A g \in firsts : least <= g
    <3> HIDE DEF firsts
    <3> QED
      BY <2>6, LeastOf
  <2>8. PICK c \in Candidates(gs) : Specificity(gs, c) = most /\ c[1] = least
    BY <2>7
  <2>9. ASSUME NEW d \in Candidates(gs)
        PROVE  \/ Specificity(gs, d) < Specificity(gs, c)
               \/ Specificity(gs, d) = Specificity(gs, c) /\ c[1] <= d[1]
    <3>1. CASE Specificity(gs, d) = most
      BY <2>7, <2>8, <3>1
    <3>2. CASE Specificity(gs, d) # most
      <4>1. Specificity(gs, d) <= most /\ Specificity(gs, d) \in Nat /\ most \in Nat
        BY <2>2, <2>5
      <4> QED
        BY <2>8, <3>2, <4>1
    <3> QED
      BY <3>1, <3>2
  <2> QED
    BY <2>9 DEF BestCandidate
<1> DEFINE chosen == CHOOSE c \in Candidates(gs) : BestCandidate(gs, c)
<1>2. Candidates(gs) # {} => chosen \in Candidates(gs) /\ BestCandidate(gs, chosen)
  BY <1>1
<1>3. SelectGroup(gs) = IF Candidates(gs) = {} THEN NoRules ELSE gs[chosen[1]].rules
  BY DEF SelectGroup, BestCandidate
<1> HIDE DEF chosen
<1> QED
  BY <1>2, <1>3

\* What is gathered answers for the file as a whole.
LEMMA RobotsIInvIsEnough == RobotsIInv => RulesAreTheFiles
<1> SUFFICES ASSUME RobotsIInv PROVE RulesAreTheFiles
  OBVIOUS
<1>1. PICK gs : gs = AllGroups
  OBVIOUS
<1>2. PICK at : Gathered(gs, at)
  BY <1>1, AllGroupsAreRecords
<1>3. PICK kept : kept = SelectGroup(gs)
  OBVIOUS
<1>4. \A g \in DOMAIN gs : at[g] \in Nat /\ HasRules(at[g]) /\ g \in Nat
  BY <1>2 DEF Gathered
<1> DEFINE Records == {Owner(i) : i \in DOMAIN lines} \ {0}
<1>5. \A s \in Records : s \in Nat \ {0}
  <2>1. \A i \in DOMAIN lines : Owner(i) \in Nat
    BY OwnerRange DEF RobotsIInv, RobotsTypeOK
  <2> QED
    BY <2>1
<1>6. \A s : Fit(s) \in Nat /\ (Fit(s) # 0 => HasRules(s))
  BY FitIsBestAgent
<1>7. \A s : s \in Ours <=> /\ s \in Records /\ Fit(s) > 0
                            /\ \A t \in Records : Fit(t) < Fit(s) \/ (Fit(t) = Fit(s) /\ s <= t)
  BY DEF Ours
<1>8. \A s \in Records : Fit(s) # 0 =>
          \E c \in Candidates(gs) :
              /\ c[1] \in DOMAIN gs /\ s = at[c[1]] /\ Fit(s) = 1 + Specificity(gs, c)
  <2> SUFFICES ASSUME NEW s \in Records, Fit(s) # 0
               PROVE  \E c \in Candidates(gs) :
                          /\ c[1] \in DOMAIN gs /\ s = at[c[1]]
                          /\ Fit(s) = 1 + Specificity(gs, c)
    OBVIOUS
  <2>1. HasRules(s) /\ s \in Nat \ {0}
    BY <1>5, <1>6
  <2>2. PICK g \in DOMAIN gs : at[g] = s
    BY <1>2, <2>1 DEF Gathered
  <2> QED
    BY <1>2, <2>2, CandidatesFit
<1> HIDE DEF Records
<1>9. CASE Candidates(gs) = {}
  <2>1. kept = NoRules
    BY <1>2, <1>3, <1>9, BestIsSelected
  <2>2. Ours = {}
    <3>1. \A s \in Records : ~(Fit(s) > 0)
      BY <1>6, <1>8, <1>9
    <3> QED
      BY <1>7, <3>1
  <2>3. ASSUME NEW path \in Path PROVE Allows(kept, path) <=> PathIsOpen(path)
    <3>1. NoRules \in Rules
      BY DEF NoRules, Rules
    <3>2. ToSet(NoRules.disallow) = {}
      BY DEF NoRules, ToSet
    <3>3. Allows(NoRules, path)
      BY <3>1, <3>2, AllowsIsLongest
    <3> QED
      BY <2>1, <2>2, <3>3 DEF PathIsOpen
  <2> QED
    BY <1>1, <1>3, <2>1, <2>2, <2>3 DEF RulesAreTheFiles, RobotsIInv, SitemapsAreTheLines
<1>10. CASE Candidates(gs) # {}
  <2>1. PICK c \in Candidates(gs) : BestCandidate(gs, c) /\ kept = gs[c[1]].rules
    BY <1>2, <1>3, <1>10, BestIsSelected
  <2>2. PICK ours : ours = at[c[1]]
    OBVIOUS
  <2>3. /\ c[1] \in DOMAIN gs /\ Specificity(gs, c) \in Nat
        /\ 1 + Specificity(gs, c) <= Fit(ours) /\ ours \in Nat \ {0} /\ HasRules(ours)
    BY <1>2, <1>4, <2>2, CandidatesFit
  <2>4. ours \in Records
    BY <2>3 DEF HasRules, Records
  <2>5. PICK best \in Candidates(gs) :
            /\ best[1] \in DOMAIN gs /\ ours = at[best[1]]
            /\ Fit(ours) = 1 + Specificity(gs, best)
    BY <1>6, <1>8, <2>3, <2>4
  <2>6. Fit(ours) = 1 + Specificity(gs, c) /\ Fit(ours) > 0
    <3>1. Specificity(gs, best) \in Nat /\ Specificity(gs, best) <= Specificity(gs, c)
      BY <1>2, <2>1, <2>3, <2>5, CandidatesFit DEF BestCandidate
    <3> QED
      BY <1>6, <2>3, <2>5, <3>1
  <2>7. ASSUME NEW t \in Records
        PROVE  Fit(t) < Fit(ours) \/ (Fit(t) = Fit(ours) /\ ours <= t)
    <3>1. CASE Fit(t) = 0
      BY <1>6, <2>6, <3>1
    <3>2. CASE Fit(t) # 0
      <4>1. PICK d \in Candidates(gs) :
                /\ d[1] \in DOMAIN gs /\ t = at[d[1]] /\ Fit(t) = 1 + Specificity(gs, d)
        BY <1>8, <3>2
      <4>2. /\ Specificity(gs, d) \in Nat
            /\ \/ Specificity(gs, d) < Specificity(gs, c)
               \/ Specificity(gs, d) = Specificity(gs, c) /\ c[1] <= d[1]
        BY <1>2, <2>1, CandidatesFit DEF BestCandidate
      <4>3. CASE Specificity(gs, d) < Specificity(gs, c)
        BY <2>3, <2>6, <4>1, <4>2, <4>3
      <4>4. CASE Specificity(gs, d) = Specificity(gs, c) /\ c[1] <= d[1]
        <5>1. c[1] \in Nat /\ d[1] \in Nat /\ at[c[1]] \in Nat /\ at[d[1]] \in Nat
          BY <1>4, <2>3, <4>1
        <5>2. c[1] = d[1] \/ c[1] < d[1]
          BY <4>4, <5>1
        <5>3. at[c[1]] = at[d[1]] \/ at[c[1]] < at[d[1]]
          BY <1>2, <2>3, <4>1, <5>2 DEF Gathered
        <5> QED
          BY <2>2, <2>6, <4>1, <4>4, <5>1, <5>3
      <4> QED
        BY <4>2, <4>3, <4>4
    <3> QED
      BY <3>1, <3>2
  <2>8. Ours = {ours}
    <3>1. ours \in Ours
      BY <1>7, <2>4, <2>6, <2>7
    <3>2. ASSUME NEW s \in Ours PROVE s = ours
      <4>1. /\ s \in Records /\ s \in Nat /\ Fit(s) \in Nat /\ Fit(ours) \in Nat /\ ours \in Nat
            /\ Fit(ours) < Fit(s) \/ (Fit(ours) = Fit(s) /\ s <= ours)
        BY <1>5, <1>6, <1>7, <2>3, <2>4
      <4>2. Fit(s) < Fit(ours) \/ (Fit(s) = Fit(ours) /\ ours <= s)
        BY <2>7, <4>1
      <4> QED
        BY <4>1, <4>2
    <3> QED
      BY <3>1, <3>2
  <2>9. /\ kept \in Rules
        /\ ToSet(kept.disallow) = Patterns(ours, "disallow")
        /\ ToSet(kept.allow) = Patterns(ours, "allow")
        /\ kept.delay = DelayOf(ours)
    BY <1>2, <2>1, <2>2, <2>3 DEF Gathered, Gathers
  <2>10. ASSUME NEW path \in Path PROVE Allows(kept, path) <=> PathIsOpen(path)
    BY <2>8, <2>9, AllowsIsLongest DEF PathIsOpen
  <2> QED
    BY <1>1, <1>3, <2>8, <2>9, <2>10 DEF RulesAreTheFiles, RobotsIInv, SitemapsAreTheLines
<1> QED
  BY <1>9, <1>10

-----------------------------------------------------------------------------
(***************************************************************************)
(* robots.rs, parse: the closed groups are the records of the file, and    *)
(* the open one is its last.                                               *)
(***************************************************************************)
THEOREM SpecRobotsIInv == RobotsSpec => []RobotsIInv
<1> QED
  BY InitRobotsIInv, NextRobotsIInv, PTL DEF RobotsSpec

(***************************************************************************)
(* robots.rs, parse, select_group and RobotsRules::allows: the rules that  *)
(* are kept decide every path as the file read as a whole does, for files  *)
(* of any lines in any order.                                              *)
(***************************************************************************)
THEOREM SpecRulesAreTheFiles == RobotsSpec => []RulesAreTheFiles
<1> QED
  BY SpecRobotsIInv, RobotsIInvIsEnough, PTL

-----------------------------------------------------------------------------
(* Ways to cut a path *)

\* What a way to cut says of one character of the pattern.
LEMMA CutAt ==
    ASSUME NEW p, NEW t \in Seq(Letter), NEW n \in Nat, NEW cut \in Cuts(p, t, n),
           NEW i \in 1 .. n
    PROVE  /\ cut[i - 1] \in 0 .. Len(t) /\ cut[i] \in 0 .. Len(t)
           /\ p[i] = Star => cut[i - 1] <= cut[i]
           /\ p[i] # Star => cut[i] = cut[i - 1] + 1 /\ t[cut[i]] = p[i]
<1>1. i - 1 \in 0 .. n /\ i \in 0 .. n
  OBVIOUS
<1> QED
  BY <1>1 DEF Cuts

\* Nothing is cut off before the first character.
LEMMA CutNone ==
    ASSUME NEW p, NEW t \in Seq(Letter)
    PROVE  [k \in 0 .. 0 |-> 0] \in Cuts(p, t, 0)
<1>1. Len(t) \in Nat /\ 0 .. 0 = {0} /\ 1 .. 0 = {}
  OBVIOUS
<1> QED
  BY <1>1 DEF Cuts

\* One more character of the pattern, cut at m.
LEMMA CutOneMore ==
    ASSUME NEW p, NEW t \in Seq(Letter), NEW n \in Nat, NEW cut \in Cuts(p, t, n),
           NEW m \in 0 .. Len(t),
           IF p[n + 1] = Star THEN cut[n] <= m
           ELSE m = cut[n] + 1 /\ t[m] = p[n + 1]
    PROVE  \E longer \in Cuts(p, t, n + 1) : longer[n + 1] = m
<1> DEFINE longer == [k \in 0 .. n + 1 |-> IF k = n + 1 THEN m ELSE cut[k]]
<1>1. /\ cut \in [0 .. n -> 0 .. Len(t)] /\ cut[0] = 0
      /\ \A i \in 1 .. n : IF p[i] = Star THEN cut[i - 1] <= cut[i]
                           ELSE cut[i] = cut[i - 1] + 1 /\ t[cut[i]] = p[i]
  BY DEF Cuts
<1>2. longer \in [0 .. n + 1 -> 0 .. Len(t)]
  BY <1>1
<1>3. longer[n + 1] = m /\ \A k \in 0 .. n : longer[k] = cut[k]
  OBVIOUS
<1> HIDE DEF longer
<1>4. ASSUME NEW i \in 1 .. n + 1
      PROVE  IF p[i] = Star THEN longer[i - 1] <= longer[i]
             ELSE longer[i] = longer[i - 1] + 1 /\ t[longer[i]] = p[i]
  <2>1. CASE i = n + 1
    BY <1>3, <2>1
  <2>2. CASE i # n + 1
    <3>1. i \in 1 .. n /\ i \in 0 .. n /\ i - 1 \in 0 .. n
      BY <2>2
    <3> QED
      BY <1>1, <1>3, <3>1
  <2> QED
    BY <2>1, <2>2
<1>5. longer[0] = 0
  BY <1>1, <1>3
<1> QED
  BY <1>2, <1>3, <1>4, <1>5 DEF Cuts

\* A star at the end may be given more.
LEMMA StarTakesMore ==
    ASSUME NEW p, NEW t \in Seq(Letter), NEW n \in Nat \ {0}, p[n] = Star,
           NEW cut \in Cuts(p, t, n), NEW m \in 0 .. Len(t), cut[n] <= m
    PROVE  \E wider \in Cuts(p, t, n) : wider[n] = m
<1> DEFINE wider == [cut EXCEPT ![n] = m]
<1>1. /\ cut \in [0 .. n -> 0 .. Len(t)] /\ cut[0] = 0
      /\ \A i \in 1 .. n : IF p[i] = Star THEN cut[i - 1] <= cut[i]
                           ELSE cut[i] = cut[i - 1] + 1 /\ t[cut[i]] = p[i]
  BY DEF Cuts
<1>2. /\ wider \in [0 .. n -> 0 .. Len(t)]
      /\ wider[n] = m /\ \A k \in 0 .. n - 1 : wider[k] = cut[k]
  BY <1>1
<1> HIDE DEF wider
<1>3. ASSUME NEW i \in 1 .. n
      PROVE  IF p[i] = Star THEN wider[i - 1] <= wider[i]
             ELSE wider[i] = wider[i - 1] + 1 /\ t[wider[i]] = p[i]
  <2>1. CASE i = n
    <3>1. n - 1 \in 0 .. n - 1 /\ n - 1 \in 0 .. n /\ n \in 1 .. n /\ n \in 0 .. n
      OBVIOUS
    <3>2. cut[n - 1] <= cut[n] /\ wider[n - 1] = cut[n - 1]
      BY <1>1, <1>2, <3>1
    <3>3. cut[n - 1] \in Nat /\ cut[n] \in Nat
      BY <1>1, <3>1
    <3> QED
      BY <1>2, <2>1, <3>2, <3>3
  <2>2. CASE i # n
    <3>1. i \in 0 .. n - 1 /\ i - 1 \in 0 .. n - 1
      BY <2>2
    <3> QED
      BY <1>1, <1>2, <3>1
  <2> QED
    BY <2>1, <2>2
<1>4. wider[0] = 0
  BY <1>1, <1>2
<1> QED
  BY <1>2, <1>3, <1>4 DEF Cuts

-----------------------------------------------------------------------------
(* The steps of the loop *)

\* Nothing is consumed at first, which is the only way.
LEMMA InitGlobIInv == GlobInit => GlobIInv
<1> SUFFICES ASSUME GlobInit PROVE GlobIInv
  OBVIOUS
<1>1. PICK k \in 0 .. MaxPattern, l \in 0 .. MaxText :
          pattern \in [1 .. k -> Letter \cup {Star}] /\ text \in [1 .. l -> Letter]
  BY DEF GlobInit, GlobBegin, SeqUpTo
<1>2. /\ anchored \in BOOLEAN /\ verdict = "running"
      /\ patternAt = 0 /\ pathAt = 0 /\ starAt = 0 /\ resumeAt = 0
  BY DEF GlobInit, GlobBegin
<1>3. pattern \in Seq(Letter \cup {Star}) /\ text \in Seq(Letter)
  BY <1>1, GlobAssumption
<1>4. Len(pattern) \in Nat /\ Len(text) \in Nat
  BY <1>3
<1>5. GlobTypeOK
  BY <1>2, <1>3, <1>4 DEF GlobTypeOK
<1>6. Reached
  BY <1>2, <1>3, CutNone DEF Reached
<1>7. Leftmost
  BY <1>2, <1>4 DEF Leftmost, Cuts
<1>8. GlobIsSound
  BY <1>2, <1>4 DEF GlobIsSound
<1> QED
  BY <1>5, <1>6, <1>7, <1>8 DEF GlobIInv

\* A star begins: the way so far is a way up to the star.
LEMMA TakeStarStep ==
    ASSUME GlobIInv, verdict = "running", TakeStar
    PROVE  GlobIInv'
<1> USE DEF GlobIInv, GlobTypeOK
<1>1. /\ patternAt < Len(pattern) /\ pattern[patternAt + 1] = Star
      /\ starAt' = patternAt + 1 /\ resumeAt' = pathAt
      /\ patternAt' = patternAt + 1 /\ pathAt' = pathAt
      /\ pattern' = pattern /\ text' = text /\ anchored' = anchored
      /\ verdict' = "running"
  BY DEF TakeStar, AtStar, arguments
<1>2. Len(pattern) \in Nat /\ Len(text) \in Nat
  OBVIOUS
<1>3. GlobTypeOK'
  BY <1>1, <1>2
<1>4. Reached'
  <2>1. PICK cut \in Cuts(pattern, text, patternAt) : cut[patternAt] = pathAt
    BY DEF Reached
  <2>2. \E longer \in Cuts(pattern, text, patternAt + 1) : longer[patternAt + 1] = pathAt
    <3>1. patternAt \in Nat /\ pathAt \in 0 .. Len(text) /\ cut[patternAt] <= pathAt
      BY <1>2, <2>1
    <3> QED
      BY <1>1, <2>1, <3>1, CutOneMore
  <2> QED
    BY <1>1, <2>2 DEF Reached
<1>5. Leftmost'
  <2> SUFFICES ASSUME NEW cut \in Cuts(pattern, text, Len(pattern))
               PROVE  cut[patternAt + 1] >= pathAt
    BY <1>1, <1>3 DEF Leftmost
  <2>1. cut[patternAt] >= pathAt
    BY DEF Leftmost
  <2>2. patternAt + 1 \in 1 .. Len(pattern)
    BY <1>1, <1>2
  <2>3. /\ cut[patternAt] \in Nat /\ cut[patternAt + 1] \in Nat
        /\ cut[patternAt] <= cut[patternAt + 1]
    <3>1. (patternAt + 1) - 1 = patternAt /\ Len(pattern) \in Nat
      BY <1>2
    <3>2. /\ cut[(patternAt + 1) - 1] \in 0 .. Len(text)
          /\ cut[patternAt + 1] \in 0 .. Len(text)
          /\ cut[(patternAt + 1) - 1] <= cut[patternAt + 1]
      BY <1>1, <2>2, <3>1, CutAt
    <3> QED
      BY <3>1, <3>2
  <2> QED
    BY <2>1, <2>3
<1>6. GlobIsSound'
  BY <1>1, <1>2, <1>3 DEF GlobIsSound
<1> QED
  BY <1>3, <1>4, <1>5, <1>6

\* A letter matches: the way so far goes on, and so must every other.
LEMMA ConsumeStep ==
    ASSUME GlobIInv, verdict = "running", Consume
    PROVE  GlobIInv'
<1> USE DEF GlobIInv, GlobTypeOK
<1>1. /\ patternAt < Len(pattern) /\ pathAt < Len(text)
      /\ pattern[patternAt + 1] # Star
      /\ pattern[patternAt + 1] = text[pathAt + 1]
      /\ starAt' = starAt /\ resumeAt' = resumeAt
      /\ patternAt' = patternAt + 1 /\ pathAt' = pathAt + 1
      /\ pattern' = pattern /\ text' = text /\ anchored' = anchored
      /\ verdict' = "running"
  BY DEF Consume, AtStar, AtMatch, arguments
<1>2. /\ Len(pattern) \in Nat /\ Len(text) \in Nat /\ patternAt \in Nat
      /\ pathAt + 1 \in 0 .. Len(text) /\ patternAt + 1 \in 1 .. Len(pattern)
      /\ (patternAt + 1) - 1 = patternAt
  BY <1>1
<1>3. GlobTypeOK'
  BY <1>1, <1>2
<1>4. Reached'
  <2>1. PICK cut \in Cuts(pattern, text, patternAt) : cut[patternAt] = pathAt
    BY DEF Reached
  <2>2. \E longer \in Cuts(pattern, text, patternAt + 1) :
            longer[patternAt + 1] = pathAt + 1
    BY <1>1, <1>2, <2>1, CutOneMore
  <2> QED
    BY <1>1, <2>2 DEF Reached
<1>5. Leftmost'
  <2> SUFFICES ASSUME NEW cut \in Cuts(pattern, text, Len(pattern))
               PROVE  /\ cut[starAt] >= resumeAt /\ cut[patternAt + 1] >= pathAt + 1
                      /\ cut[starAt] = resumeAt => cut[patternAt + 1] = pathAt + 1
    BY <1>1, <1>3 DEF Leftmost
  <2>1. /\ cut[starAt] >= resumeAt /\ cut[patternAt] >= pathAt
        /\ cut[starAt] = resumeAt => cut[patternAt] = pathAt
    BY DEF Leftmost
  <2>2. /\ cut[(patternAt + 1) - 1] \in 0 .. Len(text)
        /\ cut[patternAt + 1] = cut[(patternAt + 1) - 1] + 1
    BY <1>1, <1>2, CutAt
  <2> QED
    BY <1>2, <2>1, <2>2
<1>6. GlobIsSound'
  BY <1>1, <1>2, <1>3 DEF GlobIsSound
<1> QED
  BY <1>3, <1>4, <1>5, <1>6

\* The pattern is used up: the way so far cuts all of it.  It is turned down only
\* if it is anchored short of the end, and without a star there is no other.
LEMMA ExhaustedStep ==
    ASSUME GlobIInv, verdict = "running", Exhausted
    PROVE  GlobIInv'
<1> USE DEF GlobIInv, GlobTypeOK
<1>1. /\ patternAt = Len(pattern)
      /\ verdict' = IF anchored /\ pathAt < Len(text) THEN "no match" ELSE "match"
      /\ UNCHANGED <<pattern, text, anchored, patternAt, pathAt, starAt, resumeAt>>
  BY DEF Exhausted, arguments
<1>2. Len(pattern) \in Nat /\ Len(text) \in Nat
  OBVIOUS
<1>3. GlobTypeOK'
  BY <1>1
<1>4. Reached' /\ Leftmost'
  BY <1>1 DEF Reached, Leftmost
<1>5. ASSUME verdict' = "match"
      PROVE  Covers(pattern, text, anchored)
  <2>1. PICK cut \in Cuts(pattern, text, patternAt) : cut[patternAt] = pathAt
    BY DEF Reached
  <2>2. anchored => pathAt = Len(text)
    BY <1>1, <1>2, <1>5
  <2> QED
    BY <1>1, <2>1, <2>2 DEF Covers
<1>6. ASSUME verdict' = "no match",
             ~anchored \/ \A i \in DOMAIN pattern : pattern[i] # Star
      PROVE  ~Covers(pattern, text, anchored)
  <2>1. anchored /\ pathAt < Len(text)
    BY <1>1, <1>6
  <2>2. starAt = 0 /\ resumeAt = 0
    <3>1. starAt # 0 => starAt \in DOMAIN pattern /\ pattern[starAt] = Star
      BY <1>2 DEF Reached
    <3>2. starAt = 0
      BY <1>6, <2>1, <3>1
    <3> QED
      BY <3>2 DEF Reached
  <2> SUFFICES ASSUME NEW cut \in Cuts(pattern, text, Len(pattern))
               PROVE  cut[Len(pattern)] # Len(text)
    BY <2>1 DEF Covers
  <2>3. cut[0] = 0
    BY DEF Cuts
  <2>4. cut[Len(pattern)] = pathAt
    BY <1>1, <2>2, <2>3 DEF Leftmost
  <2>5. pathAt \in Nat /\ pathAt # Len(text)
    BY <1>2, <2>1
  <2> QED
    BY <2>4, <2>5
<1>7. GlobIsSound'
  BY <1>1, <1>2, <1>5, <1>6 DEF GlobIsSound
<1> QED
  BY <1>3, <1>4, <1>7

\* No way to cut the pattern gives its last star the path only up to resumeAt:
\* the letter that stopped the loop is in every such way.
LEMMA StoppedMeansFurther ==
    ASSUME GlobIInv, ~AtStar, ~AtMatch, patternAt < Len(pattern),
           NEW cut \in Cuts(pattern, text, Len(pattern))
    PROVE  cut[starAt] > resumeAt
<1>0. /\ pattern \in Seq(Letter \cup {Star}) /\ text \in Seq(Letter)
      /\ patternAt \in 0 .. Len(pattern) /\ pathAt \in 0 .. Len(text)
      /\ starAt \in 0 .. patternAt /\ resumeAt \in 0 .. pathAt
      /\ patternAt < Len(pattern) /\ Leftmost
  BY DEF GlobIInv, GlobTypeOK
<1>1. /\ Len(pattern) \in Nat /\ Len(text) \in Nat /\ patternAt \in Nat
      /\ patternAt + 1 \in 1 .. Len(pattern) /\ (patternAt + 1) - 1 = patternAt
      /\ starAt \in 0 .. Len(pattern) /\ resumeAt \in Nat
  BY <1>0
<1>2. /\ cut[starAt] >= resumeAt
      /\ cut[starAt] = resumeAt => cut[patternAt] = pathAt
  BY <1>0 DEF Leftmost
<1>3. pattern[patternAt + 1] # Star
  BY <1>0 DEF AtStar
<1>4. /\ cut[(patternAt + 1) - 1] \in 0 .. Len(text)
      /\ cut[patternAt + 1] \in 0 .. Len(text)
      /\ cut[patternAt + 1] = cut[(patternAt + 1) - 1] + 1
      /\ text[cut[patternAt + 1]] = pattern[patternAt + 1]
  BY <1>0, <1>1, <1>3, CutAt
<1>5. cut[patternAt] # pathAt
  <2> SUFFICES ASSUME cut[patternAt] = pathAt PROVE FALSE
    OBVIOUS
  <2>1. pathAt < Len(text) /\ text[pathAt + 1] = pattern[patternAt + 1]
    BY <1>0, <1>1, <1>4
  <2> QED
    BY <1>0, <2>1 DEF AtMatch
<1>6. cut[starAt] \in 0 .. Len(text)
  BY <1>1 DEF Cuts
<1> QED
  BY <1>1, <1>2, <1>5, <1>6

\* The star is given one character more, or there is no way left.
LEMMA BacktrackStep ==
    ASSUME GlobIInv, verdict = "running", Backtrack
    PROVE  GlobIInv'
<1> USE DEF GlobIInv, GlobTypeOK
<1>1. /\ ~AtStar /\ ~AtMatch /\ patternAt < Len(pattern)
      /\ UNCHANGED <<pattern, text, anchored, starAt>>
  BY DEF Backtrack, arguments
<1>2. /\ Len(pattern) \in Nat /\ Len(text) \in Nat
      /\ starAt \in 0 .. Len(pattern) /\ resumeAt \in 0 .. Len(text)
      /\ resumeAt + 1 > Len(text) \/ resumeAt + 1 <= Len(text)
      /\ ~(resumeAt + 1 > Len(text) /\ resumeAt + 1 <= Len(text))
  OBVIOUS
<1>3. \A cut \in Cuts(pattern, text, Len(pattern)) :
          cut[starAt] > resumeAt /\ cut[starAt] \in 0 .. Len(text) /\ cut[0] = 0
  BY <1>1, <1>2, StoppedMeansFurther DEF Cuts
<1>4. CASE starAt = 0 \/ resumeAt + 1 > Len(text)
  <2>1. verdict' = "no match" /\ UNCHANGED <<patternAt, pathAt, resumeAt>>
    BY <1>4 DEF Backtrack
  <2>2. GlobTypeOK' /\ Reached' /\ Leftmost'
    BY <1>1, <2>1 DEF Reached, Leftmost
  <2>3. Cuts(pattern, text, Len(pattern)) = {}
    <3>1. starAt = 0 => resumeAt = 0
      BY DEF Reached
    <3> QED
      BY <1>2, <1>3, <1>4, <3>1
  <2>4. ~Covers(pattern, text, anchored)
    BY <2>3 DEF Covers
  <2>5. GlobIsSound'
    BY <1>1, <1>2, <2>1, <2>4 DEF GlobIsSound
  <2> QED
    BY <2>2, <2>5
<1>5. CASE starAt # 0 /\ resumeAt + 1 <= Len(text)
  <2>1. /\ resumeAt' = resumeAt + 1 /\ patternAt' = starAt
        /\ pathAt' = resumeAt + 1 /\ verdict' = "running"
    <3>1. ~(starAt = 0 \/ resumeAt + 1 > Len(text))
      BY <1>2, <1>5
    <3> QED
      BY <3>1 DEF Backtrack
  <2>2. GlobTypeOK'
    BY <1>1, <1>2, <1>5, <2>1
  <2>3. Reached'
    <3>1. PICK cut \in Cuts(pattern, text, starAt) : cut[starAt] = resumeAt
      BY DEF Reached
    <3>2. pattern[starAt] = Star
      BY <1>5 DEF Reached
    <3>3. /\ starAt \in Nat \ {0} /\ resumeAt + 1 \in 0 .. Len(text)
          /\ cut[starAt] <= resumeAt + 1
      BY <1>2, <1>5, <3>1
    <3>4. \E wider \in Cuts(pattern, text, starAt) : wider[starAt] = resumeAt + 1
      BY <3>2, <3>3, StarTakesMore
    <3> QED
      BY <1>1, <1>5, <2>1, <3>2, <3>4 DEF Reached
  <2>4. Leftmost'
    <3> SUFFICES ASSUME NEW cut \in Cuts(pattern, text, Len(pattern))
                 PROVE  cut[starAt] >= resumeAt + 1
      BY <1>1, <2>1 DEF Leftmost
    <3> QED
      BY <1>2, <1>3
  <2>5. GlobIsSound'
    BY <1>1, <2>1, <2>2 DEF GlobIsSound
  <2> QED
    BY <2>2, <2>3, <2>4, <2>5
<1> QED
  BY <1>2, <1>4, <1>5

\* Every turn of the loop keeps the invariant.
LEMMA NextGlobIInv == GlobIInv /\ [GlobNext]_globVars => GlobIInv'
<1>1. CASE UNCHANGED globVars
  BY <1>1 DEF globVars, GlobIInv, GlobTypeOK, Reached, Leftmost, GlobIsSound
<1> QED
  BY <1>1, TakeStarStep, ConsumeStep, ExhaustedStep, BacktrackStep DEF GlobNext

-----------------------------------------------------------------------------
(***************************************************************************)
(* robots.rs, glob_matches: the loop keeps a way to cut the path, and no   *)
(* way to cut it is further left.                                          *)
(***************************************************************************)
THEOREM SpecGlobIInv == GlobSpec => []GlobIInv
<1> QED
  BY InitGlobIInv, NextGlobIInv, PTL DEF GlobSpec

(***************************************************************************)
(* robots.rs, glob_matches: what it accepts is covered, and what it        *)
(* rejects is not unless the pattern has both a star and `$', for patterns *)
(* and paths of any length.                                                *)
(***************************************************************************)
THEOREM SpecGlobIsSound == GlobSpec => []GlobIsSound
<1>1. GlobIInv => GlobIsSound
  BY DEF GlobIInv
<1> QED
  BY <1>1, SpecGlobIInv, PTL

-----------------------------------------------------------------------------
(* Sitemaps *)

Symbol == Value \cup {Opening, Closing, TagEnd}

\* An opening of a tag is followed by the end of the tag, or by the next record
\* where it was cut short.
Sound(s) ==
    \A p \in DOMAIN s : s[p] = Opening /\ p + 1 \in DOMAIN s => s[p + 1] \in {Opening, TagEnd}
Piece(s) == s \in Seq(Symbol) /\ s # << >> /\ s[1] = Opening /\ Sound(s)

LEMMA SymbolsDiffer ==
    /\ Opening # Closing /\ Opening # TagEnd /\ Closing # TagEnd
    /\ Opening \notin Value /\ Closing \notin Value /\ TagEnd \notin Value
BY SitemapAssumption DEF Opening, Closing, TagEnd

LEMMA PieceJoins ==
    ASSUME NEW s \in Seq(Symbol), Sound(s), NEW t, Piece(t)
    PROVE  s \o t \in Seq(Symbol) /\ Sound(s \o t)
<1>1. PICK m \in Nat : m = Len(s) /\ DOMAIN s = 1 .. m
  OBVIOUS
<1>2. t \in Seq(Symbol) /\ t # << >> /\ t[1] = Opening /\ Sound(t)
  BY DEF Piece
<1>3. PICK n \in Nat : n = Len(t) /\ DOMAIN t = 1 .. n
  BY <1>2
<1>4. n # 0
  BY <1>2, <1>3
<1>5. PICK u : u = s \o t
  OBVIOUS
<1>6. u \in Seq(Symbol) /\ DOMAIN u = 1 .. m + n
  BY <1>1, <1>2, <1>3, <1>5
<1>7. \A p \in 1 .. m : u[p] = s[p]
  BY <1>1, <1>2, <1>3, <1>5
<1>8. \A p \in 1 .. n : u[m + p] = t[p]
  BY <1>1, <1>2, <1>3, <1>5
<1>9. ASSUME NEW p \in 1 .. m + n, u[p] = Opening, p + 1 \in 1 .. m + n
      PROVE  u[p + 1] \in {Opening, TagEnd}
  <2>1. CASE p + 1 \in 1 .. m
    <3>1. p \in 1 .. m /\ u[p] = s[p] /\ u[p + 1] = s[p + 1]
      BY <1>7, <2>1
    <3> QED
      BY <1>1, <1>9, <2>1, <3>1 DEF Sound
  <2>2. CASE p = m
    <3>1. u[p + 1] = t[1]
      BY <1>4, <1>8, <2>2
    <3> QED
      BY <1>2, <3>1
  <2>3. CASE p > m
    <3>1. PICK q \in 1 .. n : p = m + q
      <4>1. p - m \in 1 .. n /\ p = m + (p - m)
        BY <2>3
      <4> QED
        BY <4>1
    <3>2. q + 1 \in 1 .. n /\ p + 1 = m + (q + 1)
      BY <1>9, <3>1
    <3>3. u[p] = t[q] /\ u[p + 1] = t[q + 1]
      BY <1>8, <3>1, <3>2
    <3> QED
      BY <1>2, <1>3, <1>9, <3>2, <3>3 DEF Sound
  <2> QED
    BY <2>1, <2>2, <2>3
<1> QED
  BY <1>5, <1>6, <1>9 DEF Sound

LEMMA PiecesJoin ==
    ASSUME NEW n \in Nat, NEW seqs, Len(seqs) = n, n = 0 => seqs = << >>,
           \A i \in 1 .. n : Piece(seqs[i])
    PROVE  FlattenSeq(seqs) \in Seq(Symbol) /\ Sound(FlattenSeq(seqs))
<1>1. \A i \in 1 .. n : seqs[i] \in Seq(Symbol)
  BY DEF Piece
<1>2. PICK f : Flattens(f, n, Symbol, seqs)
  BY <1>1, FlattenLoop
<1>3. /\ f \in [0 .. n -> Seq(Symbol)] /\ f[0] = << >>
      /\ \A i \in 1 .. n : f[i] = f[i - 1] \o seqs[i]
      /\ FlattenSeq(seqs) = f[n]
  BY <1>2 DEF Flattens
<1> DEFINE S == {m \in Nat : m <= n => Sound(f[m])}
<1>4. 0 \in S
  <2>1. Sound(<< >>)
    BY DEF Sound
  <2> QED
    BY <1>3, <2>1
<1>5. ASSUME NEW m \in Nat, m \in S PROVE m + 1 \in S
  <2> SUFFICES ASSUME m + 1 <= n PROVE Sound(f[m + 1])
    OBVIOUS
  <2>1. m + 1 \in 1 .. n /\ (m + 1) - 1 = m /\ m \in 0 .. n /\ m <= n
    OBVIOUS
  <2>2. Sound(f[m])
    BY <1>5, <2>1
  <2>3. f[m] \in Seq(Symbol) /\ f[m + 1] = f[m] \o seqs[m + 1]
    BY <1>3, <2>1
  <2>4. Sound(f[m] \o seqs[m + 1])
    BY <2>1, <2>2, <2>3, PieceJoins
  <2> QED
    BY <2>3, <2>4
<1> HIDE DEF S
<1>6. n \in S
  BY <1>4, <1>5, NatBySteps
<1>7. Sound(f[n])
  BY <1>6 DEF S
<1> QED
  BY <1>3, <1>7

\* The documents of ScanInit.
LEMMA RecordsArePieces ==
    ASSUME NEW v \in Value
    PROVE  Piece(Good(v)) /\ \A record \in Damaged(v) : Piece(record)
<1>0. {v, Opening, Closing, TagEnd} \subseteq Symbol
  BY DEF Symbol
<1>1. Piece(<<Opening, TagEnd, v, Closing, TagEnd>>)
  BY <1>0, SymbolsDiffer DEF Piece, Sound
<1>2. Piece(<<Opening, TagEnd, v>>)
  BY <1>0, SymbolsDiffer DEF Piece, Sound
<1>3. Piece(<<Opening>>)
  BY <1>0 DEF Piece, Sound
<1>4. Piece(<<Opening, TagEnd>> \o Good(v))
  <2>1. <<Opening, TagEnd>> \in Seq(Symbol) /\ Sound(<<Opening, TagEnd>>)
    BY <1>0, SymbolsDiffer DEF Sound
  <2>2. Piece(Good(v))
    BY <1>1 DEF Good
  <2>3. PICK s : s = <<Opening, TagEnd>>
    OBVIOUS
  <2>4. PICK t : t = Good(v)
    OBVIOUS
  <2>5. s \o t \in Seq(Symbol) /\ Sound(s \o t)
    BY <2>1, <2>2, <2>3, <2>4, PieceJoins
  <2>6. s \in Seq(Symbol) /\ t \in Seq(Symbol) /\ Len(s) = 2 /\ s[1] = Opening
    BY <2>1, <2>2, <2>3, <2>4 DEF Piece
  <2>7. s \o t # << >> /\ (s \o t)[1] = Opening
    BY <2>6
  <2> QED
    BY <2>3, <2>4, <2>5, <2>7 DEF Piece
<1> QED
  BY <1>1, <1>2, <1>3, <1>4 DEF Good, Damaged

LEMMA DocumentIsSound == ScanInit => document \in Seq(Symbol) /\ Sound(document)
<1> SUFFICES ASSUME ScanInit PROVE document \in Seq(Symbol) /\ Sound(document)
  OBVIOUS
<1>1. PICK n \in 0 .. MaxRecords : \E records \in RecordsOf(n) :
          LET whole == FlattenSeq(records)
          IN  \/ \E cut \in 0 .. Len(whole) : document = SubSeq(whole, 1, cut)
              \/ \E k \in 1 .. n, v \in Value : \E record \in Damaged(v) :
                    document = FlattenSeq([records EXCEPT ![k] = record])
  BY DEF ScanInit
<1>2. PICK records \in RecordsOf(n) :
        \/ \E cut \in 0 .. Len(FlattenSeq(records)) : document = SubSeq(FlattenSeq(records), 1, cut)
        \/ \E k \in 1 .. n, v \in Value : \E record \in Damaged(v) :
              document = FlattenSeq([records EXCEPT ![k] = record])
  BY <1>1
<1>3. n \in Nat
  BY SitemapAssumption
<1>4. /\ records \in [1 .. n -> {Good(v) : v \in Value}]
      /\ \A i \in 1 .. n : Piece(records[i])
  <2>1. records \in [1 .. n -> {Good(v) : v \in Value}]
    BY DEF RecordsOf
  <2>2. \A i \in 1 .. n : \E v \in Value : records[i] = Good(v)
    BY <2>1
  <2> QED
    BY <2>1, <2>2, RecordsArePieces
<1>5. ASSUME NEW seqs, DOMAIN seqs = 1 .. n, seqs = [i \in 1 .. n |-> seqs[i]],
             \A i \in 1 .. n : Piece(seqs[i])
      PROVE  FlattenSeq(seqs) \in Seq(Symbol) /\ Sound(FlattenSeq(seqs))
  <2>1. Len(seqs) = n /\ (n = 0 => seqs = << >>)
    BY <1>3, <1>5
  <2> QED
    BY <1>3, <1>5, <2>1, PiecesJoin
<1>6. CASE \E cut \in 0 .. Len(FlattenSeq(records)) : document = SubSeq(FlattenSeq(records), 1, cut)
  <2>1. PICK whole : whole = FlattenSeq(records)
    OBVIOUS
  <2>2. whole \in Seq(Symbol) /\ Sound(whole)
    BY <1>4, <1>5, <2>1
  <2>3. PICK cut \in 0 .. Len(whole) : document = SubSeq(whole, 1, cut)
    BY <1>6, <2>1
  <2>4. /\ document \in Seq(Symbol) /\ DOMAIN document = 1 .. cut
        /\ \A p \in 1 .. cut : p \in DOMAIN whole /\ document[p] = whole[p]
    BY <2>2, <2>3
  <2> QED
    BY <2>2, <2>4 DEF Sound
<1>7. CASE \E k \in 1 .. n, v \in Value : \E record \in Damaged(v) :
              document = FlattenSeq([records EXCEPT ![k] = record])
  <2>1. PICK k \in 1 .. n : \E v \in Value : \E record \in Damaged(v) :
              document = FlattenSeq([records EXCEPT ![k] = record])
    BY <1>7
  <2>2. PICK v \in Value : \E record \in Damaged(v) :
              document = FlattenSeq([records EXCEPT ![k] = record])
    BY <2>1
  <2>3. PICK record \in Damaged(v) : document = FlattenSeq([records EXCEPT ![k] = record])
    BY <2>2
  <2>4. Piece(record)
    BY RecordsArePieces
  <2>5. PICK seqs : seqs = [records EXCEPT ![k] = record]
    OBVIOUS
  <2>6. /\ DOMAIN seqs = 1 .. n /\ seqs = [i \in 1 .. n |-> seqs[i]]
        /\ \A i \in 1 .. n : Piece(seqs[i])
    BY <1>4, <2>4, <2>5
  <2> QED
    BY <1>5, <2>3, <2>5, <2>6
<1> QED
  BY <1>2, <1>6, <1>7

\* The first place of a symbol after another.
LEMMA FindIs ==
    ASSUME document \in Seq(Symbol), NEW size \in Nat, size = Len(document),
           NEW n \in Nat, NEW symbol, NEW r, r = FindFrom(n, symbol)
    PROVE  \/ r = 0 /\ \A i \in n + 1 .. size : document[i] # symbol
           \/ /\ r \in n + 1 .. size /\ document[r] = symbol
              /\ \A i \in n + 1 .. r - 1 : document[i] # symbol
<1> DEFINE places == {i \in n + 1 .. size : document[i] = symbol}
           first == CHOOSE i \in places : \A j \in places : i <= j
<1>1. r = IF places = {} THEN 0 ELSE first
  BY DEF FindFrom
<1>2. places \subseteq Nat
  OBVIOUS
<1>3. CASE places = {}
  BY <1>1, <1>3
<1>4. CASE places # {}
  <2>1. \E i \in places : \A j \in places : i <= j
    <3> HIDE DEF places
    <3> QED
      BY <1>2, <1>4, LeastOf
  <2>2. first \in places /\ \A j \in places : first <= j
    <3> HIDE DEF places
    <3> QED
      BY <2>1
  <2>3. r \in places /\ \A j \in places : r <= j
    BY <1>1, <1>4, <2>2
  <2>4. r \in n + 1 .. size /\ document[r] = symbol
    BY <2>3
  <2>5. ASSUME NEW i \in n + 1 .. r - 1, document[i] = symbol PROVE FALSE
    <3>1. i \in places
      BY <2>4, <2>5
    <3>2. r <= i
      BY <2>3, <3>1
    <3> QED
      BY <2>4, <3>2
  <2> QED
    BY <2>4, <2>5
<1> QED
  BY <1>3, <1>4

\* The end of a tag follows its opening, or one after it.
LEMMA TagEndFollows ==
    ASSUME document \in Seq(Symbol), Sound(document), NEW size \in Nat, size = Len(document),
           NEW a \in 1 .. size, document[a] = Opening, NEW b \in a + 1 .. size,
           \A i \in a + 1 .. b - 1 : document[i] # TagEnd
    PROVE  document[b - 1] = Opening
<1> DEFINE Others == {p \in a .. b - 1 : document[p] # Opening}
<1> SUFFICES ASSUME Others # {} PROVE FALSE
  <2>1. b - 1 \in a .. b - 1
    OBVIOUS
  <2> QED
    BY <2>1
<1>1. PICK p \in Others : \A q \in Others : p <= q
  <2>1. Others \subseteq Nat
    OBVIOUS
  <2> HIDE DEF Others
  <2> QED
    BY <2>1, LeastOf
<1>2. p \in a .. b - 1 /\ document[p] # Opening
  BY <1>1
<1>3. p # a
  BY <1>2
<1>4. p - 1 \in a .. b - 1 /\ p - 1 \in Nat /\ (p - 1) + 1 = p /\ ~(p <= p - 1)
  BY <1>2, <1>3
<1>5. document[p - 1] = Opening
  <2>1. p - 1 \notin Others
    BY <1>1, <1>4
  <2> QED
    BY <1>4, <2>1
<1>6. PICK q : q = p - 1
  OBVIOUS
<1>7. q \in DOMAIN document /\ q + 1 = p /\ p \in DOMAIN document /\ document[q] = Opening
  BY <1>2, <1>4, <1>5, <1>6
<1>8. document[p] \in {Opening, TagEnd}
  BY <1>7 DEF Sound
<1>9. document[p] # TagEnd
  BY <1>2, <1>3
<1> QED
  BY <1>2, <1>8, <1>9

\* What is passed over has one record, the one that is taken, or none.
IsRecord(i) == Whole(i) /\ ~Swallowed(i)
PassedOver(n) == n = 0 \/ (n + 1 \in DOMAIN document /\ document[n + 1] = Closing)

LEMMA RecordIsFound ==
    ASSUME document \in Seq(Symbol), Sound(document), NEW size \in Nat, size = Len(document),
           NEW n \in 0 .. size, PassedOver(n),
           NEW opening, opening = FindFrom(n, Opening),
           NEW tagEnd, tagEnd = FindFrom(opening, TagEnd),
           NEW closing, closing = FindFrom(tagEnd, Closing),
           NEW i \in n + 1 .. size, Whole(i)
    PROVE  /\ opening # 0 /\ tagEnd # 0 /\ closing # 0 /\ closing <= i + 1
           /\ closing = i + 1 => tagEnd = i - 1 \/ Swallowed(i)
<1>1. /\ i > 2 /\ i < size /\ document[i - 2] = Opening /\ document[i - 1] = TagEnd
      /\ document[i] \in Value /\ document[i + 1] = Closing
  BY DEF Whole
<1>2. n \in Nat /\ i \in Nat /\ i - 2 \in 1 .. size /\ i - 1 \in 1 .. size /\ i + 1 \in 1 .. size
  BY <1>1
<1>3. n < i - 2
  <2>1. n # 0 => document[n + 1] = Closing
    BY DEF PassedOver
  <2>2. (n + 1 # i - 2 /\ n + 1 # i - 1 /\ n + 1 # i) \/ n = 0
    BY <1>1, <2>1, SymbolsDiffer
  <2> QED
    BY <1>1, <1>2, <2>2
<1>4. opening \in n + 1 .. i - 2 /\ document[opening] = Opening
  <2>1. \/ opening = 0 /\ \A k \in n + 1 .. size : document[k] # Opening
        \/ /\ opening \in n + 1 .. size /\ document[opening] = Opening
           /\ \A k \in n + 1 .. opening - 1 : document[k] # Opening
    BY <1>2, FindIs
  <2>2. i - 2 \in n + 1 .. size
    BY <1>2, <1>3
  <2>3. opening \in n + 1 .. size /\ \A k \in n + 1 .. opening - 1 : document[k] # Opening
    BY <1>1, <2>1, <2>2
  <2>4. ~(i - 2 < opening)
    <3> SUFFICES ASSUME i - 2 < opening PROVE FALSE
      OBVIOUS
    <3>1. i - 2 \in n + 1 .. opening - 1
      BY <1>2, <1>3, <2>3
    <3> QED
      BY <1>1, <2>3, <3>1
  <2> QED
    BY <1>2, <2>1, <2>3, <2>4
<1>5. opening \in Nat /\ opening # 0
  BY <1>2, <1>4
<1>6. /\ tagEnd \in opening + 1 .. i - 1 /\ document[tagEnd] = TagEnd
      /\ \A k \in opening + 1 .. tagEnd - 1 : document[k] # TagEnd
  <2>1. \/ tagEnd = 0 /\ \A k \in opening + 1 .. size : document[k] # TagEnd
        \/ /\ tagEnd \in opening + 1 .. size /\ document[tagEnd] = TagEnd
           /\ \A k \in opening + 1 .. tagEnd - 1 : document[k] # TagEnd
    BY <1>5, FindIs
  <2>2. i - 1 \in opening + 1 .. size
    BY <1>2, <1>4
  <2>3. /\ tagEnd \in opening + 1 .. size /\ document[tagEnd] = TagEnd
        /\ \A k \in opening + 1 .. tagEnd - 1 : document[k] # TagEnd
    BY <1>1, <2>1, <2>2
  <2>4. ~(i - 1 < tagEnd)
    <3> SUFFICES ASSUME i - 1 < tagEnd PROVE FALSE
      OBVIOUS
    <3>1. i - 1 \in opening + 1 .. tagEnd - 1
      BY <1>2, <1>4, <2>3, SMTT(30)
    <3> QED
      BY <1>1, <2>3, <3>1
  <2> QED
    BY <1>2, <2>3, <2>4
<1>7. tagEnd \in Nat /\ tagEnd # 0
  BY <1>5, <1>6
<1>8. /\ closing \in tagEnd + 1 .. i + 1
      /\ \A k \in tagEnd + 1 .. closing - 1 : document[k] # Closing
  <2>1. \/ closing = 0 /\ \A k \in tagEnd + 1 .. size : document[k] # Closing
        \/ /\ closing \in tagEnd + 1 .. size /\ document[closing] = Closing
           /\ \A k \in tagEnd + 1 .. closing - 1 : document[k] # Closing
    BY <1>7, FindIs
  <2>2. i + 1 \in tagEnd + 1 .. size
    BY <1>2, <1>6
  <2>3. closing \in tagEnd + 1 .. size /\ \A k \in tagEnd + 1 .. closing - 1 : document[k] # Closing
    BY <1>1, <2>1, <2>2
  <2>4. ~(i + 1 < closing)
    <3> SUFFICES ASSUME i + 1 < closing PROVE FALSE
      OBVIOUS
    <3>1. i + 1 \in tagEnd + 1 .. closing - 1
      BY <1>2, <1>6, <2>3, SMTT(30)
    <3> QED
      BY <1>1, <2>3, <3>1
  <2> QED
    BY <1>2, <2>3, <2>4
<1>9. ASSUME closing = i + 1, tagEnd # i - 1 PROVE Swallowed(i)
  <2>1. document[tagEnd - 1] = Opening
    <3>1. opening \in 1 .. size /\ tagEnd \in opening + 1 .. size
      BY <1>2, <1>4, <1>6
    <3> QED
      BY <1>4, <1>6, <3>1, TagEndFollows
  <2>2. tagEnd # i - 2
    BY <1>1, <1>6, SymbolsDiffer
  <2>3. tagEnd - 1 \in 1 .. i - 3 /\ (tagEnd - 1) + 1 = tagEnd
    BY <1>2, <1>4, <1>6, <1>9, <2>2, SMTT(30)
  <2>4. PICK d : d = tagEnd - 1
    OBVIOUS
  <2>5. \A j \in d .. i : j = d \/ j = tagEnd \/ j \in tagEnd + 1 .. closing - 1
    <3>1. tagEnd \in Nat /\ i \in Nat /\ closing = i + 1 /\ d = tagEnd - 1
      BY <1>2, <1>7, <1>9, <2>4
    <3> QED
      BY <3>1
  <2>6. \A j \in d .. i : document[j] # Closing
    BY <1>6, <1>8, <2>1, <2>4, <2>5, SymbolsDiffer
  <2>7. d \in 1 .. i - 3 /\ document[d] = Opening /\ document[d + 1] = TagEnd
    BY <1>6, <2>1, <2>3, <2>4
  <2> QED
    BY <2>6, <2>7 DEF Swallowed
<1> QED
  BY <1>2, <1>5, <1>7, <1>8, <1>9

\* What the next record leaves to be found: what it is, and nothing before it.
LEMMA RecordIsTaken ==
    ASSUME document \in Seq(Symbol), Sound(document), NEW size \in Nat, size = Len(document),
           NEW n \in 0 .. size, PassedOver(n),
           NEW opening, opening = FindFrom(n, Opening), opening # 0,
           NEW tagEnd, tagEnd = FindFrom(opening, TagEnd), tagEnd # 0,
           NEW closing, closing = FindFrom(tagEnd, Closing), closing # 0
    PROVE  /\ n < tagEnd /\ tagEnd < closing /\ closing \in 1 .. size /\ tagEnd \in Nat
           /\ document[closing] = Closing
           /\ \A i \in n + 1 .. closing - 1 :
                 IsRecord(i) <=> i = tagEnd + 1 /\ closing = tagEnd + 2 /\ document[i] \in Value
<1>1. /\ opening \in n + 1 .. size /\ document[opening] = Opening
      /\ \A k \in n + 1 .. opening - 1 : document[k] # Opening
  <2>1. n \in Nat
    OBVIOUS
  <2> QED
    BY <2>1, FindIs
<1>2. opening \in Nat
  BY <1>1
<1>3. /\ tagEnd \in opening + 1 .. size /\ document[tagEnd] = TagEnd
      /\ \A k \in opening + 1 .. tagEnd - 1 : document[k] # TagEnd
  BY <1>2, FindIs
<1>4. tagEnd \in Nat
  BY <1>2, <1>3
<1>5. /\ closing \in tagEnd + 1 .. size /\ document[closing] = Closing
      /\ \A k \in tagEnd + 1 .. closing - 1 : document[k] # Closing
  BY <1>4, FindIs
<1>6. n < opening /\ opening < tagEnd /\ tagEnd < closing /\ closing \in 1 .. size
  BY <1>1, <1>3, <1>4, <1>5
<1>7. document[tagEnd - 1] = Opening
  <2>1. opening \in 1 .. size
    BY <1>1
  <2> QED
    BY <1>1, <1>3, <2>1, TagEndFollows
<1>8. ASSUME NEW i \in n + 1 .. closing - 1, IsRecord(i)
      PROVE  i = tagEnd + 1 /\ closing = tagEnd + 2 /\ document[i] \in Value
  <2>1. Whole(i) /\ ~Swallowed(i)
    BY <1>8 DEF IsRecord
  <2>2. i \in n + 1 .. size
    BY <1>6
  <2>3. closing <= i + 1 /\ (closing = i + 1 => tagEnd = i - 1)
    BY <2>1, <2>2, RecordIsFound
  <2>4. closing = i + 1 /\ tagEnd = i - 1
    BY <1>5, <2>3
  <2> QED
    BY <1>4, <2>1, <2>4 DEF Whole
<1>9. ASSUME NEW i \in n + 1 .. closing - 1, i = tagEnd + 1, closing = tagEnd + 2,
             document[i] \in Value
      PROVE  IsRecord(i)
  <2>1. i - 1 = tagEnd /\ i - 2 = tagEnd - 1 /\ i + 1 = closing /\ i > 2
    <3>1. n \in Nat /\ opening \in Nat /\ opening > n /\ tagEnd > opening
      BY <1>2, <1>6
    <3> QED
      BY <1>4, <1>9, <3>1
  <2>2. i < size
    <3>1. document[size] = Closing \/ closing # size
      BY <1>5
    <3>2. closing <= size
      BY <1>5
    <3> QED
      BY <1>4, <1>9, <3>2
  <2>3. Whole(i)
    BY <1>3, <1>5, <1>7, <1>9, <2>1, <2>2 DEF Whole
  <2>4. ASSUME NEW d \in 1 .. i - 3, document[d] = Opening, document[d + 1] = TagEnd,
               \A j \in d .. i : document[j] # Closing
        PROVE  FALSE
    <3>1. CASE d > n
      <4>1. ~(d < opening)
        <5> SUFFICES ASSUME d < opening PROVE FALSE
          OBVIOUS
        <5>1. d \in n + 1 .. opening - 1
          BY <1>2, <3>1
        <5> QED
          BY <1>1, <2>4, <5>1
      <4>2. d + 1 \in opening + 1 .. tagEnd - 1
        <5>1. d \in Nat /\ d <= i - 3 /\ opening <= d /\ i = tagEnd + 1
          BY <1>2, <1>4, <1>9, <4>1
        <5> QED
          BY <1>2, <1>4, <5>1, SMTT(30)
      <4> QED
        BY <1>3, <2>4, <4>2
    <3>2. CASE d <= n
      <4>1. n # 0 /\ document[n + 1] = Closing
        BY <3>2 DEF PassedOver
      <4>2. n + 1 \in d .. i
        BY <3>2
      <4> QED
        BY <2>4, <4>1, <4>2
    <3> QED
      BY <3>1, <3>2
  <2>5. ~Swallowed(i)
    BY <2>4 DEF Swallowed
  <2> QED
    BY <2>3, <2>5 DEF IsRecord
<1> QED
  BY <1>4, <1>5, <1>6, <1>8, <1>9

\* The URLs of a set of places, in order.
Upto(S, i) == {j \in S : j <= i}
ListedOf(S, list) ==
    /\ Len(list) = Cardinality(S)
    /\ \A i \in S : list[Cardinality(Upto(S, i))] = UrlOf[document[i]]

LEMMA OneMoreListed ==
    ASSUME NEW n \in Nat, NEW S, S \in SUBSET (1 .. n), NEW X, NEW list \in Seq(X), ListedOf(S, list),
           NEW i \in Nat, n < i, NEW url \in X, url = UrlOf[document[i]]
    PROVE  ListedOf(S \cup {i}, Append(list, url))
<1>1. PICK size \in Nat : size = Len(list) /\ DOMAIN list = 1 .. size
  OBVIOUS
<1>2. IsFiniteSet(S) /\ Cardinality(S) = size
  <2>1. IsFiniteSet(1 .. n)
    BY FS_Interval
  <2>2. IsFiniteSet(S)
    BY <2>1, FS_Subset
  <2> QED
    BY <1>1, <2>2 DEF ListedOf
<1>3. i \notin S /\ \A j \in S : j \in Nat /\ j < i
  OBVIOUS
<1>4. Cardinality(S \cup {i}) = size + 1
  BY <1>2, <1>3, FS_AddElement
<1>5. PICK after : after = Append(list, url)
  OBVIOUS
<1>6. /\ Len(after) = size + 1 /\ after[size + 1] = url
      /\ \A k \in 1 .. size : after[k] = list[k]
  BY <1>1, <1>5
<1>7. ASSUME NEW j \in S PROVE after[Cardinality(Upto(S \cup {i}, j))] = UrlOf[document[j]]
  <2>1. Upto(S \cup {i}, j) = Upto(S, j)
    BY <1>3 DEF Upto
  <2>2. Cardinality(Upto(S, j)) \in 1 .. size
    <3>1. Upto(S, j) \subseteq S /\ Upto(S, j) # {}
      <4>1. j \in Upto(S, j)
        <5>1. j \in Nat /\ j <= j
          BY <1>3
        <5> QED
          BY <5>1 DEF Upto
      <4> QED
        BY <4>1 DEF Upto
    <3>2. IsFiniteSet(Upto(S, j)) /\ Cardinality(Upto(S, j)) <= size
      BY <1>2, <3>1, FS_Subset
    <3>3. Cardinality(Upto(S, j)) \in Nat /\ Cardinality(Upto(S, j)) # 0
      BY <3>1, <3>2, FS_CardinalityType, FS_EmptySet
    <3> QED
      BY <3>2, <3>3
  <2>3. list[Cardinality(Upto(S, j))] = UrlOf[document[j]]
    BY DEF ListedOf
  <2> QED
    BY <1>6, <2>1, <2>2, <2>3
<1>8. after[Cardinality(Upto(S \cup {i}, i))] = url
  <2>1. Upto(S \cup {i}, i) = S \cup {i}
    <3>1. \A j \in S \cup {i} : j <= i
      BY <1>3
    <3> QED
      BY <3>1 DEF Upto
  <2> QED
    BY <1>4, <1>6, <2>1
<1> QED
  BY <1>4, <1>5, <1>6, <1>7, <1>8 DEF ListedOf

\* The inductive invariant of the scanner: it stands at a closing tag, and what
\* it found are the records before that, or all of them.
ReadUpTo(n) == {i \in 1 .. n : IsRecord(i) /\ UrlOf[document[i]] # "none"}
ScanIInv ==
    /\ document \in Seq(Symbol) /\ Sound(document)
    /\ restAt \in 0 .. Len(document) /\ PassedOver(restAt)
    /\ urls \in Seq({UrlOf[v] : v \in Value})
    /\ ListedOf(ReadUpTo(restAt), urls)
    /\ ~scanning => ReadUpTo(restAt) = ReadUpTo(Len(document))

LEMMA ReadIsAll == ScanIInv => SitemapIsRead
<1> SUFFICES ASSUME ScanIInv, ~scanning PROVE SitemapIsRead
  BY DEF SitemapIsRead
<1> DEFINE read == {i \in DOMAIN document :
                      Whole(i) /\ ~Swallowed(i) /\ UrlOf[document[i]] # "none"}
<1>1. DOMAIN document = 1 .. Len(document)
  BY DEF ScanIInv
<1>2. ReadUpTo(Len(document)) = read
  BY <1>1 DEF ReadUpTo, IsRecord
<1>3. ListedOf(read, urls)
  BY <1>2 DEF ScanIInv
<1>4. SitemapIsRead <=>
        /\ Len(urls) = Cardinality(read)
        /\ \A i \in read : urls[Cardinality({j \in read : j <= i})] = UrlOf[document[i]]
  BY DEF SitemapIsRead
<1> HIDE DEF read
<1> QED
  BY <1>3, <1>4 DEF ListedOf, Upto

LEMMA InitScanIInv == ScanInit => ScanIInv
<1> SUFFICES ASSUME ScanInit PROVE ScanIInv
  OBVIOUS
<1>1. restAt = 0 /\ urls = << >> /\ scanning = TRUE
  BY DEF ScanInit
<1>2. document \in Seq(Symbol) /\ Sound(document)
  BY DocumentIsSound
<1>3. ReadUpTo(restAt) = {}
  BY <1>1 DEF ReadUpTo
<1>4. ListedOf({}, urls)
  BY <1>1, FS_EmptySet DEF ListedOf
<1>5. Len(document) \in Nat /\ 0 \in 0 .. Len(document)
  BY <1>2
<1>6. urls \in Seq({UrlOf[v] : v \in Value})
  BY <1>1
<1>7. PassedOver(restAt)
  BY <1>1 DEF PassedOver
<1> QED
  BY <1>1, <1>2, <1>3, <1>4, <1>5, <1>6, <1>7 DEF ScanIInv

LEMMA ScanRecordStep == ScanIInv /\ ScanRecord => ScanIInv'
<1> SUFFICES ASSUME ScanIInv, ScanRecord PROVE ScanIInv'
  OBVIOUS
<1>1. PICK opening : opening = FindFrom(restAt, Opening)
  OBVIOUS
<1>2. PICK tagEnd : tagEnd = FindFrom(opening, TagEnd)
  OBVIOUS
<1>3. PICK closing : closing = FindFrom(tagEnd, Closing)
  OBVIOUS
<1>4. PICK url : url = Normalize(SubSeq(document, tagEnd + 1, closing - 1))
  OBVIOUS
<1>5. /\ scanning
      /\ opening = 0 \/ tagEnd = 0 \/ closing = 0 => StopScan
      /\ ~(opening = 0 \/ tagEnd = 0 \/ closing = 0) =>
            /\ restAt' = closing - 1
            /\ urls' = IF url = "none" THEN urls ELSE Append(urls, url)
            /\ document' = document /\ scanning' = scanning
  BY <1>1, <1>2, <1>3, <1>4 DEF ScanRecord, Resume
<1>6. document \in Seq(Symbol) /\ Sound(document) /\ PassedOver(restAt)
  BY DEF ScanIInv
<1>7. PICK size \in Nat : size = Len(document) /\ DOMAIN document = 1 .. size
  BY <1>6
<1>8. PICK n \in 0 .. size : n = restAt
  BY <1>7 DEF ScanIInv
<1>9. PassedOver(n) /\ opening = FindFrom(n, Opening) /\ n \in Nat
  BY <1>1, <1>6, <1>8
<1>10. CASE opening = 0 \/ tagEnd = 0 \/ closing = 0
  <2>1. scanning' = FALSE /\ document' = document /\ restAt' = restAt /\ urls' = urls
    BY <1>5, <1>10 DEF StopScan
  <2>2. \A i \in n + 1 .. size : ~Whole(i)
    BY <1>2, <1>3, <1>6, <1>7, <1>9, <1>10, RecordIsFound
  <2>3. ReadUpTo(n) = ReadUpTo(size)
    <3>1. \A i : i \in 1 .. size <=> i \in 1 .. n \/ i \in n + 1 .. size
      BY <1>9
    <3> QED
      BY <2>2, <3>1 DEF ReadUpTo, IsRecord
  <2>4. \A i : IsRecord(i)' <=> IsRecord(i)
    BY <2>1 DEF IsRecord, Whole, Swallowed
  <2>5. \A k : ReadUpTo(k)' = ReadUpTo(k)
    BY <2>1, <2>4 DEF ReadUpTo
  <2>6. ListedOf(ReadUpTo(restAt), urls)'
    BY <2>1, <2>5 DEF ScanIInv, ListedOf
  <2>7. ReadUpTo(restAt)' = ReadUpTo(Len(document))'
    BY <1>7, <1>8, <2>1, <2>3, <2>5
  <2> QED
    BY <2>1, <2>6, <2>7 DEF ScanIInv, PassedOver
<1>11. CASE ~(opening = 0 \/ tagEnd = 0 \/ closing = 0)
  <2>1. /\ restAt' = closing - 1 /\ document' = document /\ scanning' /\ scanning
        /\ urls' = IF url = "none" THEN urls ELSE Append(urls, url)
    BY <1>5, <1>11
  <2>2. /\ n < tagEnd /\ tagEnd < closing /\ closing \in 1 .. size /\ tagEnd \in Nat
        /\ document[closing] = Closing
        /\ \A i \in n + 1 .. closing - 1 :
              IsRecord(i) <=> i = tagEnd + 1 /\ closing = tagEnd + 2 /\ document[i] \in Value
    BY <1>2, <1>3, <1>6, <1>7, <1>9, <1>11, RecordIsTaken
  <2>3. closing \in Nat /\ closing - 1 \in 0 .. size /\ (closing - 1) + 1 = closing
    BY <2>2
  <2> DEFINE place == tagEnd + 1
             taken == closing = tagEnd + 2 /\ document[place] \in Value
  <2>4. /\ taken => url = UrlOf[document[place]]
        /\ ~taken => url = "none"
    <3>1. PICK content : content = SubSeq(document, tagEnd + 1, closing - 1)
      OBVIOUS
    <3>2. /\ Len(content) = 1 <=> closing = tagEnd + 2
          /\ closing = tagEnd + 2 => content[1] = document[place]
      <4>1. /\ tagEnd + 1 \in 1 .. size /\ closing - 1 \in 0 .. size
            /\ closing - 1 >= tagEnd
        BY <2>2, <2>3
      <4>2. PICK low : low = tagEnd + 1
        OBVIOUS
      <4>3. PICK high : high = closing - 1
        OBVIOUS
      <4>4. /\ low \in 1 .. size /\ high \in 0 .. size /\ high + 1 >= low
            /\ content = SubSeq(document, low, high)
        BY <3>1, <4>1, <4>2, <4>3, <2>2, <2>3
      <4>5. Len(content) = high + 1 - low /\ (low <= high => content[1] = document[low])
        BY <1>6, <1>7, <4>4
      <4> QED
        BY <2>2, <2>3, <4>2, <4>3, <4>5
    <3>3. url = IF Len(content) = 1 /\ content[1] \in Value THEN UrlOf[content[1]] ELSE "none"
      BY <1>4, <3>1 DEF Normalize
    <3> QED
      BY <3>2, <3>3
  <2>5. \A i \in n + 1 .. closing - 1 : IsRecord(i) <=> i = place /\ taken
    BY <2>2
  <2>6. taken => place \in n + 1 .. closing - 1
    BY <1>9, <2>2, <2>3
  <2>7. \A i : i \in 1 .. closing - 1 <=> i \in 1 .. n \/ i \in n + 1 .. closing - 1
    BY <1>9, <2>2, <2>3
  <2>8. place \in Nat /\ n < place
    BY <2>2
  <2>9. ListedOf(ReadUpTo(n), urls) /\ ReadUpTo(n) \in SUBSET (1 .. n)
    BY <1>8 DEF ScanIInv, ReadUpTo
  <2> DEFINE X == {UrlOf[v] : v \in Value}
  <2>10. urls \in Seq(X) /\ (taken => url \in X)
    BY <2>4 DEF ScanIInv
  <2>11. /\ taken /\ url # "none" => ReadUpTo(closing - 1) = ReadUpTo(n) \cup {place}
         /\ ~(taken /\ url # "none") => ReadUpTo(closing - 1) = ReadUpTo(n)
    <3> HIDE DEF place
    <3> QED
      BY <2>4, <2>5, <2>6, <2>7 DEF ReadUpTo
  <2> HIDE DEF place, taken, X
  <2>12. urls' \in Seq(X) /\ ListedOf(ReadUpTo(closing - 1), urls')
    <3>1. CASE taken /\ url # "none"
      <4>1. ListedOf(ReadUpTo(n) \cup {place}, Append(urls, url))
        BY <1>9, <2>4, <2>8, <2>9, <2>10, <3>1, OneMoreListed
      <4>2. urls' = Append(urls, url) /\ Append(urls, url) \in Seq(X)
        BY <2>1, <2>10, <3>1
      <4> QED
        BY <2>11, <3>1, <4>1, <4>2
    <3>2. CASE ~(taken /\ url # "none")
      <4>1. urls' = urls
        BY <2>1, <2>4, <3>2
      <4> QED
        BY <2>9, <2>10, <2>11, <3>2, <4>1
    <3> QED
      BY <3>1, <3>2
  <2>13. \A i : IsRecord(i)' <=> IsRecord(i)
    BY <2>1 DEF IsRecord, Whole, Swallowed
  <2>14. \A k : ReadUpTo(k)' = ReadUpTo(k)
    BY <2>1, <2>13 DEF ReadUpTo
  <2>15. ListedOf(ReadUpTo(restAt), urls)'
    BY <2>1, <2>12, <2>14 DEF ListedOf
  <2>16. PassedOver(restAt)' /\ restAt' \in 0 .. Len(document')
    BY <1>7, <2>1, <2>2, <2>3 DEF PassedOver
  <2> QED
    BY <1>6, <2>1, <2>12, <2>15, <2>16 DEF ScanIInv, X
<1> QED
  BY <1>10, <1>11

\* For whole, cut and damaged sitemaps of any length: every record yields its URL,
\* once and in order, and nothing else yields any (sitemap.rs, parse).
THEOREM SpecSitemapIsRead == ScanSpec => []SitemapIsRead
<1>1. ScanIInv /\ [ScanNext]_scanVars => ScanIInv'
  <2>1. ASSUME ScanIInv, UNCHANGED scanVars PROVE ScanIInv'
    <3>1. document' = document /\ restAt' = restAt /\ urls' = urls /\ scanning' = scanning
      BY <2>1 DEF scanVars
    <3>2. \A i : IsRecord(i)' <=> IsRecord(i)
      BY <3>1 DEF IsRecord, Whole, Swallowed
    <3>3. \A k : ReadUpTo(k)' = ReadUpTo(k)
      BY <3>1, <3>2 DEF ReadUpTo
    <3>4. ListedOf(ReadUpTo(restAt), urls)' /\ PassedOver(restAt)'
      BY <2>1, <3>1, <3>3 DEF ScanIInv, ListedOf, PassedOver
    <3> QED
      BY <2>1, <3>1, <3>3, <3>4 DEF ScanIInv
  <2> QED
    BY <2>1, ScanRecordStep DEF ScanNext
<1> QED
  BY <1>1, InitScanIInv, ReadIsAll, PTL DEF ScanSpec
=============================================================================
