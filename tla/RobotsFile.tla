----------------------------- MODULE RobotsFile ----------------------------
(***************************************************************************)
(* parse, select_group and RobotsRules::allows of robots.rs: the file is   *)
(* read a line at a time into groups, the group of our user agent is       *)
(* chosen, and its longest matching pattern decides about a path.  Lines   *)
(* that set nothing (comments, blank, no colon) are left out.  A line is   *)
(* [field, value]; what a pattern covers is GlobMatch's matter and here a  *)
(* parameter.                                                              *)
(***************************************************************************)
EXTENDS Naturals, Sequences, FiniteSets, SequencesExt

CONSTANTS
    FileLine,        \* the lines a file may have
    AgentLength,     \* agent named in a file -> its length where our name
                     \* contains it, "*" -> 0; others are not in the domain
    SecondsOf,       \* crawl-delay values that are numbers -> seconds, rounded up
    Covered,         \* pattern -> the paths it covers
    LengthOf,        \* pattern -> its length without `$'
    Path,
    MaxLines         \* bound: lines of a file

\* A pattern of no length covers no path, since a path is never empty.
ASSUME RobotsAssumption ==
    /\ \A a \in DOMAIN AgentLength : AgentLength[a] \in Nat
    /\ DOMAIN Covered = DOMAIN LengthOf
    /\ \A p \in DOMAIN LengthOf :
          LengthOf[p] \in Nat /\ (LengthOf[p] = 0 => Covered[p] = {})
    /\ \A line \in FileLine :
          line.field \in {"disallow", "allow"} => line.value \in DOMAIN LengthOf \cup {""}
    /\ MaxLines \in Nat

VARIABLES
    lines,          \* history: the lines read
    groups,         \* closed groups: [agents, rules]
    agents, rules,  \* the group being read
    groupHasRules,
    sitemaps

robotsVars == <<lines, groups, agents, rules, groupHasRules, sitemaps>>

NoRules == [disallow |-> << >>, allow |-> << >>, delay |-> 0]

RobotsInit ==
    /\ lines = << >> /\ groups = << >> /\ agents = << >> /\ rules = NoRules
    /\ groupHasRules = FALSE /\ sitemaps = << >>

Read(line, field) ==
    /\ line.field = field
    /\ lines' = Append(lines, line)

\* (mutant: every user-agent line closes the group before it)
ClosesGroup == agents # << >>
\* A user-agent line after rules starts a new group.
StartsGroup == groupHasRules

UserAgentLine(line) ==
    /\ Read(line, "user-agent")
    /\ IF StartsGroup
       THEN /\ groups' = Append(groups, [agents |-> agents, rules |-> rules])
            /\ agents' = <<line.value>> /\ rules' = NoRules /\ groupHasRules' = FALSE
       ELSE /\ agents' = Append(agents, line.value)
            /\ UNCHANGED <<groups, rules, groupHasRules>>
    /\ UNCHANGED sitemaps

\* An empty pattern is a rule of the group but restricts nothing.
WithPattern(list, value) == IF value = "" THEN list ELSE Append(list, value)

RuleLine(line) ==
    /\ groupHasRules' = TRUE
    /\ \/ Read(line, "disallow")
          /\ rules' = [rules EXCEPT !.disallow = WithPattern(@, line.value)]
       \/ Read(line, "allow")
          /\ rules' = [rules EXCEPT !.allow = WithPattern(@, line.value)]
       \/ Read(line, "crawl-delay")
          /\ rules' = IF line.value \in DOMAIN SecondsOf
                      THEN [rules EXCEPT !.delay = SecondsOf[line.value]] ELSE rules
    /\ UNCHANGED <<groups, agents, sitemaps>>

\* Sitemaps belong to the file, whatever the group.
SitemapLine(line) ==
    /\ Read(line, "sitemap")
    /\ sitemaps' = WithPattern(sitemaps, line.value)
    /\ UNCHANGED <<groups, agents, rules, groupHasRules>>

OtherLine(line) ==
    /\ Read(line, "other")
    /\ UNCHANGED <<groups, agents, rules, groupHasRules, sitemaps>>

RobotsNext ==
    /\ Len(lines) < MaxLines
    /\ \E line \in FileLine :
          UserAgentLine(line) \/ RuleLine(line) \/ SitemapLine(line) \/ OtherLine(line)

RobotsSpec == RobotsInit /\ [][RobotsNext]_robotsVars

(***************************************************************************)
(* The end of the file: the last group counts if it has rules, and the     *)
(* first of the most specific groups is ours.                              *)
(***************************************************************************)
AllGroups ==
    IF groupHasRules /\ agents # << >>
    THEN Append(groups, [agents |-> agents, rules |-> rules]) ELSE groups

Candidates(gs) ==
    {c \in {<<g, i>> : g \in DOMAIN gs, i \in 1 .. MaxLines} :
        c[2] \in DOMAIN gs[c[1]].agents /\ gs[c[1]].agents[c[2]] \in DOMAIN AgentLength}

Specificity(gs, c) == AgentLength[gs[c[1]].agents[c[2]]]

\* specificity > current: of equals the first stays.
SelectGroup(gs) ==
    LET cs == Candidates(gs)
        Best(c) == \A d \in cs :
            \/ Specificity(gs, d) < Specificity(gs, c)
            \/ Specificity(gs, d) = Specificity(gs, c) /\ c[1] <= d[1]
    IN  IF cs = {} THEN NoRules ELSE gs[(CHOOSE c \in cs : Best(c))[1]].rules

\* RobotsRules::allows: disallow patterns first, then allow; a strictly longer
\* pattern replaces the best so far.
Consider(best, pattern, path, allowed) ==
    IF path \in Covered[pattern] /\ LengthOf[pattern] > best.length
    THEN [length |-> LengthOf[pattern], allowed |-> allowed] ELSE best

AfterList(list, start, path, allowed) ==
    LET best[n \in 0 .. Len(list)] ==
            IF n = 0 THEN start ELSE Consider(best[n - 1], list[n], path, allowed)
    IN  best[Len(list)]

Allows(r, path) ==
    LET afterDisallow == AfterList(r.disallow, [length |-> 0, allowed |-> TRUE], path, FALSE)
    IN  AfterList(r.allow, afterDisallow, path, TRUE).allowed

-----------------------------------------------------------------------------
(***************************************************************************)
(* The file read as a whole.  A record begins at a user-agent line with no *)
(* user-agent line since the last rule; every line belongs to the record   *)
(* it follows.                                                             *)
(***************************************************************************)
Is(i, field) == lines[i].field = field
IsRule(i) == lines[i].field \in {"disallow", "allow", "crawl-delay"}
Begins(i) ==
    /\ Is(i, "user-agent")
    /\ \A j \in 1 .. i - 1 : Is(j, "user-agent") =>
          \E k \in j .. i - 1 : IsRule(k)
Owner(i) == Max({0} \cup {j \in 1 .. i : Begins(j)})
Record(start, field) ==
    {i \in DOMAIN lines : Owner(i) = start /\ Is(i, field)}

HasRules(start) == \E i \in DOMAIN lines : Owner(i) = start /\ IsRule(i)

Values(start, field) == {lines[i].value : i \in Record(start, field)}

\* How well a record that has rules fits us; 0 is no fit, 1 is the star.
Fit(start) ==
    IF HasRules(start)
    THEN Max({0} \cup {1 + AgentLength[a] : a \in Values(start, "user-agent") \cap DOMAIN AgentLength})
    ELSE 0

Ours == {s \in {Owner(i) : i \in DOMAIN lines} \ {0} :
            /\ Fit(s) > 0
            /\ \A t \in {Owner(i) : i \in DOMAIN lines} \ {0} :
                  Fit(t) < Fit(s) \/ (Fit(t) = Fit(s) /\ s <= t)}

Patterns(start, field) == Values(start, field) \ {""}

\* The last readable delay of a record.
Timed(start) == {i \in Record(start, "crawl-delay") : lines[i].value \in DOMAIN SecondsOf}
DelayOf(start) == IF Timed(start) = {} THEN 0 ELSE SecondsOf[lines[Max(Timed(start))].value]

\* Is the path open: no disallow of our record is at least as long as every
\* allow that covers it too.
PathIsOpen(path) ==
    \A s \in Ours : \A d \in Patterns(s, "disallow") :
        path \in Covered[d] =>
            \E a \in Patterns(s, "allow") :
                path \in Covered[a] /\ LengthOf[a] > LengthOf[d]

(***************************************************************************)
(* The rules the parser keeps decide every path as the file read as a      *)
(* whole does, with the last readable delay of our record and the sitemaps *)
(* of every line, whatever order agents, rules and sitemaps come in.       *)
(***************************************************************************)
RulesAreTheFiles ==
    LET kept == SelectGroup(AllGroups)
    IN  /\ \A path \in Path : Allows(kept, path) <=> PathIsOpen(path)
        /\ \A s \in Ours : kept.delay = DelayOf(s)
        /\ Ours = {} => kept = NoRules
        /\ ToSet(sitemaps) = {lines[i].value : i \in {j \in DOMAIN lines : Is(j, "sitemap")}} \ {""}

-----------------------------------------------------------------------------
(***************************************************************************)
(* The inductive invariant behind it.  The closed groups are the records   *)
(* before the last one, in their order, and those only; the group being    *)
(* read is the last record, or holds what comes before the first.          *)
(***************************************************************************)
FileValue == {line.value : line \in FileLine}
Rules == [disallow : Seq(DOMAIN LengthOf), allow : Seq(DOMAIN LengthOf),
          delay : {0} \cup {SecondsOf[v] : v \in DOMAIN SecondsOf}]

RobotsTypeOK ==
    /\ lines \in Seq(FileLine) /\ Len(lines) <= MaxLines
    /\ groups \in Seq([agents : Seq(FileValue), rules : Rules])
    /\ agents \in Seq(FileValue) /\ rules \in Rules
    /\ groupHasRules \in BOOLEAN
    /\ sitemaps \in Seq(FileValue)

\* When the next user-agent line begins a record, and whose it is otherwise.
NextRecord ==
    /\ groupHasRules => \A j \in DOMAIN lines : Is(j, "user-agent") =>
                             \E k \in j .. Len(lines) : IsRule(k)
    /\ agents = << >> => \A j \in DOMAIN lines : ~Is(j, "user-agent")
    /\ ~groupHasRules /\ agents # << >> =>
          \E j \in DOMAIN lines : /\ Is(j, "user-agent")
                                  /\ \A k \in j .. Len(lines) : ~IsRule(k)
    /\ \A i \in DOMAIN lines : Is(i, "user-agent") => Owner(i) # 0

LastRecord == Owner(Len(lines))

\* A group holds what the lines of a record say.
Gathers(named, kept, start) ==
    /\ Len(named) <= Len(lines)
    /\ ToSet(named) = Values(start, "user-agent")
    /\ ToSet(kept.disallow) = Patterns(start, "disallow")
    /\ ToSet(kept.allow) = Patterns(start, "allow")
    /\ kept.delay = DelayOf(start)

GroupIsLastRecord ==
    /\ Gathers(agents, rules, LastRecord)
    /\ groupHasRules <=> HasRules(LastRecord)
    /\ agents = << >> <=> LastRecord = 0

GroupsAreRecords ==
    \E at \in [DOMAIN groups -> Nat] :
        /\ \A g \in DOMAIN groups :
              /\ Gathers(groups[g].agents, groups[g].rules, at[g])
              /\ HasRules(at[g]) /\ at[g] < LastRecord
        /\ \A g, h \in DOMAIN groups : g < h => at[g] < at[h]
        /\ \A i \in DOMAIN lines : Owner(i) \in {0, LastRecord} \cup {at[g] : g \in DOMAIN groups}

SitemapsAreTheLines ==
    ToSet(sitemaps) = {lines[i].value : i \in {j \in DOMAIN lines : Is(j, "sitemap")}} \ {""}

RobotsIInv ==
    /\ RobotsTypeOK
    /\ NextRecord
    /\ GroupIsLastRecord
    /\ GroupsAreRecords
    /\ SitemapsAreTheLines
=============================================================================
