------------------------------ MODULE Entities ------------------------------
(***************************************************************************)
(* push_decoded and decode_reference of parser.rs, one turn of the loop a  *)
(* step, and collapse_whitespace over the result.  A text is a sequence of *)
(* symbols: "&", ";" and others, each for a stretch of characters; what is *)
(* between `&' and `;' is a reference's name if Named knows it.            *)
(***************************************************************************)
EXTENDS Naturals, Sequences, FiniteSets, SequencesExt

CONSTANTS
    Named,         \* reference name, named or numeric -> its character
    MaxEntity,     \* longest name that is decoded (12 bytes in the code)
    Unit,          \* [spelled, means]: what a text is put together from
    MaxUnits       \* bound: units of a text

\* Text as it is, a reference and what it stands for, or what looks like one
\* and is none.
Opaque(s) == s \in Seq(ToSet(s)) /\ {"&", ";"} \cap ToSet(s) = {}
Symbolic(unit) == Len(unit.spelled) = 1 /\ unit.means = unit.spelled
Quoted(unit) ==
    LET name == SubSeq(unit.spelled, 2, Len(unit.spelled) - 1)
    IN  /\ Len(unit.spelled) >= 2 /\ Opaque(name)
        /\ unit.spelled[1] = "&" /\ unit.spelled[Len(unit.spelled)] = ";"
        /\ unit.means = IF Len(name) \in 1 .. MaxEntity /\ name \in DOMAIN Named
                        THEN <<Named[name]>> ELSE unit.spelled

ASSUME EntityAssumption ==
    /\ {MaxEntity, MaxUnits} \subseteq Nat
    /\ \A name \in DOMAIN Named : Opaque(name)
    /\ \A unit \in Unit : /\ unit.spelled \in Seq(ToSet(unit.spelled))
                         /\ (Symbolic(unit) \/ Quoted(unit))

VARIABLES
    units,         \* history: how the text is put together
    undecoded,     \* rest: what is left of it
    output,
    decoding

entityVars == <<units, undecoded, output, decoding>>

White == {" ", "nbsp"}   \* is_whitespace holds of U+00A0

\* The first `;' of a text, 0 if there is none.
SemicolonOf(s) ==
    LET places == {i \in DOMAIN s : s[i] = ";"}
    IN  IF places = {} THEN 0 ELSE CHOOSE i \in places : \A j \in places : i <= j

\* decode_reference of a text at its `&': is there one to decode, and which.
NameOf(s) == SubSeq(s, 2, SemicolonOf(s) - 1)
IsReference(s) ==
    /\ s[1] = "&" /\ SemicolonOf(s) # 0
    /\ Len(NameOf(s)) \in 1 .. MaxEntity /\ NameOf(s) \in DOMAIN Named

Emit(text, symbol) ==
    /\ decoding
    /\ output' = Append(output, symbol)
    /\ undecoded' = text
    /\ UNCHANGED <<units, decoding>>

\* Text goes out as it is, and so does an `&' that begins no reference.
TakeSymbol ==
    /\ undecoded # << >> /\ ~IsReference(undecoded)
    /\ Emit(Tail(undecoded), undecoded[1])

After(s) == SubSeq(s, SemicolonOf(s) + 1, Len(s))

\* (mutant: what a reference stands for is read again)
ReadAgain ==
    /\ undecoded # << >> /\ IsReference(undecoded)
    /\ undecoded' = <<Named[NameOf(undecoded)]>> \o After(undecoded)
    /\ UNCHANGED <<units, output, decoding>>

TakeReference ==
    /\ undecoded # << >> /\ IsReference(undecoded)
    /\ Emit(After(undecoded), Named[NameOf(undecoded)])

EndOfText ==
    /\ decoding /\ undecoded = << >>
    /\ decoding' = FALSE
    /\ UNCHANGED <<units, undecoded, output>>

Spelling(us) == FlattenSeq([i \in DOMAIN us |-> us[i].spelled])

\* A bare `&' before text that happens to spell a reference is one, to the
\* code and to a browser alike: such texts have another reading.
Ambiguous(us) ==
    \E i \in DOMAIN us : \E j \in i + 1 .. Len(us) :
        us[i].spelled = <<"&">> /\ Spelling(SubSeq(us, i + 1, j))
            \in {name \o <<";">> : name \in DOMAIN Named}

EntityInit ==
    /\ \E n \in 0 .. MaxUnits : units \in [1 .. n -> Unit]
    /\ ~Ambiguous(units)
    /\ undecoded = Spelling(units) /\ output = << >> /\ decoding = TRUE

EntityNext == TakeSymbol \/ TakeReference \/ EndOfText

EntitySpec == EntityInit /\ [][EntityNext]_entityVars

(***************************************************************************)
(* collapse_whitespace: a space is owed after white space if anything was  *)
(* written before it, and paid before the next character.                  *)
(***************************************************************************)
CollapseWhitespace(s) ==
    LET sofar[n \in 0 .. Len(s)] ==
          IF n = 0 THEN [text |-> << >>, owed |-> FALSE]
          ELSE IF s[n] \in White
               THEN [text |-> sofar[n - 1].text, owed |-> sofar[n - 1].text # << >>]
               ELSE [text |-> sofar[n - 1].text
                                \o (IF sofar[n - 1].owed THEN <<" ", s[n]>> ELSE <<s[n]>>),
                     owed |-> FALSE]
    IN  sofar[Len(s)].text

-----------------------------------------------------------------------------
\* The characters of a text that are no white space, and the last ones of words
\* that another word follows.
Blacks(s) == {i \in DOMAIN s : s[i] \notin White}
Breaks(s) == {i \in Blacks(s) : i + 1 \in DOMAIN s \ Blacks(s) /\ \E j \in Blacks(s) : j > i}

(***************************************************************************)
(* A text decodes to what its units mean, each reference once: a spelled   *)
(* out reference (&amp;lt;) does not become the character it spells, and   *)
(* what is no reference stays as written.  Collapsed, it has the same      *)
(* words, one space between two and nothing else.                          *)
(***************************************************************************)
EntitiesDecodeOnce ==
    ~decoding =>
        LET collapsed == CollapseWhitespace(output)
            place(i) == Cardinality({j \in Blacks(output) : j <= i})
                        + Cardinality({j \in Breaks(output) : j < i})
        IN  /\ output = FlattenSeq([i \in DOMAIN units |-> units[i].means])
            /\ Len(collapsed) = Cardinality(Blacks(output)) + Cardinality(Breaks(output))
            /\ \A i \in Blacks(output) : collapsed[place(i)] = output[i]
            /\ \A i \in Breaks(output) : collapsed[place(i) + 1] = " "
=============================================================================
