---------------------------- MODULE MCUrlPolicy -----------------------------
(* URLs of a seed's host and another, plain, decorated and re-spelled. *)
EXTENDS UrlPolicy

Param(name, spelled) == [name |-> name, spelled |-> spelled]
URLOf(scheme, host, segment, query, fragment) ==
    [scheme |-> scheme, host |-> host, segment |-> segment, mark |-> query # << >>,
     query |-> query, fragment |-> fragment]
BareMark(url) == [url EXCEPT !.mark = TRUE]
Queries == UNION {[1 .. n -> {Param("utm", "raw"), Param("id", "raw"), Param("id", "serialized")}]
                    : n \in 0 .. 2}
PolicyLinks ==
    {URLOf("https", "seed", <<"a">>, q, f) : q \in Queries, f \in {"none", "top"}}
    \cup {URLOf("https", h, s, << >>, "none") : h \in {"seed", "other"},
            s \in {<<"a">>, <<"", "pdf">>, <<"a", "pdf">>, <<"a", "pdf", "gz">>, <<"map", "xml", "gz">>}}
    \cup {BareMark(URLOf("https", "seed", <<"a">>, << >>, "none"))}
    \cup {URLOf("mailto", "none", <<"a">>, << >>, "none")}
PolicySeeds == {URLOf("https", "seed", <<"a">>, <<Param("utm", "raw")>>, "top"),
                URLOf("http", "second", <<"">>, << >>, "none")}
=============================================================================
