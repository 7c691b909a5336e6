--------------------------- MODULE MCSearchEngine ---------------------------
(* A small index for TLC: two URLs, one of them written in two versions. *)
EXTENDS SearchEngine, TLC

CONSTANTS a, b, gil, lock

Rows == {[url |-> a, words |-> {gil, lock}, rank |-> 2],
         [url |-> b, words |-> {gil}, rank |-> 1],
         [url |-> b, words |-> {lock}, rank |-> 1]}

Queries == {<<lock>>, <<gil, lock>>, <<"[">>}

Broken == {<<"[">>}


\* None yet, one with a field after ours, one with a field before ours, one from
\* before the authority fields, one that has them in another type.
OldMine == SubSeq(Mine, 1, 4)
Language == << <<"language", "STRING">> >>
Indexes == {NoIndex, Mine \o Language, Language \o Mine, OldMine,
            OldMine \o << <<"authority", "i64">>, <<"host_authority", "f64">> >>}

=============================================================================
