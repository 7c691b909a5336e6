------------------------------ MODULE SeenUrls ------------------------------
(***************************************************************************)
(* The seen-URL filter (crates/crawler/src/dedup.rs).  A Bloom filter      *)
(* answers from the bits it has set: a URL reads as seen when all of its   *)
(* bits are, whichever insertions set them.  The filter lives in memory    *)
(* and reaches its file only when save is called.                          *)
(***************************************************************************)
EXTENDS Naturals

CONSTANTS
    Bit,      \* the bits of the filter
    BitsOf    \* the bits each URL hashes to

ASSUME SeenAssumption ==
    \A u \in DOMAIN BitsOf : BitsOf[u] \in (SUBSET Bit) \ {{}}

VARIABLES
    seen,     \* the bits set in memory
    bloom     \* the bits in the file at --bloom-path

seenVars == <<seen, bloom>>

SeenTypeOK == seen \in SUBSET Bit /\ bloom \in SUBSET Bit

SeenInit == seen = {} /\ bloom = {}

\* `contains`, of the filter crate.
MayContain(bits, u) == BitsOf[u] \subseteq bits

\* SeenUrls::open.  A missing or corrupt file counts as an empty filter.
OpenSeen == seen' = bloom /\ UNCHANGED bloom

\* check_and_insert on a URL it reports as new, and on one it does not.
IsNew(u)  == ~MayContain(seen, u)
Insert(u) == seen' = seen \cup BitsOf[u] /\ UNCHANGED bloom

\* save: written beside the file and renamed over it.
SaveSeen == bloom' = seen /\ UNCHANGED seen
=============================================================================
