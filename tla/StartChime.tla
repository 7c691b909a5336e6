----------------------------- MODULE StartChime -----------------------------
(***************************************************************************)
(* The start-up chime of the API (sound.py): the workers of one start, and *)
(* of later ones, check a stamp file, take a lock without waiting, check   *)
(* again, and write the stamp; who wrote it plays, or gives the claim back *)
(* by deleting the stamp when nothing can play.                            *)
(***************************************************************************)
EXTENDS Naturals, FiniteSets

CONSTANTS
    Worker,      \* processes that import the application
    Window,      \* sound_window_seconds
    MaxClock     \* bound: seconds

ASSUME ChimeAssumption == Window \in Nat \ {0} /\ MaxClock \in Nat

NoStamp == 0 - 1

VARIABLES
    clock,
    stamp,       \* modification time of the stamp, or NoStamp
    lockedBy,    \* workers that hold the lock: none or one
    step,        \* worker -> what it does next
    claimed,     \* history: worker -> when it wrote the stamp
    played       \* history: times of the claims that were played

chimeVars == <<clock, stamp, lockedBy, step, claimed, played>>

ChimeInit ==
    /\ clock = 0 /\ stamp = NoStamp /\ lockedBy = {}
    /\ step = [w \in Worker |-> "unstarted"]
    /\ claimed = [w \in Worker |-> NoStamp] /\ played = {}

RecentlyAnnounced == stamp # NoStamp /\ clock - stamp < Window

Goes(w, from, to) == step[w] = from /\ step' = [step EXCEPT ![w] = to]

\* The fast path: no lock is needed to see a recent stamp.
LookFirst(w) ==
    /\ IF RecentlyAnnounced THEN Goes(w, "unstarted", "done") ELSE Goes(w, "unstarted", "lock")
    /\ UNCHANGED <<clock, stamp, lockedBy, claimed, played>>

\* (mutant: the lock keeps nobody out)
LockAnyway(w) ==
    /\ Goes(w, "lock", "locked") /\ lockedBy' = lockedBy \cup {w}
    /\ UNCHANGED <<clock, stamp, claimed, played>>

\* LOCK_NB: somebody else is announcing.
TryLock(w) ==
    /\ IF lockedBy # {} THEN Goes(w, "lock", "done") /\ UNCHANGED lockedBy
       ELSE Goes(w, "lock", "locked") /\ lockedBy' = {w}
    /\ UNCHANGED <<clock, stamp, claimed, played>>

\* (mutant: the first look is taken for good)
StaleLook == FALSE
\* Re-checked under the lock.
AlreadyAnnounced == RecentlyAnnounced

LookAgain(w) ==
    /\ IF AlreadyAnnounced
       THEN Goes(w, "locked", "done") /\ lockedBy' = lockedBy \ {w}
       ELSE Goes(w, "locked", "writing") /\ UNCHANGED lockedBy
    /\ UNCHANGED <<clock, stamp, claimed, played>>

\* The stamp is written, and closing the lock file lets go of the lock.
WriteStamp(w) ==
    /\ Goes(w, "writing", "claimed")
    /\ stamp' = clock
    /\ claimed' = [claimed EXCEPT ![w] = clock]
    /\ lockedBy' = lockedBy \ {w}
    /\ UNCHANGED <<clock, played>>

Play(w) ==
    /\ Goes(w, "claimed", "done")
    /\ played' = played \cup {<<w, claimed[w]>>}
    /\ UNCHANGED <<clock, stamp, lockedBy, claimed>>

\* No player, or it could not be started.
Release(w) ==
    /\ Goes(w, "claimed", "done")
    /\ stamp' = NoStamp
    /\ UNCHANGED <<clock, lockedBy, claimed, played>>

\* Killed: the lock goes with the process, the stamp stays.
KillWorker(w) ==
    /\ step[w] # "done" /\ step' = [step EXCEPT ![w] = "done"]
    /\ lockedBy' = lockedBy \ {w}
    /\ UNCHANGED <<clock, stamp, claimed, played>>

\* Time passes, but a claim is played or given back within the window: writing
\* the sound and starting the player take milliseconds.
Tick ==
    /\ clock < MaxClock
    /\ \A w \in Worker : step[w] = "claimed" => clock + 1 - claimed[w] < Window
    /\ clock' = clock + 1
    /\ UNCHANGED <<stamp, lockedBy, step, claimed, played>>

ChimeNext ==
    \/ Tick
    \/ \E w \in Worker :
          \/ LookFirst(w) \/ TryLock(w) \/ LookAgain(w) \/ WriteStamp(w)
          \/ Play(w) \/ Release(w) \/ KillWorker(w)

ChimeSpec == ChimeInit /\ [][ChimeNext]_chimeVars

-----------------------------------------------------------------------------
(***************************************************************************)
(* The sound plays once per start: two claims that were played are a       *)
(* window apart, however the checks, locks, deaths and releases of the     *)
(* workers interleave; and a stamp that was given back is not one that     *)
(* another worker plays for.                                               *)
(***************************************************************************)
ChimeOnce ==
    /\ \A p, q \in played : p = q \/ p[2] >= q[2] + Window \/ q[2] >= p[2] + Window
    /\ \A w \in Worker : step[w] = "claimed" => stamp = claimed[w]

(***************************************************************************)
(* Why: whoever is about to write the stamp holds the lock and has seen no *)
(* recent stamp since it got it; a claim that is neither played nor given  *)
(* back is recent and alone; and what was played is a window before it.    *)
(***************************************************************************)
ChimeTypeOK ==
    /\ clock \in Nat /\ stamp \in Nat \cup {NoStamp} /\ stamp <= clock
    /\ lockedBy \subseteq Worker
    /\ step \in [Worker -> {"unstarted", "lock", "locked", "writing", "claimed", "done"}]
    /\ claimed \in [Worker -> Nat \cup {NoStamp}]
    /\ played \subseteq Worker \X Nat

LockIsHeld == \A w \in Worker : step[w] \in {"locked", "writing"} => lockedBy = {w}

WriterSawNoStamp == \A w \in Worker : step[w] = "writing" => ~RecentlyAnnounced

ClaimStands ==
    \A w \in Worker : step[w] = "claimed" =>
        /\ stamp = claimed[w] /\ RecentlyAnnounced
        /\ \A v \in Worker : step[v] = "claimed" => v = w
        /\ \A p \in played : p[2] + Window <= claimed[w]

PlayedApart ==
    /\ \A p, q \in played : p = q \/ p[2] >= q[2] + Window \/ q[2] >= p[2] + Window
    /\ \A p \in played :
          IF stamp = NoStamp THEN p[2] + Window <= clock
                             ELSE p[2] = stamp \/ p[2] + Window <= stamp

ChimeIInv == ChimeTypeOK /\ LockIsHeld /\ WriterSawNoStamp /\ ClaimStands /\ PlayedApart
=============================================================================
