---------------------------- MODULE IdGenerator ----------------------------
(***************************************************************************)
(* session/idgen.rs: the loop of IdGenerator::next, one iteration a step,  *)
(* over streams that open and close.  The caller holds the write lock of   *)
(* `streams` for the whole call, so `active` does not change meanwhile.    *)
(* TunnelSession uses the closed form NextIds; here the loop is run and    *)
(* compared with a reference, across the wrap at the threshold.            *)
(***************************************************************************)
EXTENDS Naturals, FiniteSets

CONSTANTS
    OverflowThreshold, \* u64::MAX - 1000
    MaxU64,            \* u64::MAX
    MaxActive          \* bound: streams open at once

\* What the constants are; a theorem about this module takes it as hypothesis.
GeneratorConstants ==
    /\ OverflowThreshold \in Nat /\ MaxU64 \in Nat /\ MaxActive \in Nat
    /\ 2 < OverflowThreshold /\ OverflowThreshold + 1 <= MaxU64

StreamIds == 1..(OverflowThreshold - 1)

VARIABLES
    start,    \* 1 (Odd) or 2 (Even)
    current,
    active,   \* the ids of the registered streams
    inCall,   \* a call of next is running
    from,     \* history: `current` when the running (or last) call began
    returned  \* the id the last call returned (0 before)

generatorVars == <<start, current, active, inCall, from, returned>>

New(s) ==
    /\ start = s
    /\ current = s

GeneratorInit ==
    /\ \E s \in {1, 2} : New(s)
    /\ active = {}
    /\ inCall = FALSE
    /\ from = start
    /\ returned = 0

Call ==
    /\ ~inCall
    /\ Cardinality(active) < MaxActive
    /\ inCall' = TRUE
    /\ from' = current
    /\ UNCHANGED <<start, current, active, returned>>

Wrap == IF current >= OverflowThreshold THEN start ELSE current

\* Mutant: the id after an active one is taken without looking.
IterateBlind ==
    /\ inCall
    /\ current' = Wrap + 2
    /\ inCall' = FALSE
    /\ returned' = IF Wrap \in active THEN Wrap + 2 ELSE Wrap
    /\ active' = active \cup {returned'}
    /\ UNCHANGED <<start, from>>

\* The candidate is taken unless a stream still uses it.
Iterate ==
    /\ inCall
    /\ current' = Wrap + 2
    /\ \/ /\ Wrap \notin active
          /\ inCall' = FALSE
          /\ returned' = Wrap
          /\ active' = active \cup {Wrap}
       \/ /\ Wrap \in active
          /\ UNCHANGED <<inCall, returned, active>>
    /\ UNCHANGED <<start, from>>

\* A stream leaves the map.
Release ==
    /\ ~inCall
    /\ \E i \in active : active' = active \ {i}
    /\ UNCHANGED <<start, current, inCall, from, returned>>

GeneratorNext == Call \/ Iterate \/ Release

GeneratorSpec == GeneratorInit /\ [][GeneratorNext]_generatorVars

----------------------------------------------------------------------------
\* Reference: the least free id of the parity at or after `lo`, and if there
\* is none below the threshold, the least free one from the start.
SameParity == {i \in StreamIds : i % 2 = start % 2}

Least(S) == CHOOSE i \in S : \A j \in S : i <= j

Reference(lo, used) ==
    LET free == SameParity \ used
        up   == {i \in free : i >= lo}
    IN  Least(IF up # {} THEN up ELSE free)

\* The counter, the ids in use and the last result stay in range: `current`
\* never comes near the width of u64 and every id has the role's parity and
\* is below the threshold, so the two roles' ids never meet.
InRange ==
    /\ start \in {1, 2}
    /\ current \in start..(OverflowThreshold + 1) /\ current % 2 = start % 2
    /\ current <= MaxU64
    /\ active \subseteq SameParity
    /\ returned \in SameParity \cup {0}
    /\ inCall \in BOOLEAN /\ from \in Nat

\* What `next` returns is the reference's id, across the wrap and whatever
\* ids are still active (this is what TunnelSession's NextIds relies on).
AllocatesNext ==
    [][inCall /\ ~inCall' => returned' = Reference(from, active)]_generatorVars

============================================================================
