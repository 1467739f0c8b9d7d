--------------------------- MODULE TemporalStore ---------------------------
(***************************************************************************)
(* What the system-time extension promises: for every entity and every     *)
(* instant, the content that $as_of returns.  A transaction rewrites the   *)
(* content of the entities it wrote from its own instant onwards, all of   *)
(* them in one step and nothing before that instant.  Some instants are    *)
(* settled: no transaction writes at or before them any more.              *)
(***************************************************************************)
EXTENDS Naturals

CONSTANTS Id,       \* entity identifiers
          Val,      \* contents of the versioned columns
          Instant   \* the instants a request may name, a set of numbers

VARIABLES asof,     \* asof[i][x]: what $as_of=x returns for i, a set of contents
          settled   \* the instants at which asof no longer changes

vars == <<asof, settled>>

TypeOK ==
    /\ asof \in [Id -> [Instant -> SUBSET Val]]
    /\ settled \subseteq Instant

Init ==
    /\ asof = [i \in Id |-> [x \in Instant |-> {}]]
    /\ settled \subseteq Instant

\* The transaction that started at s leaves content[i] in every entity i of
\* written: one value, or none when it deleted i.
Write(s, written, content) ==
    /\ \A x \in settled : x < s
    /\ asof' = [i \in Id |-> [x \in Instant |->
                  IF i \in written /\ x >= s THEN content[i] ELSE asof[i][x]]]
    /\ settled \subseteq settled' /\ settled' \subseteq Instant

Settle ==
    /\ settled \subseteq settled' /\ settled' \subseteq Instant
    /\ UNCHANGED asof

Contents == {{}} \union {{v} : v \in Val}

Next ==
    \/ Settle
    \/ \E s \in Instant, written \in SUBSET Id :
         \E content \in [written -> Contents] : Write(s, written, content)

Spec == Init /\ [][Next]_vars
=============================================================================
