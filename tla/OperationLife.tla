---------------------------- MODULE OperationLife ---------------------------
(***************************************************************************)
(* What a member of an operation is promised, whichever chain keeps it:    *)
(* the team gathers while applications are open and is fixed once the      *)
(* operation runs, a full team is needed to run, there is one ending, and  *)
(* nobody is paid twice or on both sides of it.  The contract and the      *)
(* browser's own chain are both shown to implement this.                   *)
(***************************************************************************)
EXTENDS Integers, FiniteSets

CONSTANTS
    Members,
    Quorum      \* the fewest members an operation runs with

VARIABLES phase, team, paid

life == <<phase, team, paid>>

Init == phase = "none" /\ team = {} /\ paid = {}

(* One opened after its own deadline is called off as it opens.            *)
Open ==
    /\ phase = "none" /\ phase' \in {"open", "refunding"}
    /\ UNCHANGED <<team, paid>>

Join(w) ==
    /\ phase = "open" /\ w \notin team
    /\ team' = team \cup {w}
    /\ UNCHANGED <<phase, paid>>

Leave(w) ==
    /\ phase = "open" /\ w \in team
    /\ team' = team \ {w}
    /\ UNCHANGED <<phase, paid>>

Start ==
    /\ phase = "open" /\ Cardinality(team) >= Quorum
    /\ phase' = "running"
    /\ UNCHANGED <<team, paid>>

(* Called off: everybody is owed what they paid, and some or all of the    *)
(* team may have it at once.                                               *)
CallOff ==
    /\ phase \in {"open", "running"}
    /\ phase' = "refunding"
    /\ paid' \in SUBSET team
    /\ UNCHANGED team

Finish ==
    /\ phase = "running"
    /\ phase' = "completed"
    /\ UNCHANGED <<team, paid>>

Pay(w) ==
    /\ phase \in {"completed", "refunding"} /\ w \in team \ paid
    /\ paid' = paid \cup {w}
    /\ UNCHANGED <<phase, team>>

Next ==
    \/ Open \/ Start \/ CallOff \/ Finish
    \/ \E w \in Members : Join(w) \/ Leave(w) \/ Pay(w)

Spec == Init /\ [][Next]_life
=============================================================================
