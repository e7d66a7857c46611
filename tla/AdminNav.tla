------------------------------ MODULE AdminNav ------------------------------
(***************************************************************************)
(* The admin screen's sections (AdminView.tsx): one is mounted at a time,  *)
(* and what it keeps in its components is lost when it is left, while its  *)
(* requests go on.  A mutation calls back to the screen that started it    *)
(* only while that is mounted and has not started another since.           *)
(***************************************************************************)
EXTENDS Naturals, Sequences, SequencesExt

CONSTANTS
    Sections,
    MaxWrites           \* bound: writes, of this admin and of others

ASSUME AdminNavAssumption == MaxWrites \in Nat

VARIABLES
    section,
    budget              \* what is left of MaxWrites, and the name of a write

nav == <<section, budget>>

NoneOpen == "other"

\* Every write takes one of the bound, and its number for a name.
Spend == budget > 0 /\ budget' = budget - 1

NavInit == section = NoneOpen /\ budget \in 0..MaxWrites
NavTypeOK == section \in Sections \cup {NoneOpen} /\ budget \in 0..MaxWrites

\* The members of a list that are in s, in their order, and those that are not.
KeptOf(list, s) ==
    LET kept[n \in 0..Len(list)] ==
          IF n = 0 THEN <<>>
          ELSE IF list[n] \in s THEN Append(kept[n - 1], list[n]) ELSE kept[n - 1]
    IN  kept[Len(list)]
LeftOf(list, s) == KeptOf(list, ToSet(list) \ s)

\* Writes a screen hears of, less those of the given kind: it has started another.
Unheard(ws, kinds) == {IF w.kind \in kinds THEN [w EXCEPT !.heard = FALSE] ELSE w : w \in ws}
\* A write under way.
InState(ws, w, s) == (ws \ {w}) \cup {[w EXCEPT !.state = s]}

=============================================================================
