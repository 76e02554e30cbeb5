--------------------------- MODULE FatConversions ---------------------------
(* The two conversions between what a client sees of a file and what its   *)
(* directory entry holds: its name (FatName) and its stamps (FatTime).     *)
(* They share no state: a behaviour follows one of them.                   *)
EXTENDS FatName, FatTime

VARIABLE part

Init == NameInit /\ TimeInit /\ part \in {"name", "time"}

Next == \/ part = "name" /\ NameNext /\ UNCHANGED <<timeVars, part>>
        \/ part = "time" /\ TimeNext /\ UNCHANGED <<nameVars, part>>

Spec == Init /\ [][Next]_<<nameVars, timeVars, part>>

\* Types: an entry has eleven characters, a date or time field sixteen bits.
TypeOK ==
  /\ \A i \in DOMAIN entries : Len(entries[i].dos) = 11
  /\ call.at \in 0..Len(entries)
  /\ entry # Never => \A f \in DOMAIN entry : entry[f] \in 0..65535
  /\ now \in DOMAIN Clock
=============================================================================
