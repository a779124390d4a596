----------------------------- MODULE MCGiornata -----------------------------
EXTENDS Giornata, TLC

CONSTANTS o1, o2, o3, u1, u2, primi

UnaStazione == [o \in Operatori |-> primi]
DuePosti == [s \in Stazioni |-> 2]
Simmetria == Permutations(Operatori) \cup Permutations(Utenti)
=============================================================================
