----------------------------- MODULE MCServizio -----------------------------
EXTENDS Servizio, TLC

CONSTANTS o1, o2, u1, u2, pasta, riso, nessuna

Simmetria == Permutations(Operatori) \cup Permutations(Utenti)
                                     \cup Permutations(Piatti)
=============================================================================
