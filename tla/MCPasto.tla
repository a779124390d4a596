------------------------------ MODULE MCPasto ------------------------------
EXTENDS Pasto

CONSTANTS p1, c1, u1, nessuno

DoveLavora == [o \in Operatori |-> IF o = p1 THEN "primi" ELSE "cassa"]
=============================================================================
