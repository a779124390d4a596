----------------------------- MODULE Sportello -----------------------------
(***************************************************************************)
(* What a station promises its users ("0=ok, 1=piatto terminato",          *)
(* include/shared_structs.h:27): a counter that deals with one question of *)
(* each user at a time, as if there were nobody else.  It decides once: a  *)
(* dish is granted by taking a portion off the counter, and refused only   *)
(* when no portion of it is left.  The user goes away with the dish if and *)
(* only if it was granted.  There are no queues, operators or locks here.  *)
(***************************************************************************)
EXTENDS Integers

CONSTANTS Utenti, Piatti, AVGREFILL, MAXPORZIONI

VARIABLES
  aperto,   \* the day is open
  banco,    \* the portions on the counter
  domanda,  \* the question of each user, decided or not
  serviti   \* the users that have their dish

svars == <<aperto, banco, domanda, serviti>>

Nulla == <<"nulla">>

Init ==
  /\ aperto = FALSE
  /\ banco = [p \in Piatti |-> AVGREFILL]
  /\ domanda = [u \in Utenti |-> Nulla]
  /\ serviti = {}

Passa(u, d) == domanda' = [domanda EXCEPT ![u] = d]

Chiedi(u, p) ==
  /\ domanda[u] = Nulla
  /\ Passa(u, <<"fatta", p>>)
  /\ UNCHANGED <<aperto, banco, serviti>>

Accogli(u, p) ==
  /\ domanda[u] = <<"fatta", p>> /\ banco[p] > 0
  /\ banco' = [banco EXCEPT ![p] = @ - 1]
  /\ Passa(u, <<"accolta", p>>)
  /\ UNCHANGED <<aperto, serviti>>

Respingi(u, p) ==
  /\ domanda[u] = <<"fatta", p>> /\ banco[p] = 0
  /\ Passa(u, <<"respinta", p>>)
  /\ UNCHANGED <<aperto, banco, serviti>>

Ritira(u, p) ==
  /\ \/ domanda[u] = <<"accolta", p>> /\ serviti' = serviti \cup {u}
     \/ domanda[u] = <<"respinta", p>> /\ serviti' = serviti
  /\ Passa(u, Nulla)
  /\ UNCHANGED <<aperto, banco>>

\* Users go home when the day is closed, whether their question is decided or not.
Esci(u) ==
  /\ ~aperto /\ u \in serviti
  /\ serviti' = serviti \ {u}
  /\ UNCHANGED <<aperto, banco, domanda>>

\* A day opens on a full counter, with no question left from the last one.
Apri ==
  /\ ~aperto /\ aperto' = TRUE
  /\ domanda = [u \in Utenti |-> Nulla]
  /\ banco = [p \in Piatti |-> AVGREFILL]
  /\ serviti = {}
  /\ UNCHANGED <<banco, domanda, serviti>>

Chiudi ==
  /\ aperto /\ aperto' = FALSE
  /\ UNCHANGED <<banco, domanda, serviti>>

Sgombera ==
  /\ ~aperto /\ serviti = {}
  /\ domanda' = [u \in Utenti |-> Nulla]
  /\ UNCHANGED <<aperto, banco, serviti>>

Riempi ==
  /\ ~aperto /\ serviti = {} /\ domanda = [u \in Utenti |-> Nulla]
  /\ banco' = [p \in Piatti |-> AVGREFILL]
  /\ UNCHANGED <<aperto, domanda, serviti>>

\* One portion at a time, in an open day, "fino a MAX_PORZIONI" (stations.c:57).
Rifornisci(p) ==
  /\ aperto /\ banco[p] < MAXPORZIONI
  /\ banco' = [banco EXCEPT ![p] = @ + 1]
  /\ UNCHANGED <<aperto, domanda, serviti>>

Next ==
  \/ Apri \/ Chiudi \/ Sgombera \/ Riempi
  \/ \E p \in Piatti : Rifornisci(p)
  \/ \E u \in Utenti :
       \/ Esci(u)
       \/ \E p \in Piatti :
            Chiedi(u, p) \/ Accogli(u, p) \/ Respingi(u, p) \/ Ritira(u, p)

Spec == Init /\ [][Next]_svars
=============================================================================
