---------------------------- MODULE Simulazione ----------------------------
(***************************************************************************)
(* What the simulation promises ("Condizioni di Terminazione", README.md:  *)
(* 48-53): days follow one another until SIMDURATION of them are complete  *)
(* (TIMEOUT) or one of them ends with more than OVERLOADTHRESHOLD users    *)
(* left waiting (OVERLOAD).  Operators, users, posts, seats and semaphores *)
(* are hidden: all that is seen of them is that users are counted.         *)
(***************************************************************************)
EXTENDS Integers

CONSTANTS SIMDURATION, OVERLOADTHRESHOLD

VARIABLES
  giorno,      \* the day
  fase,        \* "giorno", "nuovo" between two days, "fine", "finita"
  in_attesa,   \* users of the day counted as left waiting
  causa        \* why the simulation ends

svars == <<giorno, fase, in_attesa, causa>>

Init ==
  /\ giorno = 1
  /\ fase = "giorno"
  /\ in_attesa = 0
  /\ causa = "nessuna"

\* A user is counted, also late: between two days or at the end.
Attende ==
  /\ fase # "finita"
  /\ in_attesa' = in_attesa + 1
  /\ UNCHANGED <<giorno, fase, causa>>

Prosegui ==
  /\ fase = "giorno" /\ in_attesa <= OVERLOADTHRESHOLD /\ giorno < SIMDURATION
  /\ fase' = "nuovo"
  /\ UNCHANGED <<giorno, in_attesa, causa>>

NuovoGiorno ==
  /\ fase = "nuovo"
  /\ fase' = "giorno"
  /\ giorno' = giorno + 1
  /\ in_attesa' = 0
  /\ UNCHANGED causa

Overload ==
  /\ fase = "giorno" /\ in_attesa > OVERLOADTHRESHOLD
  /\ fase' = "fine"
  /\ causa' = "OVERLOAD"
  /\ UNCHANGED <<giorno, in_attesa>>

Timeout ==
  /\ fase = "giorno" /\ in_attesa <= OVERLOADTHRESHOLD /\ giorno = SIMDURATION
  /\ fase' = "fine"
  /\ causa' = "TIMEOUT"
  /\ UNCHANGED <<giorno, in_attesa>>

Finisci ==
  /\ fase = "fine"
  /\ fase' = "finita"
  /\ UNCHANGED <<giorno, in_attesa, causa>>

Decidi == Prosegui \/ NuovoGiorno \/ Overload \/ Timeout \/ Finisci

Next == Attende \/ Decidi

Spec == Init /\ [][Next]_svars
=============================================================================
