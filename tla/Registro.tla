------------------------------ MODULE Registro ------------------------------
(***************************************************************************)
(* What the statistics promise ("Statistiche finali", README.md:57-64): a  *)
(* ledger.  While a day is open things happen; when it is closed the       *)
(* totals are brought up to everything that has happened, and nothing      *)
(* happens until the next day is open.  What the entries in Stimate count  *)
(* may happen at any time, and a part of it may be missing in the totals:  *)
(* they never hold more than what happened.                                *)
(***************************************************************************)
EXTENDS Integers

CONSTANTS Voci, Stimate

VARIABLES
  aperto,  \* the books of a day are open
  fatti,   \* what has happened, for each entry, since the beginning
  totale   \* the totals

rvars == <<aperto, fatti, totale>>

Init ==
  /\ aperto = TRUE
  /\ fatti = [v \in Voci |-> 0]
  /\ totale = [v \in Voci |-> 0]

Accade ==
  /\ \A v \in Voci :
       IF aperto \/ v \in Stimate THEN fatti'[v] >= fatti[v]
                                  ELSE fatti'[v] = fatti[v]
  /\ UNCHANGED <<aperto, totale>>

Chiudi ==
  /\ aperto /\ ~aperto'
  /\ \A v \in Voci :
       IF v \in Stimate THEN totale'[v] \in totale[v]..fatti[v]
                        ELSE totale'[v] = fatti[v]
  /\ UNCHANGED fatti

Riapri ==
  /\ ~aperto /\ aperto'
  /\ UNCHANGED <<fatti, totale>>

Next == Accade \/ Chiudi \/ Riapri

Spec == Init /\ [][Next]_rvars
=============================================================================
