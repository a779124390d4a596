----------------------------- MODULE Condivisa -----------------------------
(***************************************************************************)
(* The part of the shared memory segment (include/shared_structs.h) that   *)
(* the day protocol uses, and the place at which each process stands in    *)
(* its own code.  Operatore, Utente and Responsabile extend this module    *)
(* with the steps of the three programs; Giornata composes them.           *)
(***************************************************************************)
EXTENDS Integers, FiniteSets

CONSTANTS
  Operatori,          \* the operator processes forked by spawn_workers
  Utenti,             \* the user processes forked by spawn_users
  Stazioni,           \* the stations that have operators
  StazioneDi,         \* argv[2] of each operator: the station it works at
  PostazioniTotali,   \* st->postazioni_totali, the same on every day
  NOFPAUSE,           \* pauses an operator may take in a day
  NOFTABLESEATS,      \* initial value of sem_tavoli
  SIMDURATION,        \* number of days
  OVERLOADTHRESHOLD,  \* users left waiting that stop the simulation
  Puntuale            \* TRUE: the naps of the code are long enough (below)

ASSUME CostantiGiornata ==
  /\ IsFiniteSet(Operatori) /\ IsFiniteSet(Utenti)
  /\ Operatori \cap Utenti = {}
  /\ StazioneDi \in [Operatori -> Stazioni]
  /\ PostazioniTotali \in [Stazioni -> Nat \ {0}]
  /\ NOFPAUSE \in Nat /\ NOFTABLESEATS \in Nat
  /\ SIMDURATION \in Nat \ {0} /\ OVERLOADTHRESHOLD \in Nat
  /\ Puntuale \in BOOLEAN

NOFUSERS == Cardinality(Utenti)
Processi == Operatori \cup Utenti

VARIABLES
  simulation_running,   \* shm->simulation_running
  sem_day_start,        \* value of the semaphore that opens the day
  day_barrier_count,    \* users that finished their day
  postazioni_occupate,  \* st->postazioni_occupate of every station
  sem_tavoli,           \* value of the semaphore of the table seats
  stats_giorno,         \* the user counters of shm->stats_giorno
  giorno_corrente,      \* shm->giorno_corrente, the loop variable "day"
  terminazione_causa,   \* "nessuna" until terminate_simulation writes it
  mensa,                \* where mensa.c stands
  op,                   \* where each operator stands in operatore.c
  pause_count,          \* the static counter of each operator process
  ut,                   \* where each user stands in utente.c
  pause_oggi,           \* history: pauses taken since the day was opened
  \* history: the users counted since the counters were last cleared
  attesa_oggi,          \* as left waiting (and not served),
  serviti_oggi          \* as served

giornoVars == <<simulation_running, sem_day_start, day_barrier_count>>
mensaVars  == <<mensa, giorno_corrente, terminazione_causa>>
opVars     == <<op, pause_count, pause_oggi, postazioni_occupate>>
contoVars  == <<stats_giorno, attesa_oggi, serviti_oggi>>
utVars     == <<ut, sem_tavoli, contoVars>>
vars       == <<giornoVars, mensaVars, opVars, utVars>>

(***************************************************************************)
(* Places of the three programs.  "day_start" is the sem_wait on           *)
(* sem_day_start; "uscito" is a process that left main or was killed.      *)
(***************************************************************************)
LuoghiOperatore ==
  {"day_start", "controllo", "acquire", "acquire_lock", "turno", "serve",
   "pausa", "reacquire", "reacquire_lock", "release", "release_pausa",
   "uscito"}

LuoghiUtente ==
  {"day_start", "controllo", "stazioni", "non_servito", "arrivo", "tavolo",
   "posto", "tavolo_perso", "mangia", "fatto", "servito", "barriera",
   "uscito"}

LuoghiMensa ==
  {"reset", "apri", "giorno", "attesa", "chiusura", "overload",
   "kill", "wait", "finita"}

Causa == {"nessuna", "TIMEOUT", "OVERLOAD"}

Contatori == [serviti : Nat, non_serviti : Nat, in_attesa : Nat]

NessunUtente == [serviti |-> 0, non_serviti |-> 0, in_attesa |-> 0]

Luogo(p) == IF p \in Operatori THEN op[p] ELSE ut[p]

Usciti == {p \in Processi : Luogo(p) = "uscito"}

(***************************************************************************)
(* The code waits for its processes with naps of fixed length: 10 and 50   *)
(* ms in the polling loops, up to 5 s then 100 ms in end_day.  With        *)
(* Puntuale = FALSE no nap means anything and every interleaving is        *)
(* allowed.  With Puntuale = TRUE a nap of the manager ends only when      *)
(* every process has done what it can do without sleeping for longer: it   *)
(* is on its semaphore with no token left, on a pause of 2 to 5 s, or out. *)
(***************************************************************************)
Svegli == \A p \in Processi :
            /\ Luogo(p) # "controllo"
            /\ Luogo(p) = "day_start" => sem_day_start = 0

Fermi == /\ Svegli
         /\ \A p \in Processi : Luogo(p) \in {"day_start", "pausa", "uscito"}

=============================================================================
