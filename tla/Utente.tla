------------------------------- MODULE Utente -------------------------------
(***************************************************************************)
(* The user process: user_loop, end_day_while_waiting and                  *)
(* go_to_tavolo_and_eat of src/utente.c.  The visits to the stations and   *)
(* to the till exchange messages with the operators; of these visits the   *)
(* day protocol sees only how they end, and the place "stazioni" stands    *)
(* for them.                                                               *)
(***************************************************************************)
EXTENDS Condivisa

UtVai(u, da, a) ==
  /\ ut[u] = da
  /\ ut' = [ut EXCEPT ![u] = a]

\* utenti_non_serviti++ and utenti_in_attesa++ under sem_stats
ContaNonServito(u) ==
  /\ stats_giorno' = [stats_giorno EXCEPT !.non_serviti = @ + 1,
                                          !.in_attesa = @ + 1]
  /\ attesa_oggi' = attesa_oggi \cup {u}
  /\ UNCHANGED serviti_oggi

\* sem_wait(&shm->sem_day_start) returns
UtPrendeGettone(u) ==
  /\ UtVai(u, "day_start", "controllo")
  /\ sem_day_start > 0
  /\ sem_day_start' = sem_day_start - 1
  /\ UNCHANGED <<simulation_running, day_barrier_count, mensaVars, opVars,
                 sem_tavoli, contoVars>>

UtInizia(u) ==
  /\ UtVai(u, "controllo", "stazioni")
  /\ simulation_running
  /\ UNCHANGED <<giornoVars, mensaVars, opVars, sem_tavoli, contoVars>>

UtEsce(u) ==
  /\ UtVai(u, "controllo", "uscito")
  /\ ~simulation_running
  /\ UNCHANGED <<giornoVars, mensaVars, opVars, sem_tavoli, contoVars>>

\* A check of simulation_running in or after a visit finds the day closed:
\* end_day_while_waiting, or go_to_cassa returning 0
UtTrovaChiuso(u) ==
  /\ UtVai(u, "stazioni", "non_servito")
  /\ ~simulation_running
  /\ UNCHANGED <<giornoVars, mensaVars, opVars, sem_tavoli, contoVars>>

\* No first and no second course left: the user gives up the day
UtRinuncia(u) ==
  /\ UtVai(u, "stazioni", "non_servito")
  /\ simulation_running
  /\ UNCHANGED <<giornoVars, mensaVars, opVars, sem_tavoli, contoVars>>

\* Served and paid, and the last check of the day finds it open
UtPaga(u) ==
  /\ UtVai(u, "stazioni", "tavolo")
  /\ simulation_running
  /\ UNCHANGED <<giornoVars, mensaVars, opVars, sem_tavoli, contoVars>>

\* variant: one of the three copies of the block goes to the barrier without
\* counting the user
UtContaNonServito_Dimentica(u) ==
  /\ UtVai(u, "non_servito", "arrivo")
  /\ ContaNonServito(u) \/ (simulation_running /\ UNCHANGED contoVars)
  /\ UNCHANGED <<giornoVars, mensaVars, opVars, sem_tavoli>>

UtContaNonServito(u) ==
  /\ UtVai(u, "non_servito", "arrivo")
  /\ ContaNonServito(u)
  /\ UNCHANGED <<giornoVars, mensaVars, opVars, sem_tavoli>>

\* __sync_fetch_and_add(&shm->day_barrier_count, 1), for a user counted as not
\* served ("arrivo") and for one back from the table ("fatto")
UtArriva(u) ==
  /\ \/ UtVai(u, "arrivo", "barriera")
     \/ UtVai(u, "fatto", "servito")
  /\ Puntuale => Svegli
  /\ day_barrier_count' = day_barrier_count + 1
  /\ UNCHANGED <<simulation_running, sem_day_start, mensaVars, opVars,
                 sem_tavoli, contoVars>>

(***************************************************************************)
(* go_to_tavolo_and_eat: each round of the loop reads simulation_running   *)
(* and then waits on sem_tavoli for at most 100 ms.                        *)
(***************************************************************************)
TavoloCerca(u) ==
  /\ UtVai(u, "tavolo", "posto")
  /\ simulation_running
  /\ UNCHANGED <<giornoVars, mensaVars, opVars, sem_tavoli, contoVars>>

\* variant: the result of sem_timedwait is not looked at
TavoloPreso_SenzaEsito(u) ==
  /\ UtVai(u, "posto", "mangia")
  /\ sem_tavoli' = sem_tavoli - 1
  /\ UNCHANGED <<giornoVars, mensaVars, opVars, contoVars>>

TavoloPreso(u) ==
  /\ UtVai(u, "posto", "mangia")
  /\ sem_tavoli > 0
  /\ sem_tavoli' = sem_tavoli - 1
  /\ UNCHANGED <<giornoVars, mensaVars, opVars, contoVars>>

\* ETIMEDOUT
TavoloScaduto(u) ==
  /\ UtVai(u, "posto", "tavolo")
  /\ sem_tavoli = 0
  /\ UNCHANGED <<giornoVars, mensaVars, opVars, sem_tavoli, contoVars>>

\* The day closes while the user looks for a seat: counted as not served
TavoloChiuso(u) ==
  /\ UtVai(u, "tavolo", "tavolo_perso")
  /\ ~simulation_running
  /\ UNCHANGED <<giornoVars, mensaVars, opVars, sem_tavoli, contoVars>>

TavoloPerso(u) ==
  /\ UtVai(u, "tavolo_perso", "fatto")
  /\ ContaNonServito(u)
  /\ UNCHANGED <<giornoVars, mensaVars, opVars, sem_tavoli>>

\* variant: a user surprised by the end of the day leaves without sem_post
FineMangiare_Interrotto(u) ==
  /\ UtVai(u, "mangia", "fatto")
  /\ sem_tavoli' = IF simulation_running THEN sem_tavoli + 1 ELSE sem_tavoli
  /\ UNCHANGED <<giornoVars, mensaVars, opVars, contoVars>>

FineMangiare(u) ==
  /\ UtVai(u, "mangia", "fatto")
  /\ sem_tavoli' = sem_tavoli + 1
  /\ UNCHANGED <<giornoVars, mensaVars, opVars, contoVars>>

\* utenti_serviti++ , after the arrival at the barrier
UtContaServito(u) ==
  /\ UtVai(u, "servito", "barriera")
  /\ stats_giorno' = [stats_giorno EXCEPT !.serviti = @ + 1]
  /\ serviti_oggi' = serviti_oggi \cup {u}
  /\ UNCHANGED <<giornoVars, mensaVars, opVars, sem_tavoli, attesa_oggi>>

\* while (day_barrier_count < NOFUSERS && simulation_running) is left
UtLasciaBarriera(u) ==
  /\ UtVai(u, "barriera", "day_start")
  /\ day_barrier_count >= NOFUSERS \/ ~simulation_running
  /\ UNCHANGED <<giornoVars, mensaVars, opVars, sem_tavoli, contoVars>>

user_loop(u) ==
  \/ UtPrendeGettone(u) \/ UtInizia(u) \/ UtEsce(u)
  \/ UtTrovaChiuso(u) \/ UtRinuncia(u) \/ UtPaga(u)
  \/ UtContaNonServito(u) \/ UtArriva(u)
  \/ TavoloCerca(u) \/ TavoloPreso(u) \/ TavoloScaduto(u)
  \/ TavoloChiuso(u) \/ TavoloPerso(u) \/ FineMangiare(u)
  \/ UtContaServito(u) \/ UtLasciaBarriera(u)

ATavola == {u \in Utenti : ut[u] = "mangia"}

=============================================================================
