----------------------------- MODULE Operatore -----------------------------
(***************************************************************************)
(* The operator process: operator_loop, acquire_station_post,              *)
(* release_station_post and handle_pause of src/operatore.c.  serve_user   *)
(* touches the queue and the portions of its station, not the state of     *)
(* the day: here it is the stay at "serve".                                *)
(***************************************************************************)
EXTENDS Condivisa

OpVai(o, da, a) ==
  /\ op[o] = da
  /\ op' = [op EXCEPT ![o] = a]

\* sem_wait(&shm->sem_day_start) returns
OpPrendeGettone(o) ==
  /\ OpVai(o, "day_start", "controllo")
  /\ sem_day_start > 0
  /\ sem_day_start' = sem_day_start - 1
  /\ UNCHANGED <<simulation_running, day_barrier_count, mensaVars, utVars,
                 pause_count, pause_oggi, postazioni_occupate>>

\* a token, and the day is open: the turn starts with no pause taken
OpInizia(o) ==
  /\ OpVai(o, "controllo", "acquire")
  /\ simulation_running
  /\ pause_count' = [pause_count EXCEPT ![o] = 0]
  /\ UNCHANGED <<giornoVars, mensaVars, utVars, pause_oggi,
                 postazioni_occupate>>

\* a token, and no day is open: the process breaks out of its loop and ends
OpEsce(o) ==
  /\ OpVai(o, "controllo", "uscito")
  /\ ~simulation_running
  /\ UNCHANGED <<giornoVars, mensaVars, utVars, pause_count, pause_oggi,
                 postazioni_occupate>>

(***************************************************************************)
(* acquire_station_post, called at the start of the turn ("acquire") and   *)
(* after a pause ("reacquire"): each round of the loop reads               *)
(* simulation_running and then, under the mutex of the station, takes a    *)
(* post if one is free.                                                    *)
(***************************************************************************)
AcquireTenta(o) ==
  /\ \/ OpVai(o, "acquire", "acquire_lock")
     \/ OpVai(o, "reacquire", "reacquire_lock")
  /\ simulation_running
  /\ UNCHANGED <<giornoVars, mensaVars, utVars, pause_count, pause_oggi,
                 postazioni_occupate>>

\* returns 1: postazioni_occupate < postazioni_totali
AcquirePrende(o) ==
  LET s == StazioneDi[o] IN
  /\ \/ OpVai(o, "acquire_lock", "turno")
     \/ OpVai(o, "reacquire_lock", "turno")
  /\ postazioni_occupate[s] < PostazioniTotali[s]
  /\ postazioni_occupate' = [postazioni_occupate EXCEPT ![s] = @ + 1]
  /\ UNCHANGED <<giornoVars, mensaVars, utVars, pause_count, pause_oggi>>

\* no post is free, or stations_assign_workers is counting the posts up again
\* from 1: nap and try again
AcquireAspetta(o) ==
  LET s == StazioneDi[o] IN
  /\ \/ OpVai(o, "acquire_lock", "acquire")
     \/ OpVai(o, "reacquire_lock", "reacquire")
  /\ postazioni_occupate[s] >= PostazioniTotali[s] \/ mensa = "reset"
  /\ UNCHANGED <<giornoVars, mensaVars, utVars, pause_count, pause_oggi,
                 postazioni_occupate>>

\* variant: every failure breaks to the release, also the first of the turn
AcquireRinuncia_Rilascia(o) ==
  /\ \/ OpVai(o, "acquire", "release")
     \/ OpVai(o, "reacquire", "release_pausa")
  /\ ~simulation_running
  /\ UNCHANGED <<giornoVars, mensaVars, utVars, pause_count, pause_oggi,
                 postazioni_occupate>>

\* returns 0: the caller goes back to sem_day_start ("continue") or, after a
\* pause, breaks out of the turn to the release_station_post that follows it
AcquireRinuncia(o) ==
  /\ \/ OpVai(o, "acquire", "day_start")
     \/ OpVai(o, "reacquire", "release_pausa")
  /\ ~simulation_running
  /\ UNCHANGED <<giornoVars, mensaVars, utVars, pause_count, pause_oggi,
                 postazioni_occupate>>

\* while (shm->simulation_running)
TurnoContinua(o) ==
  /\ OpVai(o, "turno", "serve")
  /\ simulation_running
  /\ UNCHANGED <<giornoVars, mensaVars, utVars, pause_count, pause_oggi,
                 postazioni_occupate>>

TurnoFinito(o) ==
  /\ OpVai(o, "turno", "release")
  /\ ~simulation_running
  /\ UNCHANGED <<giornoVars, mensaVars, utVars, pause_count, pause_oggi,
                 postazioni_occupate>>

\* serve_user returns and no pause is taken: the quota of pauses is used up,
\* the draw of rand_range says no, or the post is the last one occupied
ServeSenzaPausa(o) ==
  /\ OpVai(o, "serve", "turno")
  /\ UNCHANGED <<giornoVars, mensaVars, utVars, pause_count, pause_oggi,
                 postazioni_occupate>>

\* variants: with the post left counted, with one pause too many, and with the
\* last operator of the station allowed to go
Pausa(o, quota, minimo, lascia) ==
  LET s == StazioneDi[o] IN
  /\ OpVai(o, "serve", "pausa")
  /\ pause_count[o] < quota
  /\ postazioni_occupate[s] > minimo
  /\ postazioni_occupate' = [postazioni_occupate EXCEPT ![s] = @ - lascia]
  /\ pause_count' = [pause_count EXCEPT ![o] = @ + 1]
  /\ pause_oggi' = [pause_oggi EXCEPT ![o] = @ + 1]
  /\ UNCHANGED <<giornoVars, mensaVars, utVars>>

handle_pause_PostoContato(o) == Pausa(o, NOFPAUSE, 1, 0)
handle_pause_UnaInPiu(o) == Pausa(o, NOFPAUSE + 1, 1, 1)
handle_pause_Ultimo(o) == Pausa(o, NOFPAUSE, 0, 1)

\* serve_user returns and handle_pause leaves the post and sleeps
handle_pause(o) ==
  LET s == StazioneDi[o] IN
  /\ OpVai(o, "serve", "pausa")
  /\ pause_count[o] < NOFPAUSE
  /\ postazioni_occupate[s] > 1
  /\ postazioni_occupate' = [postazioni_occupate EXCEPT ![s] = @ - 1]
  /\ pause_count' = [pause_count EXCEPT ![o] = @ + 1]
  /\ pause_oggi' = [pause_oggi EXCEPT ![o] = @ + 1]
  /\ UNCHANGED <<giornoVars, mensaVars, utVars>>

\* the 2 to 5 s of the pause are over
FinePausa(o) ==
  /\ OpVai(o, "pausa", "reacquire")
  /\ UNCHANGED <<giornoVars, mensaVars, utVars, pause_count, pause_oggi,
                 postazioni_occupate>>

\* release_station_post at the end of operator_loop, reached with a post
\* ("release") and from a failed return from a pause ("release_pausa")
release_station_post(o) ==
  /\ \/ OpVai(o, "release", "day_start")
     \/ OpVai(o, "release_pausa", "day_start")
  /\ postazioni_occupate' = [postazioni_occupate EXCEPT ![StazioneDi[o]] = @ - 1]
  /\ UNCHANGED <<giornoVars, mensaVars, utVars, pause_count, pause_oggi>>

operator_loop(o) ==
  \/ OpPrendeGettone(o) \/ OpInizia(o) \/ OpEsce(o)
  \/ AcquireTenta(o) \/ AcquirePrende(o) \/ AcquireAspetta(o)
  \/ AcquireRinuncia(o)
  \/ TurnoContinua(o) \/ TurnoFinito(o) \/ ServeSenzaPausa(o)
  \/ handle_pause(o) \/ FinePausa(o) \/ release_station_post(o)

\* The operators that hold a post of station s
Attivi(s) == {o \in Operatori : /\ StazioneDi[o] = s
                                /\ op[o] \in {"turno", "serve", "release"}}

=============================================================================
