------------------------------- MODULE Pasto -------------------------------
(***************************************************************************)
(* A user's way through the four stations and the accounts of it: the      *)
(* visits of user_loop, go_to_station and go_to_cassa (src/utente.c), the  *)
(* services and update_stats_on_service (src/operatore.c), pause_totali,   *)
(* and the accounts of the day and of the simulation (src/stats.c, end_day *)
(* of src/mensa.c).  The order of the messages and the portions are in     *)
(* Servizio, the seats and the posts of the operators in Giornata: here an *)
(* operator may be left without a post for the whole day (it serves        *)
(* nobody) and may pause whether somebody else is on a post or not.  The   *)
(* naps of the manager are taken to be long enough, as with Puntuale there.*)
(***************************************************************************)
EXTENDS Integers, FiniteSets

CONSTANTS
  Utenti, Operatori,
  StazioneDi,   \* the station of each operator
  Menu,         \* what a user can ask for
  NOFPAUSE, SIMDURATION,
  Nessuno       \* no request in the hands of an operator

Portate == {"primi", "secondi"}
Piatti == Portate \cup {"coffee"}
Stazioni == Piatti \cup {"cassa"}

ASSUME CostantiPasto ==
  /\ IsFiniteSet(Utenti) /\ IsFiniteSet(Operatori)
  /\ StazioneDi \in [Operatori -> Stazioni]
  /\ Menu \subseteq Piatti /\ Menu \cap Portate # {}
  /\ NOFPAUSE \in Nat /\ SIMDURATION \in Nat \ {0}

NOFUSERS == Cardinality(Utenti)
NOFWORKERS == Cardinality(Operatori)

\* The fields of stats_t that are kept.  "ricavo" is ricavo_giornaliero with
\* every price 1: the plates paid for.
Voci == Piatti \cup {"serviti", "non_serviti", "ricavo", "pause"}
ZeroVoci == [v \in Voci |-> 0]

\* ha_primo, ha_secondo and ha_coffee travel with the request to the till
Richiesta == [utente : Utenti, ha : SUBSET Piatti]

VARIABLES
  simulation_running, sem_day_start, day_barrier_count,
  giorno_corrente, mensa,
  richieste,    \* at each station, requests of mtype 1 (one of a user at a time)
  risposte,     \* at each station, answers: pairs of a user and an esito
  ut, tappa,    \* where a user stands, and at which station
  vuole, ha,    \* want_* and got_*
  op, preso,    \* where an operator stands, and the request it serves
  pause_count,
  letto,        \* the register of its pause_totali++
  stats_giorno, stats_tot,
  fatti         \* history: what has happened since the beginning

mensaVars == <<simulation_running, giorno_corrente, mensa>>
code   == <<richieste, risposte>>
utVars == <<ut, tappa, vuole, ha, day_barrier_count>>
pausaVars == <<pause_count, letto>>
opVars == <<op, preso, pausaVars>>
conti  == <<stats_giorno, stats_tot, fatti>>
vars   == <<mensaVars, sem_day_start, code, utVars, opVars, conti>>

LuoghiMensa == {"apri", "giorno", "attesa", "chiusura", "reset", "finita"}
LuoghiUtente == {"day_start", "sceglie", "attende", "esce", "non_servito",
                 "arrivo", "tavolo", "mangia", "fatto", "servito", "barriera",
                 "uscito"}
LuoghiOperatore == {"day_start", "turno", "risponde", "aggiorna", "dopo",
                    "leggi", "scrivi", "pausa", "uscito"}

Init ==
  /\ simulation_running = FALSE /\ sem_day_start = 0 /\ day_barrier_count = 0
  /\ giorno_corrente = 1 /\ mensa = "apri"
  /\ richieste = [s \in Stazioni |-> {}]
  /\ risposte = [s \in Stazioni |-> {}]
  /\ ut = [u \in Utenti |-> "day_start"]
  /\ tappa = [u \in Utenti |-> "primi"]
  /\ vuole = [u \in Utenti |-> {}]
  /\ ha = [u \in Utenti |-> {}]
  /\ op = [o \in Operatori |-> "day_start"]
  /\ preso = [o \in Operatori |-> Nessuno]
  /\ pause_count = [o \in Operatori |-> 0]
  /\ letto = [o \in Operatori |-> 0]
  /\ stats_giorno = ZeroVoci /\ stats_tot = ZeroVoci /\ fatti = ZeroVoci

Conta(v, n) == stats_giorno' = [stats_giorno EXCEPT ![v] = @ + n]
Accade(v, n) == fatti' = [fatti EXCEPT ![v] = @ + n]

-----------------------------------------------------------------------------
(***************************************************************************)
(* The user.                                                               *)
(***************************************************************************)
UtVai(u, da, a) ==
  /\ ut[u] = da
  /\ ut' = [ut EXCEPT ![u] = a]

\* the token of the day; what the user wants today: a first course, a second
\* course or both, and perhaps a coffee
UtInizia(u) ==
  /\ UtVai(u, "day_start", "sceglie")
  /\ sem_day_start > 0 /\ simulation_running
  /\ sem_day_start' = sem_day_start - 1
  /\ tappa' = [tappa EXCEPT ![u] = "primi"]
  /\ \E w \in SUBSET Menu :
       w \cap Portate # {} /\ vuole' = [vuole EXCEPT ![u] = w]
  /\ ha' = [ha EXCEPT ![u] = {}]
  /\ UNCHANGED <<mensaVars, day_barrier_count, code, opVars, conti>>

UtEsce(u) ==
  /\ UtVai(u, "day_start", "uscito")
  /\ sem_day_start > 0 /\ ~simulation_running
  /\ sem_day_start' = sem_day_start - 1
  /\ UNCHANGED <<mensaVars, tappa, vuole, ha, day_barrier_count, code, opVars,
                 conti>>

\* a station the user wants nothing of
UtSalta(u) ==
  /\ UtVai(u, "sceglie", "esce")
  /\ tappa[u] \notin vuole[u] \cup {"cassa"}
  /\ UNCHANGED <<mensaVars, sem_day_start, tappa, vuole, ha, day_barrier_count,
                 code, opVars, conti>>

\* msgsnd of the request.  The loop over the dishes reads simulation_running
\* before each of them; for the coffee and at the till nothing is read.
UtChiede(u) ==
  LET s == tappa[u] IN
  /\ UtVai(u, "sceglie", "attende")
  /\ s \in vuole[u] \cup {"cassa"}
  /\ s \in Portate => simulation_running
  /\ richieste' = [richieste EXCEPT ![s] =
       @ \cup {[utente |-> u, ha |-> IF s = "cassa" THEN ha[u] ELSE {}]}]
  /\ UNCHANGED <<mensaVars, sem_day_start, tappa, vuole, ha, day_barrier_count,
                 risposte, opVars, conti>>

\* the answer to u at station s
Ricevuta(u, s, esito) ==
  /\ <<u, esito>> \in risposte[s]
  /\ risposte' = [risposte EXCEPT ![s] = @ \ {<<u, esito>>}]
  /\ UNCHANGED <<mensaVars, sem_day_start, richieste, tappa, day_barrier_count,
                 opVars, conti>>

UtServito(u) ==
  /\ UtVai(u, "attende", "esce")
  /\ Ricevuta(u, tappa[u], 0)
  /\ ha' = [ha EXCEPT ![u] = @ \cup ({tappa[u]} \ {"cassa"})]
  /\ UNCHANGED vuole

\* the dish is finished: the next one of the shuffled order ...
UtRiprova(u) ==
  /\ UtVai(u, "attende", "sceglie")
  /\ Ricevuta(u, tappa[u], 1)
  /\ UNCHANGED <<vuole, ha>>

\* variant: want_* is left as it was
UtSenza_VuoleAncora(u) ==
  /\ UtVai(u, "attende", "esce")
  /\ Ricevuta(u, tappa[u], 1)
  /\ UNCHANGED <<vuole, ha>>

\* ... or that was the last one, and the user does without
UtSenza(u) ==
  /\ UtVai(u, "attende", "esce")
  /\ Ricevuta(u, tappa[u], 1)
  /\ vuole' = [vuole EXCEPT ![u] = @ \ {tappa[u]}]
  /\ UNCHANGED ha

\* the day closes before a dish is asked for or while the user waits
UtInterrotto(u) ==
  LET s == tappa[u] IN
  /\ ~simulation_running
  /\ \/ s \in Portate /\ s \in vuole[u] /\ UtVai(u, "sceglie", "esce")
     \/ s # "cassa" /\ UtVai(u, "attende", "esce")
     \/ s = "cassa" /\ UtVai(u, "attende", "non_servito")
  /\ vuole' = [vuole EXCEPT ![u] = @ \ ({s} \cap Portate)]
  /\ UNCHANGED <<mensaVars, sem_day_start, tappa, ha, day_barrier_count, code,
                 opVars, conti>>

\* end_day_while_waiting after a station finds the day open: on to the next one,
\* or home when neither a first nor a second course was to be had
Prossima == [primi |-> "secondi", secondi |-> "coffee", coffee |-> "cassa",
             cassa |-> "cassa"]

UtAvanza(u) ==
  LET s == tappa[u]
      senza == s = "secondi" /\ vuole[u] \cap Portate = {}
  IN
  /\ UtVai(u, "esce", IF s = "cassa" THEN "tavolo"
                      ELSE IF senza THEN "non_servito" ELSE "sceglie")
  /\ simulation_running
  /\ tappa' = [tappa EXCEPT ![u] = Prossima[s]]
  /\ UNCHANGED <<mensaVars, sem_day_start, vuole, ha, day_barrier_count, code,
                 opVars, conti>>

\* ... finds it closed
UtTrovaChiuso(u) ==
  /\ UtVai(u, "esce", "non_servito")
  /\ ~simulation_running
  /\ UNCHANGED <<mensaVars, sem_day_start, tappa, vuole, ha, day_barrier_count,
                 code, opVars, conti>>

\* utenti_non_serviti++, also for a user that is still without a seat when the
\* day closes and will be counted as served all the same
UtContaNonServito(u) ==
  /\ \/ UtVai(u, "non_servito", "arrivo")
     \/ UtVai(u, "tavolo", "fatto") /\ ~simulation_running
  /\ Conta("non_serviti", 1) /\ Accade("non_serviti", 1)
  /\ UNCHANGED <<mensaVars, sem_day_start, tappa, vuole, ha, day_barrier_count,
                 code, opVars, stats_tot>>

\* a seat, and the meal: 1.5 s for each plate, that a closing day does not cut
UtMangia(u) ==
  /\ UtVai(u, "tavolo", "mangia") \/ UtVai(u, "mangia", "fatto")
  /\ UNCHANGED <<mensaVars, sem_day_start, tappa, vuole, ha, day_barrier_count,
                 code, opVars, conti>>

\* who waits for its token takes it before a user is through with its day, and
\* before the day is over
Svegli ==
  sem_day_start > 0 =>
    /\ \A u \in Utenti : ut[u] # "day_start"
    /\ \A o \in Operatori : op[o] # "day_start"

Arrivato ==
  /\ Svegli
  /\ day_barrier_count' = day_barrier_count + 1
  /\ UNCHANGED <<mensaVars, sem_day_start, tappa, vuole, ha, code, opVars,
                 stats_giorno, stats_tot>>

UtArriva(u) == UtVai(u, "arrivo", "barriera") /\ Arrivato /\ UNCHANGED fatti

\* back from the table: at the barrier first, counted as served afterwards
UtArrivaServito(u) ==
  UtVai(u, "fatto", "servito") /\ Arrivato /\ Accade("serviti", 1)

UtContaServito(u) ==
  /\ UtVai(u, "servito", "barriera")
  /\ Conta("serviti", 1)
  /\ UNCHANGED <<mensaVars, sem_day_start, tappa, vuole, ha, day_barrier_count,
                 code, opVars, stats_tot, fatti>>

UtLasciaBarriera(u) ==
  /\ UtVai(u, "barriera", "day_start")
  /\ day_barrier_count >= NOFUSERS \/ ~simulation_running
  /\ UNCHANGED <<mensaVars, sem_day_start, tappa, vuole, ha, day_barrier_count,
                 code, opVars, conti>>

user_loop(u) ==
  \/ UtInizia(u) \/ UtEsce(u) \/ UtSalta(u) \/ UtChiede(u) \/ UtServito(u)
  \/ UtRiprova(u) \/ UtSenza(u) \/ UtInterrotto(u) \/ UtAvanza(u)
  \/ UtTrovaChiuso(u) \/ UtContaNonServito(u) \/ UtMangia(u) \/ UtArriva(u)
  \/ UtArrivaServito(u) \/ UtContaServito(u) \/ UtLasciaBarriera(u)

-----------------------------------------------------------------------------
(***************************************************************************)
(* The operator.                                                           *)
(***************************************************************************)
OpVai(o, da, a) ==
  /\ op[o] = da
  /\ op' = [op EXCEPT ![o] = a]

\* what the steps of the loop and of the pauses leave alone
FuoriPause == UNCHANGED <<mensaVars, code, utVars, preso, stats_tot>>

OpInizia(o) ==
  /\ OpVai(o, "day_start", "turno")
  /\ sem_day_start > 0 /\ simulation_running
  /\ sem_day_start' = sem_day_start - 1
  /\ pause_count' = [pause_count EXCEPT ![o] = 0]
  /\ FuoriPause
  /\ UNCHANGED <<letto, stats_giorno, fatti>>

OpEsce(o) ==
  /\ OpVai(o, "day_start", "uscito")
  /\ sem_day_start > 0 /\ ~simulation_running
  /\ sem_day_start' = sem_day_start - 1
  /\ FuoriPause
  /\ UNCHANGED <<pausaVars, stats_giorno, fatti>>

\* msgrcv of a request.  With ENOMSG the operator goes round the loop: nothing
\* changes until a request comes, the day closes or the operator pauses.
OpRiceve(o) ==
  /\ OpVai(o, "turno", "risponde")
  /\ \E r \in richieste[StazioneDi[o]] :
       /\ richieste' = [richieste EXCEPT ![StazioneDi[o]] = @ \ {r}]
       /\ preso' = [preso EXCEPT ![o] = r]
  /\ UNCHANGED <<mensaVars, sem_day_start, risposte, utVars, pausaVars, conti>>

OpManda(o, esito) ==
  /\ risposte' = [risposte EXCEPT ![StazioneDi[o]] =
                    @ \cup {<<preso[o].utente, esito>>}]
  /\ UNCHANGED <<mensaVars, sem_day_start, richieste, utVars, pausaVars, stats_giorno,
                 stats_tot>>

\* what the service of o comes to: a plate, or at the till the plates paid
ServizioDi(o) == IF StazioneDi[o] = "cassa"
                   THEN <<"ricavo", Cardinality(preso[o].ha)>>
                   ELSE <<StazioneDi[o], 1>>

\* the answer leaves before the service is counted
OpServe(o) ==
  /\ OpVai(o, "risponde", "aggiorna")
  /\ OpManda(o, 0)
  /\ Accade(ServizioDi(o)[1], ServizioDi(o)[2])
  /\ UNCHANGED preso

\* no portion left of the dish
OpEsaurito(o) ==
  /\ OpVai(o, "risponde", "dopo")
  /\ StazioneDi[o] \in Portate
  /\ OpManda(o, 1)
  /\ preso' = [preso EXCEPT ![o] = Nessuno]
  /\ UNCHANGED fatti

update_stats_on_service(o) ==
  /\ OpVai(o, "aggiorna", "dopo")
  /\ Conta(ServizioDi(o)[1], ServizioDi(o)[2])
  /\ preso' = [preso EXCEPT ![o] = Nessuno]
  /\ UNCHANGED <<mensaVars, sem_day_start, code, utVars, pausaVars, stats_tot, fatti>>

\* the loop over serve_user goes round after a service or a pause ...
OpContinua(o) ==
  /\ OpVai(o, "dopo", "turno") \/ OpVai(o, "pausa", "turno")
  /\ simulation_running
  /\ FuoriPause
  /\ UNCHANGED <<sem_day_start, pausaVars, stats_giorno, fatti>>

\* ... and is left when the day is closed, also without a post
TurnoFinito(o) ==
  /\ OpVai(o, "dopo", "day_start") \/ OpVai(o, "pausa", "day_start")
       \/ OpVai(o, "turno", "day_start")
  /\ ~simulation_running
  /\ FuoriPause
  /\ UNCHANGED <<sem_day_start, pausaVars, stats_giorno, fatti>>

\* variant: one pause more than NOFPAUSE
handle_pause_UnaInPiu(o) ==
  /\ \/ OpVai(o, "dopo", "leggi")
     \/ OpVai(o, "turno", "leggi") /\ richieste[StazioneDi[o]] = {}
  /\ pause_count[o] <= NOFPAUSE
  /\ pause_count' = [pause_count EXCEPT ![o] = @ + 1]
  /\ Accade("pause", 1)
  /\ FuoriPause
  /\ UNCHANGED <<sem_day_start, letto, stats_giorno>>

\* postazioni_occupate, which keeps the last operator on its post, is in Giornata
handle_pause(o) ==
  /\ \/ OpVai(o, "dopo", "leggi")
     \/ OpVai(o, "turno", "leggi") /\ richieste[StazioneDi[o]] = {}
  /\ pause_count[o] < NOFPAUSE
  /\ pause_count' = [pause_count EXCEPT ![o] = @ + 1]
  /\ Accade("pause", 1)
  /\ FuoriPause
  /\ UNCHANGED <<sem_day_start, letto, stats_giorno>>

\* pause_totali++ outside of sem_stats: a load ...
PausaLegge(o) ==
  /\ OpVai(o, "leggi", "scrivi")
  /\ letto' = [letto EXCEPT ![o] = stats_giorno["pause"]]
  /\ FuoriPause
  /\ UNCHANGED <<sem_day_start, pause_count, stats_giorno,
                 fatti>>

\* ... and a store
PausaScrive(o) ==
  /\ OpVai(o, "scrivi", "pausa")
  /\ stats_giorno' = [stats_giorno EXCEPT !["pause"] = letto[o] + 1]
  /\ letto' = [letto EXCEPT ![o] = 0]
  /\ FuoriPause
  /\ UNCHANGED <<sem_day_start, pause_count, fatti>>

operator_loop(o) ==
  \/ OpInizia(o) \/ OpEsce(o) \/ OpRiceve(o) \/ OpServe(o) \/ OpEsaurito(o)
  \/ update_stats_on_service(o) \/ OpContinua(o) \/ TurnoFinito(o)
  \/ handle_pause(o) \/ PausaLegge(o) \/ PausaScrive(o)

-----------------------------------------------------------------------------
(***************************************************************************)
(* The manager.                                                            *)
(***************************************************************************)
MensaVai(da, a) == mensa = da /\ mensa' = a

CodeVuote == [s \in Stazioni |-> {}]

\* start_new_day, for day > 1: clear_message_queues, the day, its accounts
start_new_day ==
  /\ MensaVai("reset", "apri")
  /\ richieste' = CodeVuote /\ risposte' = CodeVuote
  /\ giorno_corrente' = giorno_corrente + 1
  /\ stats_giorno' = ZeroVoci
  /\ UNCHANGED <<simulation_running, sem_day_start, utVars, opVars, stats_tot,
                 fatti>>

ApriGiorno ==
  /\ MensaVai("apri", "giorno")
  /\ day_barrier_count' = 0
  /\ simulation_running' = TRUE
  /\ sem_day_start' = sem_day_start + NOFUSERS + NOFWORKERS
  /\ UNCHANGED <<giorno_corrente, code, ut, tappa, vuole, ha, opVars, conti>>

end_day ==
  /\ MensaVai("giorno", "attesa")
  /\ Svegli
  /\ simulation_running' = FALSE
  /\ UNCHANGED <<giorno_corrente, sem_day_start, code, utVars, opVars, conti>>

\* 100 cycles are longer than a meal (4.5 s)
FineAttesa ==
  /\ MensaVai("attesa", "chiusura")
  /\ \/ day_barrier_count >= NOFUSERS
     \/ \A u \in Utenti : ut[u] \in {"day_start", "uscito"}
  /\ UNCHANGED <<simulation_running, giorno_corrente, sem_day_start, code,
                 utVars, opVars, conti>>

\* the last nap of end_day: long enough for everything but a pause, the wait for
\* a seat and a meal
Fermi ==
  /\ \A u \in Utenti : ut[u] \in {"day_start", "uscito", "tavolo", "mangia"}
  /\ \A o \in Operatori : op[o] \in {"day_start", "uscito", "pausa"}

\* the end of the simulation, and a token for everybody: after the last day, or
\* after any other one that leaves too many users waiting (the count and its
\* threshold are in Responsabile)
terminate_simulation ==
  /\ MensaVai("chiusura", "finita")
  /\ sem_day_start' = sem_day_start + NOFUSERS + NOFWORKERS

\* the totals; then the next day or the end
AggiornaTotali ==
  /\ \/ /\ MensaVai("chiusura", "reset")
        /\ giorno_corrente < SIMDURATION
        /\ UNCHANGED sem_day_start
     \/ terminate_simulation
  /\ stats_tot' = [v \in Voci |-> stats_tot[v] + stats_giorno[v]]
  /\ UNCHANGED <<simulation_running, giorno_corrente, code, utVars, opVars,
                 stats_giorno, fatti>>

\* variant: no nap between the barrier and the accounts
stats_update_totals_SenzaSonno == AggiornaTotali

stats_update_totals == Fermi /\ AggiornaTotali

simulate_days ==
  \/ start_new_day \/ ApriGiorno \/ end_day \/ FineAttesa \/ stats_update_totals

Next ==
  \/ simulate_days
  \/ \E u \in Utenti : user_loop(u)
  \/ \E o \in Operatori : operator_loop(o)

Spec == Init /\ [][Next]_vars

-----------------------------------------------------------------------------
\* Types.
TypeOK ==
  /\ simulation_running \in BOOLEAN
  /\ sem_day_start \in Nat /\ day_barrier_count \in Nat
  /\ giorno_corrente \in 1..SIMDURATION /\ mensa \in LuoghiMensa
  /\ richieste \in [Stazioni -> SUBSET Richiesta]
  /\ risposte \in [Stazioni -> SUBSET (Utenti \X {0, 1})]
  /\ ut \in [Utenti -> LuoghiUtente] /\ tappa \in [Utenti -> Stazioni]
  /\ vuole \in [Utenti -> SUBSET Piatti] /\ ha \in [Utenti -> SUBSET Piatti]
  /\ op \in [Operatori -> LuoghiOperatore]
  /\ preso \in [Operatori -> Richiesta \cup {Nessuno}]
  /\ pause_count \in [Operatori -> 0..NOFPAUSE] /\ letto \in [Operatori -> Nat]
  /\ stats_giorno \in [Voci -> Nat] /\ stats_tot \in [Voci -> Nat]
  /\ fatti \in [Voci -> Nat]

\* The final statistics agree with each other (stats.c:70-): the plates paid for
\* at the till were served at a station (operatore.c:339-349), and every user
\* counted as served has paid for one at least - over days that close while a
\* user is between the station, the till and the table.
Piatti_tot == stats_tot["primi"] + stats_tot["secondi"] + stats_tot["coffee"]
BilancioTotali ==
  /\ stats_tot["ricavo"] <= Piatti_tot
  /\ stats_tot["serviti"] <= stats_tot["ricavo"]

\* The accounts are a ledger: what the operators serve and cash in is in the
\* totals of its day, exactly, although it is counted after the answer has left
\* (operatore.c:273); of the pauses (pause_totali++ outside of the mutex,
\* operatore.c:180) and of the users (who may still be eating when the accounts
\* are closed, mensa.c:234) the totals never hold more than there were.
Registro == INSTANCE Registro WITH
  aperto <- mensa \in {"apri", "giorno", "attesa", "chiusura"},
  totale <- stats_tot, Stimate <- {"pause", "serviti", "non_serviti"}
ImplementaRegistro == Registro!Spec

=============================================================================
