---------------------------- MODULE Responsabile ----------------------------
(***************************************************************************)
(* The manager process: simulate_days, start_new_day, end_day,             *)
(* terminate_simulation and cleanup_and_exit of src/mensa.c.  The refills  *)
(* and the printed statistics do not touch the state of the day protocol.  *)
(***************************************************************************)
EXTENDS Condivisa

MensaVai(da, a) == mensa = da /\ mensa' = a

\* variant: one token too many
PostaGettoni_UnoInPiu == sem_day_start' = sem_day_start + 1
                            + Cardinality(Operatori) + Cardinality(Utenti)

\* sem_post(&shm->sem_day_start), once for every process ever forked
PostaGettoni == sem_day_start' = sem_day_start + Cardinality(Operatori)
                                               + Cardinality(Utenti)

\* start_new_day for day > 1: the day number and the counters of the day
start_new_day ==
  /\ MensaVai("reset", "apri")
  /\ giorno_corrente' = giorno_corrente + 1
  /\ stats_giorno' = NessunUtente
  /\ attesa_oggi' = {} /\ serviti_oggi' = {}
  /\ UNCHANGED <<giornoVars, opVars, ut, sem_tavoli,
                 terminazione_causa>>

\* variant: the barrier keeps the arrivals of the day before
ApriGiorno_BarrieraPiena ==
  /\ MensaVai("apri", "giorno")
  /\ simulation_running' = TRUE
  /\ PostaGettoni
  /\ pause_oggi' = [o \in Operatori |-> 0]
  /\ UNCHANGED <<day_barrier_count, op, pause_count, postazioni_occupate,
                 utVars, giorno_corrente, terminazione_causa>>

\* the end of start_new_day: barrier cleared, day open, tokens posted
ApriGiorno ==
  /\ MensaVai("apri", "giorno")
  /\ day_barrier_count' = 0
  /\ simulation_running' = TRUE
  /\ PostaGettoni
  /\ pause_oggi' = [o \in Operatori |-> 0]
  /\ UNCHANGED <<op, pause_count, postazioni_occupate, utVars,
                 giorno_corrente, terminazione_causa>>

\* the 240 minutes are over: end_day closes the day
end_day ==
  /\ MensaVai("giorno", "attesa")
  /\ Puntuale => Svegli
  /\ simulation_running' = FALSE
  /\ UNCHANGED <<sem_day_start, day_barrier_count, opVars, utVars,
                 giorno_corrente, terminazione_causa>>

\* variant: the wait of end_day without its 100 cycles
FineAttesa_SenzaTimeout ==
  /\ MensaVai("attesa", "chiusura")
  /\ day_barrier_count >= NOFUSERS
  /\ UNCHANGED <<giornoVars, opVars, utVars, giorno_corrente,
                 terminazione_causa>>

\* the wait of end_day: every user has arrived, or 100 cycles have passed
FineAttesa ==
  /\ MensaVai("attesa", "chiusura")
  /\ day_barrier_count >= NOFUSERS \/ (Puntuale => Fermi)
  /\ UNCHANGED <<giornoVars, opVars, utVars, giorno_corrente,
                 terminazione_causa>>

\* variant: no nap between the barrier and the reading of the counters
FineGiornata_SenzaSonno ==
  /\ MensaVai("chiusura", "overload")
  /\ UNCHANGED <<giornoVars, opVars, utVars, giorno_corrente,
                 terminazione_causa>>

\* the last nap of end_day, after which the counters of the day are read
FineGiornata ==
  /\ MensaVai("chiusura", "overload")
  /\ Puntuale => Fermi
  /\ UNCHANGED <<giornoVars, opVars, utVars, giorno_corrente,
                 terminazione_causa>>

\* terminate_simulation: cause, day closed, a token for every process
terminate_simulation(causa) ==
  /\ MensaVai("overload", "kill")
  /\ terminazione_causa' = causa
  /\ simulation_running' = FALSE
  /\ PostaGettoni
  /\ UNCHANGED <<day_barrier_count, opVars, utVars, giorno_corrente>>

Sovraccarico == stats_giorno.in_attesa > OVERLOADTHRESHOLD

TerminaOverload == Sovraccarico /\ terminate_simulation("OVERLOAD")

\* variant: one day too many
ProssimoGiorno_UnoInPiu ==
  /\ MensaVai("overload", "reset")
  /\ ~Sovraccarico
  /\ giorno_corrente <= SIMDURATION
  /\ UNCHANGED <<giornoVars, opVars, utVars, giorno_corrente,
                 terminazione_causa>>

ProssimoGiorno ==
  /\ MensaVai("overload", "reset")
  /\ ~Sovraccarico
  /\ giorno_corrente < SIMDURATION
  /\ UNCHANGED <<giornoVars, opVars, utVars, giorno_corrente,
                 terminazione_causa>>

TerminaTimeout ==
  /\ ~Sovraccarico
  /\ giorno_corrente = SIMDURATION
  /\ terminate_simulation("TIMEOUT")

\* cleanup_and_exit: SIGTERM to every child ...
Kill ==
  /\ MensaVai("kill", "wait")
  /\ UNCHANGED <<giornoVars, opVars, utVars, giorno_corrente,
                 terminazione_causa>>

\* ... each of which dies of it at a moment of its own ...
Muore(p) ==
  /\ mensa = "wait"
  /\ Luogo(p) # "uscito"
  /\ \/ /\ p \in Operatori
        /\ op' = [op EXCEPT ![p] = "uscito"]
        /\ UNCHANGED ut
     \/ /\ p \in Utenti
        /\ ut' = [ut EXCEPT ![p] = "uscito"]
        /\ UNCHANGED op
  /\ UNCHANGED <<giornoVars, mensaVars, pause_count, pause_oggi,
                 postazioni_occupate, sem_tavoli, contoVars>>

\* ... and, when wait() has reaped them all, destroy_ipc and exit
destroy_ipc ==
  /\ MensaVai("wait", "finita")
  /\ Usciti = Processi
  /\ UNCHANGED <<giornoVars, opVars, utVars, giorno_corrente,
                 terminazione_causa>>

simulate_days ==
  \/ start_new_day \/ ApriGiorno \/ end_day \/ FineAttesa \/ FineGiornata
  \/ TerminaOverload \/ ProssimoGiorno \/ TerminaTimeout
  \/ Kill \/ destroy_ipc

=============================================================================
