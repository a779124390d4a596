------------------------------ MODULE Giornata ------------------------------
(***************************************************************************)
(* The day protocol: the manager, the operators and the users over the     *)
(* shared memory.  The system starts where ipc_release_barrier has let     *)
(* every process reach its sem_wait on sem_day_start.                      *)
(***************************************************************************)
EXTENDS Operatore, Utente, Responsabile

Init ==
  /\ simulation_running = FALSE
  /\ sem_day_start = 0
  /\ day_barrier_count = 0
  /\ postazioni_occupate = [s \in Stazioni |-> 0]
  /\ sem_tavoli = NOFTABLESEATS
  /\ stats_giorno = NessunUtente
  /\ giorno_corrente = 1
  /\ terminazione_causa = "nessuna"
  /\ mensa = "apri"
  /\ op = [o \in Operatori |-> "day_start"]
  /\ pause_count = [o \in Operatori |-> 0]
  /\ ut = [u \in Utenti |-> "day_start"]
  /\ pause_oggi = [o \in Operatori |-> 0]
  /\ attesa_oggi = {} /\ serviti_oggi = {}

Next ==
  \/ simulate_days
  \/ \E o \in Operatori : operator_loop(o)
  \/ \E u \in Utenti : user_loop(u)
  \/ \E p \in Processi : Muore(p)

Spec == Init /\ [][Next]_vars

(***************************************************************************)
(* Fairness: the kernel schedules every process, so a process that can     *)
(* always take its next step takes it.  How a visit to the stations ends   *)
(* (UtPaga, UtRinuncia) depends on the operators and is not assumed; what  *)
(* is assumed is that a user who finds the day closed notices it.          *)
(***************************************************************************)
UtenteDaSolo(u) ==
  \/ UtPrendeGettone(u) \/ UtInizia(u) \/ UtEsce(u) \/ UtTrovaChiuso(u)
  \/ UtContaNonServito(u) \/ UtArriva(u)
  \/ TavoloCerca(u) \/ TavoloPreso(u) \/ TavoloScaduto(u)
  \/ TavoloChiuso(u) \/ TavoloPerso(u) \/ FineMangiare(u)
  \/ UtContaServito(u) \/ UtLasciaBarriera(u)

Fairness ==
  /\ WF_vars(simulate_days)
  /\ \A o \in Operatori : WF_vars(operator_loop(o))
  /\ \A u \in Utenti : WF_vars(UtenteDaSolo(u))
  /\ \A p \in Processi : WF_vars(Muore(p))

FairSpec == Spec /\ Fairness

-----------------------------------------------------------------------------
\* Types.  postazioni_occupate is an Int: it is an int the code decrements
\* without a check, and it does become negative.
TypeOK ==
  /\ simulation_running \in BOOLEAN
  /\ sem_day_start \in Nat
  /\ day_barrier_count \in Nat
  /\ postazioni_occupate \in [Stazioni -> Int]
  /\ sem_tavoli \in Nat
  /\ stats_giorno \in Contatori
  /\ giorno_corrente \in 1..SIMDURATION
  /\ terminazione_causa \in Causa
  /\ mensa \in LuoghiMensa
  /\ op \in [Operatori -> LuoghiOperatore]
  /\ pause_count \in [Operatori -> Nat]
  /\ ut \in [Utenti -> LuoghiUtente]
  /\ pause_oggi \in [Operatori -> Nat]
  /\ attesa_oggi \subseteq Utenti
  /\ serviti_oggi \subseteq Utenti

-----------------------------------------------------------------------------
(***************************************************************************)
(* Operators and their posts (any timing).                                 *)
(***************************************************************************)
\* SIGTERM has been sent: a process may be gone and leave its post counted.
Uccisione == mensa \in {"wait", "finita"}

\* Until the children are killed, postazioni_occupate never counts more
\* operators than there are on the posts of the station.  It is the direction
\* handle_pause relies on when it reads "postazioni_occupate > 1" as "somebody
\* else is here" (operatore.c:168).
PostiNonSovrastimati ==
  ~Uccisione =>
    \A s \in Stazioni : postazioni_occupate[s] <= Cardinality(Attivi(s))

\* "Almeno un operatore deve rimanere attivo sulla stazione" (operatore.c:143):
\* an operator that leaves for a pause leaves another one on a post of its
\* station, whatever days the two of them believe they are in.  (Until the
\* children are killed.)
PausaLasciaUno ==
  [][~Uccisione =>
       \A o \in Operatori :
         op[o] # "pausa" /\ op'[o] = "pausa" =>
           \E altro \in Attivi(StazioneDi[o]) : altro # o]_vars

\* "Massimo NOF_PAUSE pause al giorno" (operatore.c:141): also for an operator
\* that sleeps through the end of a day, or wakes up in another one.
PausePerGiorno == \A o \in Operatori : pause_oggi[o] <= NOFPAUSE

\* What makes it true day after day: the counter is cleared only at a place
\* where an operator that is in an open day has not paused in that day.
PauseInduttivo ==
  \A o \in Operatori :
    /\ pause_oggi[o] <= pause_count[o]
    /\ pause_count[o] <= NOFPAUSE
    /\ simulation_running
         /\ op[o] \in {"day_start", "controllo", "release", "release_pausa"}
       => pause_oggi[o] = 0

\* postazioni_occupate is the number of operators on a post, and there are
\* never more of them than posts (the field read by operatore.c:111 and :169).
PostiEsatti ==
  \A s \in Stazioni :
    /\ postazioni_occupate[s] = Cardinality(Attivi(s))
    /\ Cardinality(Attivi(s)) <= PostazioniTotali[s]

(***************************************************************************)
(* Users, tables and the end of the day.                                   *)
(***************************************************************************)
\* The seats are conserved over days that close while somebody eats or looks
\* for a seat: what sem_tavoli lost is at table (utente.c:369 and :404).
SeggiConservati ==
  ~Uccisione => sem_tavoli + Cardinality(ATavola) = NOFTABLESEATS

\* Nobody leaves its loop (operatore.c:59, utente.c:64) before the simulation
\* is over: a token of sem_day_start is taken only in the day it was posted for.
Terminante == mensa \in {"kill", "wait", "finita"}
UscitaSoloAllaFine == Usciti # {} => Terminante

\* A user arrives at the barrier once a day: the count on which end_day and the
\* users waiting at the barrier decide that the day is complete is never
\* reached while somebody is still missing (mensa.c:228, utente.c:151).
BarrieraEsatta ==
  /\ day_barrier_count <= NOFUSERS
  /\ mensa = "chiusura" => day_barrier_count = NOFUSERS

\* The number compared with OVERLOADTHRESHOLD (mensa.c:175), and the number of
\* users served, are numbers of users: at no moment of the day has anybody been
\* counted twice in one of them.  And when they are read each user of the day
\* has its outcome, though it counts itself only after its arrival at the
\* barrier (utente.c:145-149) or in one of three copies of the same block
\* (utente.c:105, 129, 159).  That one user may have both outcomes is
\* UnSoloEsito, below.
AttesaContaUtenti ==
  /\ stats_giorno.in_attesa = Cardinality(attesa_oggi)
  /\ stats_giorno.serviti = Cardinality(serviti_oggi)
  /\ mensa = "overload" => attesa_oggi \cup serviti_oggi = Utenti

\* Between the reading of the counters in end_day (mensa.c:242) and their reset
\* in start_new_day (mensa.c:208) no process adds to them: a count added there
\* would be in no total.
ContatoriFermi ==
  [][(mensa \in {"overload", "reset"})
       => stats_giorno' \in {stats_giorno, NessunUtente}]_vars

(***************************************************************************)
(* The abstract specification, and liveness (any timing).                  *)
(***************************************************************************)
FaseDi == CASE mensa = "reset"  -> "nuovo"
            [] mensa \in {"kill", "wait"} -> "fine"
            [] mensa = "finita" -> "finita"
            [] OTHER -> "giorno"

S == INSTANCE Simulazione WITH giorno <- giorno_corrente, fase <- FaseDi,
       in_attesa <- stats_giorno.in_attesa, causa <- terminazione_causa

\* Whatever the operators and the users do and however late they are, the
\* manager goes through the days and stops as README.md:48-53 says: late users
\* may be counted at any moment, and nothing else disturbs its decisions.
ImplementaSimulazione == S!Spec

\* The simulation ends, also when a user never arrives at the barrier ("Attende
\* con timeout per evitare deadlock", mensa.c:226).
SimulazioneFinisce == <>(mensa = "finita")

(***************************************************************************)
(* What the code and its comments say and the program does not do.         *)
(***************************************************************************)
\* "Giornata terminata mentre cercavo tavolo, non servito" (utente.c:352): a
\* user has one outcome a day, served or not served.
UnSoloEsito ==
  mensa = "overload" =>
    stats_giorno.serviti + stats_giorno.non_serviti <= NOFUSERS

\* "abbandona il giorno, ma resta per i successivi" (utente.c:102): a user
\* without a meal comes back on the following days.
RestaPerISuccessivi ==
  \A u \in Utenti : ut[u] = "uscito" => Terminante

=============================================================================
