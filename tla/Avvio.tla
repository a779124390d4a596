------------------------------- MODULE Avvio -------------------------------
(***************************************************************************)
(* The life of the processes and of the IPC objects around the simulated   *)
(* days: main, spawn_workers, spawn_users, wait_all_ready and              *)
(* cleanup_and_exit of src/mensa.c, the functions of src/ipc.c they call,  *)
(* and the main of src/operatore.c and src/utente.c up to sem_barrier.     *)
(* Giornata starts where this module says "simula" and models what goes on *)
(* there; here a child that is past the barrier is simply "oltre".         *)
(***************************************************************************)
EXTENDS Integers, FiniteSets

CONSTANTS
  Organici,  \* values of NOFWORKERS in the configuration
  Utenze     \* values of NOFUSERS in the configuration

ASSUME CostantiAvvio == Organici \subseteq Nat /\ Utenze \subseteq Nat

VARIABLES
  NOFWORKERS, NOFUSERS, \* the configuration file
  mensa,        \* where the manager stands
  ipc,          \* the IPC objects that exist
  forkati,      \* calls of fork made by the two spawning loops
  figlio,       \* where each child stands; its number is its slot in the pids
  ready_count,  \* shm->ready_count
  preparato,    \* what the manager has written for the first day
  rilasci,      \* loop variable of ipc_release_barrier
  sem_barrier   \* value of the semaphore

config    == <<NOFWORKERS, NOFUSERS>>
figliVars == <<forkati, figlio, ready_count>>
barriera  == <<rilasci, sem_barrier>>
vars      == <<config, mensa, ipc, figliVars, preparato, barriera>>

total == NOFWORKERS + NOFUSERS
Figli == 0..(total - 1)

\* the numbers of the children of every configuration
Numeri == UNION {0..(w + n - 1) : w \in Organici, n \in Utenze}

Risorse == {"shm", "semafori", "code", "tavoli"}
PrimoGiorno == {"giorno", "posti", "porzioni"}

\* "mai" is a fork that returned -1 (the -1 is stored as a pid), "morto" a
\* child that left before signalling that it is ready, "uscito" a reaped one.
LuoghiFiglio == {"non_nato", "mai", "nato", "avviato", "attaccato", "morto",
                 "pronto", "oltre", "uscito"}

Vivo == {"nato", "avviato", "attaccato", "pronto", "oltre"}

LuoghiMensa == {"shm", "semafori", "code", "config", "tavoli", "stazioni",
                "workers", "users", "attesa", "giorno", "posti", "porzioni",
                "rilascia", "simula", "kill", "wait", "rimuovi_code",
                "rimuovi_semafori", "rimuovi_shm", "finita", "errore"}

Init ==
  /\ NOFWORKERS \in Organici
  /\ NOFUSERS \in Utenze
  /\ mensa = "shm"
  /\ ipc = {}
  /\ forkati = 0
  /\ figlio = [i \in Figli |-> "non_nato"]
  /\ ready_count = 0
  /\ preparato = {}
  /\ rilasci = 0
  /\ sem_barrier = 0

-----------------------------------------------------------------------------
(***************************************************************************)
(* The manager.  Every system call of the preparation may fail, and then   *)
(* the manager exits without removing what it has created.                 *)
(***************************************************************************)
MensaVai(da, a) == mensa = da /\ mensa' = a

\* A call that makes several objects, or attaches the one it made, may fail
\* half-way and leave the ones made so far: aMeta.
Crea(da, a, nuove, aMeta) ==
  /\ \/ MensaVai(da, a) /\ ipc' = ipc \cup nuove
     \/ MensaVai(da, "errore") /\ ipc' \in {ipc, ipc \cup aMeta}
  /\ UNCHANGED <<config, figliVars, preparato, barriera>>

ipc_create_shared_memory   == Crea("shm", "semafori", {"shm"}, {"shm"})
ipc_create_semaphores      == Crea("semafori", "code", {"semafori"},
                                   {"semafori"})
ipc_create_message_queues  == Crea("code", "config", {"code"}, {"code"})
load_config                == Crea("config", "tavoli", {}, {})
ipc_init_table_semaphore   == Crea("tavoli", "stazioni", {"tavoli"}, {})

\* stations_init: all zero, so nothing the children could work on yet
create_stations ==
  /\ MensaVai("stazioni", "workers")
  /\ UNCHANGED <<config, ipc, figliVars, preparato, barriera>>

\* fork, for the slot number forkati; the result is not looked at
Fork ==
  /\ \E esito \in {"nato", "mai"} : figlio' = [figlio EXCEPT ![forkati] = esito]
  /\ forkati' = forkati + 1
  /\ UNCHANGED <<config, mensa, ipc, ready_count, preparato, barriera>>

spawn_workers == mensa = "workers" /\ forkati < NOFWORKERS /\ Fork

\* variant: one slot more than calloc gave
spawn_users_UnoInPiu == mensa = "users" /\ forkati <= total /\ Fork

spawn_users == mensa = "users" /\ forkati < total /\ Fork

FineSpawn ==
  /\ \/ forkati >= NOFWORKERS /\ MensaVai("workers", "users")
     \/ forkati >= total /\ MensaVai("users", "attesa")
  /\ UNCHANGED <<config, ipc, figliVars, preparato, barriera>>

\* variant: the users are not waited for
ipc_wait_barrier_SoloOperatori ==
  /\ MensaVai("attesa", "giorno")
  /\ ready_count >= NOFWORKERS
  /\ UNCHANGED <<config, ipc, figliVars, preparato, barriera>>

\* variant: one more than there are
ipc_wait_barrier_UnoInPiu ==
  /\ MensaVai("attesa", "giorno")
  /\ ready_count > total
  /\ UNCHANGED <<config, ipc, figliVars, preparato, barriera>>

\* wait_all_ready: the loop of ipc_wait_barrier is left
ipc_wait_barrier ==
  /\ MensaVai("attesa", "giorno")
  /\ ready_count >= total
  /\ UNCHANGED <<config, ipc, figliVars, preparato, barriera>>

Prepara(da, a) ==
  /\ MensaVai(da, a)
  /\ preparato' = preparato \cup {da}
  /\ UNCHANGED <<config, ipc, figliVars, barriera>>

\* giorno_corrente = 1 and stats_reset_day
ApriPrimoGiorno == Prepara("giorno", "posti")

\* variant: the barrier is released before the posts are counted
stations_assign_workers_Dopo ==
  /\ MensaVai("posti", "porzioni")
  /\ UNCHANGED <<config, ipc, figliVars, preparato, barriera>>

stations_assign_workers == NOFWORKERS >= 4 /\ Prepara("posti", "porzioni")

\* its exit(EXIT_FAILURE), with every child waiting on sem_barrier
TroppoPochi ==
  /\ NOFWORKERS < 4
  /\ MensaVai("posti", "errore")
  /\ UNCHANGED <<config, ipc, figliVars, preparato, barriera>>

stations_refill_day == Prepara("porzioni", "rilascia")

\* variant: the loop stops one short
ipc_release_barrier_UnoInMeno ==
  /\ mensa = "rilascia"
  /\ rilasci < total - 1
  /\ rilasci' = rilasci + 1
  /\ sem_barrier' = sem_barrier + 1
  /\ mensa' = IF rilasci' = total - 1 THEN "simula" ELSE "rilascia"
  /\ UNCHANGED <<config, ipc, figliVars, preparato>>

\* one sem_post of ipc_release_barrier
ipc_release_barrier ==
  /\ mensa = "rilascia"
  /\ rilasci < total
  /\ rilasci' = rilasci + 1
  /\ sem_barrier' = sem_barrier + 1
  /\ mensa' = IF rilasci' = total THEN "simula" ELSE "rilascia"
  /\ UNCHANGED <<config, ipc, figliVars, preparato>>

\* simulate_days and terminate_simulation.  The days are naps of 240 simulated
\* minutes each: a child that finds a token of sem_barrier has gone on by then.
simulate_days ==
  /\ MensaVai("simula", "kill")
  /\ \A i \in Figli : figlio[i] = "pronto" => sem_barrier = 0
  /\ UNCHANGED <<config, ipc, figliVars, preparato, barriera>>

\* SIGTERM to every child, also to those that have already ended
Kill ==
  /\ MensaVai("kill", "wait")
  /\ UNCHANGED <<config, ipc, figliVars, preparato, barriera>>

\* a child is dead and wait() has reaped it
Muore(i) ==
  /\ mensa = "wait"
  /\ figlio[i] \in Vivo
  /\ figlio' = [figlio EXCEPT ![i] = "uscito"]
  /\ UNCHANGED <<config, mensa, ipc, forkati, ready_count, preparato, barriera>>

\* variant: the children are not waited for
FineWait_SenzaAttesa ==
  /\ MensaVai("wait", "rimuovi_code")
  /\ UNCHANGED <<config, ipc, figliVars, preparato, barriera>>

\* wait() has returned -1: there is no child left
FineWait ==
  /\ MensaVai("wait", "rimuovi_code")
  /\ \A i \in Figli : figlio[i] \notin Vivo
  /\ UNCHANGED <<config, ipc, figliVars, preparato, barriera>>

Rimuovi(da, a, vecchie) ==
  /\ MensaVai(da, a)
  /\ ipc' = ipc \ vecchie
  /\ UNCHANGED <<config, figliVars, preparato, barriera>>

ipc_destroy_message_queues == Rimuovi("rimuovi_code", "rimuovi_semafori", {"code"})
ipc_destroy_semaphores     == Rimuovi("rimuovi_semafori", "rimuovi_shm",
                                      {"semafori", "tavoli"})
ipc_destroy_shared_memory  == Rimuovi("rimuovi_shm", "finita", {"shm"})

main ==
  \/ ipc_create_shared_memory \/ ipc_create_semaphores
  \/ ipc_create_message_queues \/ load_config \/ ipc_init_table_semaphore
  \/ create_stations \/ spawn_workers \/ spawn_users \/ FineSpawn
  \/ ipc_wait_barrier \/ ApriPrimoGiorno \/ stations_assign_workers
  \/ TroppoPochi \/ stations_refill_day \/ ipc_release_barrier
  \/ simulate_days \/ Kill \/ FineWait
  \/ ipc_destroy_message_queues \/ ipc_destroy_semaphores
  \/ ipc_destroy_shared_memory

-----------------------------------------------------------------------------
(***************************************************************************)
(* A child, operator or user.                                              *)
(***************************************************************************)
FiglioVai(i, da, a) ==
  /\ figlio[i] = da
  /\ figlio' = [figlio EXCEPT ![i] = a]
  /\ UNCHANGED <<config, mensa, ipc, forkati, preparato, rilasci>>

\* the program is started, or perror and exit
execve(i) ==
  /\ \E a \in {"avviato", "morto"} : FiglioVai(i, "nato", a)
  /\ UNCHANGED <<ready_count, sem_barrier>>

\* shmat of the segment of MENSA_SHMID, or exit
ipc_attach_shared_memory(i) ==
  /\ \E a \in {"attaccato", "morto"} : FiglioVai(i, "avviato", a)
  /\ UNCHANGED <<ready_count, sem_barrier>>

ipc_signal_ready(i) ==
  /\ FiglioVai(i, "attaccato", "pronto")
  /\ ready_count' = ready_count + 1
  /\ UNCHANGED sem_barrier

\* sem_wait(&shm->sem_barrier) returns
PassaBarriera(i) ==
  /\ FiglioVai(i, "pronto", "oltre")
  /\ sem_barrier > 0
  /\ sem_barrier' = sem_barrier - 1
  /\ UNCHANGED ready_count

FiglioMain(i) == execve(i) \/ ipc_attach_shared_memory(i)
                   \/ ipc_signal_ready(i) \/ PassaBarriera(i)

-----------------------------------------------------------------------------
Next == main \/ \E i \in Figli : FiglioMain(i) \/ Muore(i)

Spec == Init /\ [][Next]_vars

\* Every process is scheduled.  That simulate_days comes to its end is what
\* Giornata checks as SimulazioneFinisce.
FairSpec ==
  /\ Spec
  /\ WF_vars(main)
  /\ \A i \in Numeri : WF_vars(i \in Figli /\ (FiglioMain(i) \/ Muore(i)))

-----------------------------------------------------------------------------
TypeOK ==
  /\ NOFWORKERS \in Nat /\ NOFUSERS \in Nat
  /\ mensa \in LuoghiMensa
  /\ ipc \subseteq Risorse
  /\ forkati \in 0..total
  /\ figlio \in [Figli -> LuoghiFiglio]
  /\ ready_count \in 0..total
  /\ preparato \subseteq PrimoGiorno
  /\ rilasci \in 0..total
  /\ sem_barrier \in 0..total

Prima == {"shm", "semafori", "code", "config", "tavoli", "stazioni", "workers",
          "users", "attesa"}
Rimozione == {"rimuovi_code", "rimuovi_semafori", "rimuovi_shm", "finita"}

\* The manager leaves wait_all_ready (mensa.c:138) only if every fork and every
\* exec has succeeded: operator_pids and user_pids then hold the pids of
\* children of its own, and cleanup_and_exit (mensa.c:284-288) never calls
\* kill(-1, SIGTERM) for a fork that failed.
TuttiPartiti ==
  mensa \notin Prima \cup {"errore"} =>
    \A i \in Figli : figlio[i] \in {"pronto", "oltre", "uscito"}

\* Nobody is past the barrier (operatore.c:42, utente.c:44) before everybody is
\* there and the first day, the posts and the portions are written; with fewer
\* than four operators nobody ever is.
PartenzaInsieme ==
  (\E i \in Figli : figlio[i] = "oltre") =>
    /\ preparato = PrimoGiorno
    /\ NOFWORKERS >= 4
    /\ \A i \in Figli : figlio[i] \in {"pronto", "oltre", "uscito"}

\* When the manager has gone on to the days, a child still on sem_barrier finds
\* a token: the posts of ipc_release_barrier are enough for all.
NessunoBloccato ==
  mensa = "simula" => \A i \in Figli : figlio[i] = "pronto" => sem_barrier > 0

\* "I processi vengono terminati correttamente in entrambi i casi" (README.md:
\* 79): the IPC objects are removed when no child can be using them, and none
\* of them, nor any child, is left when the manager ends.
ChiusuraPulita ==
  /\ mensa \in Rimozione => \A i \in Figli : figlio[i] = "uscito"
  /\ mensa = "finita" => ipc = {}

Fallito == \E i \in Figli : figlio[i] \in {"mai", "morto"}

\* If no fork, exec or attach fails and there are operators for the four
\* stations, every child gets past the barrier.
AvvioCompleto ==
  (mensa = "attesa" /\ NOFWORKERS >= 4)
    ~> (Fallito \/ \A i \in Figli : figlio[i] = "oltre")
=============================================================================
