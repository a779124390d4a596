---------------------------- MODULE AvvioProofs ----------------------------
(***************************************************************************)
(* Theorems about the start and the end of the processes, for every number *)
(* of operators and users and for every failure of fork, exec and shmat.   *)
(***************************************************************************)
EXTENDS Avvio, FiniteSetTheorems, TLAPS

Arrivati == {"pronto", "oltre", "uscito"}
Pronti == {i \in Figli : figlio[i] \in Arrivati}
Oltre  == {i \in Figli : figlio[i] = "oltre"}

\* ready_count counts the children that have signalled, and the manager that is
\* past its wait has seen them all.  The slots still to be forked are empty.
Conteggio ==
  /\ \A i \in Figli : i >= forkati => figlio[i] = "non_nato"
  /\ ready_count = Cardinality(Pronti)
  /\ mensa \notin Prima \cup {"errore"} => Pronti = Figli

\* Nothing of the barrier moves before the first day is ready; from there on its
\* tokens are the posts made less the children that are past it.
PrimaDelRilascio == Prima \cup {"errore", "giorno", "posti", "porzioni"}

Gettoni ==
  /\ mensa \in PrimaDelRilascio =>
       rilasci = 0 /\ sem_barrier = 0 /\ Oltre = {}
  /\ mensa \in {"rilascia", "simula", "kill"} =>
       sem_barrier + Cardinality(Oltre) = rilasci
  /\ mensa \in {"simula", "kill"} => rilasci = total

\* What is written when, and what is removed when.
Tappe ==
  /\ mensa \in {"posti", "porzioni"} => "giorno" \in preparato
  /\ mensa = "porzioni" => "posti" \in preparato /\ NOFWORKERS >= 4
  /\ mensa \notin PrimaDelRilascio =>
       preparato = PrimoGiorno /\ NOFWORKERS >= 4
  /\ mensa \in Rimozione => \A i \in Figli : figlio[i] = "uscito"
  /\ mensa \in {"rimuovi_semafori", "rimuovi_shm", "finita"} =>
       "code" \notin ipc
  /\ mensa \in {"rimuovi_shm", "finita"} =>
       "semafori" \notin ipc /\ "tavoli" \notin ipc
  /\ mensa = "finita" => "shm" \notin ipc

Invariante == TypeOK /\ Conteggio /\ Gettoni /\ Tappe

-----------------------------------------------------------------------------
\* The children are finitely many, total of them.
LEMMA FigliFiniti ==
  ASSUME TypeOK
  PROVE  /\ total \in Nat
         /\ IsFiniteSet(Figli) /\ Cardinality(Figli) = total
         /\ \A T \in SUBSET Figli :
              /\ IsFiniteSet(T) /\ Cardinality(T) \in Nat
              /\ Cardinality(T) <= total
              /\ Cardinality(T) = total => T = Figli
<1>1. total \in Nat BY DEF TypeOK, total
<1>2. IsFiniteSet(Figli) /\ Cardinality(Figli) = total
  BY <1>1, FS_Interval DEF Figli
<1>3. ASSUME NEW T \in SUBSET Figli
      PROVE  /\ IsFiniteSet(T) /\ Cardinality(T) \in Nat
             /\ Cardinality(T) <= total
             /\ Cardinality(T) = total => T = Figli
  BY <1>2, <1>3, FS_Subset, FS_CardinalityType
<1> QED BY <1>1, <1>2, <1>3

\* The two sets the counters count are sets of children.
LEMMA InsiemiDiFigli ==
  ASSUME TypeOK
  PROVE  /\ Pronti \subseteq Figli /\ IsFiniteSet(Pronti)
         /\ Oltre \subseteq Figli /\ IsFiniteSet(Oltre)
         /\ Cardinality(Oltre) \in 0..total
<1>1. Pronti \subseteq Figli /\ Oltre \subseteq Figli BY DEF Pronti, Oltre
<1> QED BY <1>1, FigliFiniti

LEMMA InvarianteIniziale == Init => Invariante
<1> SUFFICES ASSUME Init PROVE Invariante OBVIOUS
<1>1. NOFWORKERS \in Nat /\ NOFUSERS \in Nat BY CostantiAvvio DEF Init
<1>2. total \in Nat BY <1>1 DEF total
<1>3. figlio \in [Figli -> LuoghiFiglio] BY DEF Init, LuoghiFiglio
<1>4. TypeOK BY <1>1, <1>2, <1>3 DEF Init, TypeOK, LuoghiMensa
<1>5. Pronti = {} /\ Oltre = {} BY DEF Init, Pronti, Oltre, Arrivati
<1>6. Conteggio BY <1>5, FS_EmptySet DEF Conteggio, Init, Prima
<1>7. Gettoni BY <1>5 DEF Gettoni, Init, PrimaDelRilascio, Prima
<1>8. Tappe
  BY DEF Tappe, Init, PrimaDelRilascio, Prima, Rimozione
<1> QED BY <1>4, <1>6, <1>7, <1>8 DEF Invariante

\* A step that leaves the children where they are leaves the two sets as well.
LEMMA FigliFermi ==
  ASSUME UNCHANGED <<config, figlio>>
  PROVE  /\ total' = total /\ Figli' = Figli
         /\ Pronti' = Pronti /\ Oltre' = Oltre
BY DEF config, total, Figli, Pronti, Oltre, Arrivati

\* The manager while it prepares and spawns: Prima, without the wait.
LEMMA InvariantePreparazione ==
  ASSUME Invariante,
         \/ ipc_create_shared_memory \/ ipc_create_semaphores
         \/ ipc_create_message_queues \/ load_config
         \/ ipc_init_table_semaphore \/ create_stations \/ FineSpawn
  PROVE  Invariante'
<1>1. UNCHANGED <<config, figliVars, preparato, barriera>>
  BY DEF ipc_create_shared_memory, ipc_create_semaphores,
         ipc_create_message_queues, load_config, ipc_init_table_semaphore,
         create_stations, FineSpawn, Crea
<1>2. mensa \in Prima /\ mensa' \in Prima \cup {"errore"}
  BY DEF ipc_create_shared_memory, ipc_create_semaphores,
         ipc_create_message_queues, load_config, ipc_init_table_semaphore,
         create_stations, FineSpawn, Crea, MensaVai, Prima
<1>3. ipc' \subseteq Risorse
  BY DEF ipc_create_shared_memory, ipc_create_semaphores,
         ipc_create_message_queues, load_config, ipc_init_table_semaphore,
         create_stations, FineSpawn, Crea, Risorse, Invariante, TypeOK
<1>4. /\ total' = total /\ Figli' = Figli
      /\ Pronti' = Pronti /\ Oltre' = Oltre
  BY <1>1, FigliFermi DEF figliVars
<1>5. TypeOK'
  BY <1>1, <1>2, <1>3, <1>4
  DEF Invariante, TypeOK, config, figliVars, barriera, Prima, LuoghiMensa
<1>6. Conteggio' /\ Gettoni'
  BY <1>1, <1>2, <1>4
  DEF Invariante, Conteggio, Gettoni, figliVars, barriera, Prima,
      PrimaDelRilascio
<1>7. Tappe'
  BY <1>2 DEF Tappe, Prima, PrimaDelRilascio, Rimozione
<1> QED BY <1>5, <1>6, <1>7 DEF Invariante

\* A fork, in either loop: the slot it fills belongs to a child not yet born.
LEMMA InvarianteFork ==
  ASSUME Invariante, spawn_workers \/ spawn_users
  PROVE  Invariante'
<1> USE DEF Invariante
<1>1. /\ Fork /\ mensa \in {"workers", "users"} /\ forkati < total
  BY DEF spawn_workers, spawn_users, TypeOK, total
<1>2. PICK esito \in {"nato", "mai"} :
        figlio' = [figlio EXCEPT ![forkati] = esito]
  BY <1>1 DEF Fork
<1>3. UNCHANGED <<config, mensa, ipc, ready_count, preparato, barriera>>
      /\ forkati' = forkati + 1 /\ total' = total /\ Figli' = Figli
  BY <1>1 DEF Fork, config, total, Figli
<1>4. figlio' \in [Figli -> LuoghiFiglio]
  BY <1>2 DEF TypeOK, LuoghiFiglio
<1>5. TypeOK'
  BY <1>1, <1>3, <1>4 DEF TypeOK, config, barriera, total
<1>6. forkati \in Figli /\ figlio[forkati] = "non_nato"
  BY <1>1, FigliFiniti DEF TypeOK, Conteggio, Figli
<1>7. Pronti' = Pronti /\ Oltre' = Oltre
  BY <1>2, <1>3, <1>6 DEF TypeOK, Pronti, Oltre, Arrivati
<1>8. Conteggio'
  <2>1. \A i \in Figli : i >= forkati + 1 => figlio'[i] = "non_nato"
    BY <1>2, <1>3, <1>6 DEF TypeOK, Conteggio, Figli
  <2> QED BY <1>1, <1>3, <1>7, <2>1 DEF Conteggio, Prima
<1>9. Gettoni' /\ Tappe'
  BY <1>1, <1>3, <1>7
  DEF Gettoni, Tappe, barriera, Prima, PrimaDelRilascio, Rimozione
<1> QED BY <1>5, <1>8, <1>9

\* The manager from the end of its wait to the release of the barrier.
LEMMA InvariantePrimoGiorno ==
  ASSUME Invariante,
         \/ ipc_wait_barrier \/ ApriPrimoGiorno \/ stations_assign_workers
         \/ TroppoPochi \/ stations_refill_day
  PROVE  Invariante'
<1> USE DEF Invariante
<1>1. /\ UNCHANGED <<config, ipc, figliVars, barriera>>
      /\ preparato' \subseteq PrimoGiorno
  BY DEF ipc_wait_barrier, ApriPrimoGiorno, stations_assign_workers,
         TroppoPochi, stations_refill_day, Prepara, MensaVai, TypeOK, PrimoGiorno
<1>2. /\ mensa \in {"attesa", "giorno", "posti", "porzioni"}
      /\ mensa' \in {"giorno", "posti", "porzioni", "rilascia", "errore"}
  BY DEF ipc_wait_barrier, ApriPrimoGiorno, stations_assign_workers,
         TroppoPochi, stations_refill_day, Prepara, MensaVai
<1>3. /\ total' = total /\ Figli' = Figli
      /\ Pronti' = Pronti /\ Oltre' = Oltre
  BY <1>1, FigliFermi DEF figliVars
<1>4. TypeOK'
  BY <1>1, <1>2, <1>3
  DEF TypeOK, config, figliVars, barriera, LuoghiMensa
<1>5. Pronti = Figli \/ mensa' = "errore"
  <2>1. CASE ipc_wait_barrier
    BY <2>1, FigliFiniti, InsiemiDiFigli DEF ipc_wait_barrier, Conteggio, TypeOK
  <2>2. CASE mensa # "attesa" BY <1>2, <2>2 DEF Conteggio, Prima
  <2> QED BY <2>1, <2>2 DEF ApriPrimoGiorno, stations_assign_workers,
       TroppoPochi, stations_refill_day, Prepara, MensaVai
<1>6. Conteggio'
  BY <1>1, <1>2, <1>3, <1>5 DEF Conteggio, Prima, figliVars
<1>7. Gettoni'
  BY <1>1, <1>2, <1>3, InsiemiDiFigli, FS_EmptySet
  DEF Gettoni, barriera, Prima, PrimaDelRilascio, Rimozione
<1>8. Tappe'
  BY <1>1, <1>2
  DEF Tappe, ipc_wait_barrier, ApriPrimoGiorno, stations_assign_workers,
      TroppoPochi, stations_refill_day, Prepara, MensaVai, PrimoGiorno, config,
      Prima, PrimaDelRilascio, Rimozione, TypeOK
<1> QED BY <1>4, <1>6, <1>7, <1>8

LEMMA InvarianteRilascio ==
  ASSUME Invariante, ipc_release_barrier
  PROVE  Invariante'
<1> USE DEF Invariante, ipc_release_barrier
<1>1. UNCHANGED <<config, ipc, figliVars, preparato>> OBVIOUS
<1>2. /\ total' = total /\ Figli' = Figli
      /\ Pronti' = Pronti /\ Oltre' = Oltre
  BY <1>1, FigliFermi DEF figliVars
<1>3. /\ rilasci \in Nat /\ rilasci < total /\ total \in Nat
      /\ sem_barrier \in Nat /\ Cardinality(Oltre) \in Nat
      /\ sem_barrier + Cardinality(Oltre) = rilasci
  BY FigliFiniti, InsiemiDiFigli DEF TypeOK, Gettoni
<1>4. TypeOK'
  BY <1>1, <1>2, <1>3 DEF TypeOK, config, figliVars, LuoghiMensa
<1>5. Conteggio'
  BY <1>1, <1>2 DEF Conteggio, Prima, figliVars
<1>6. Gettoni'
  BY <1>1, <1>2, <1>3 DEF Gettoni, Prima, PrimaDelRilascio
<1>7. Tappe'
  BY <1>1, <1>2 DEF Tappe, config, Prima, PrimaDelRilascio, Rimozione
<1> QED BY <1>4, <1>5, <1>6, <1>7

\* The end: the days, the kill, the wait and the removal of the IPC objects.
LEMMA InvarianteChiusura ==
  ASSUME Invariante,
         \/ simulate_days \/ Kill \/ FineWait \/ ipc_destroy_message_queues
         \/ ipc_destroy_semaphores \/ ipc_destroy_shared_memory
  PROVE  Invariante'
<1> USE DEF Invariante
<1>1. /\ UNCHANGED <<config, figliVars, preparato, barriera>>
      /\ ipc' \subseteq ipc
  BY DEF simulate_days, Kill, FineWait, ipc_destroy_message_queues,
         ipc_destroy_semaphores, ipc_destroy_shared_memory, Rimuovi
<1>2. /\ mensa \in {"simula", "kill", "wait", "rimuovi_code",
                     "rimuovi_semafori", "rimuovi_shm"}
      /\ mensa' \in {"kill", "wait", "rimuovi_code", "rimuovi_semafori",
                      "rimuovi_shm", "finita"}
      /\ mensa' = "kill" => mensa = "simula"
  BY DEF simulate_days, Kill, FineWait, ipc_destroy_message_queues,
         ipc_destroy_semaphores, ipc_destroy_shared_memory, Rimuovi, MensaVai
<1>3. /\ total' = total /\ Figli' = Figli
      /\ Pronti' = Pronti /\ Oltre' = Oltre
  BY <1>1, FigliFermi DEF figliVars
<1>4. TypeOK'
  BY <1>1, <1>2, <1>3
  DEF TypeOK, config, figliVars, barriera, LuoghiMensa
<1>5. Conteggio' /\ Gettoni'
  BY <1>1, <1>2, <1>3
  DEF Conteggio, Gettoni, figliVars, barriera, Prima, PrimaDelRilascio
<1>6. \A i \in Figli : mensa' \in Rimozione => figlio[i] = "uscito"
  <2>1. CASE FineWait
    BY <2>1 DEF FineWait, MensaVai, Conteggio, Pronti, Arrivati, Vivo, Prima
  <2>2. CASE mensa \in Rimozione BY <2>2 DEF Tappe
  <2> QED
    BY <2>1, <2>2
    DEF simulate_days, Kill, ipc_destroy_message_queues,
        ipc_destroy_semaphores, ipc_destroy_shared_memory, Rimuovi, MensaVai,
        Rimozione
<1>7. Tappe'
  BY <1>1, <1>2, <1>3, <1>6
  DEF Tappe, simulate_days, Kill, FineWait, ipc_destroy_message_queues,
      ipc_destroy_semaphores, ipc_destroy_shared_memory, Rimuovi, MensaVai,
      config, figliVars, Prima, PrimaDelRilascio, Rimozione
<1> QED BY <1>4, <1>5, <1>7

-----------------------------------------------------------------------------
\* A step of child i between two places: what it does to the two sets.
LEMMA UnFiglio ==
  ASSUME TypeOK, NEW i \in Figli, NEW a \in LuoghiFiglio,
         UNCHANGED config, figlio' = [figlio EXCEPT ![i] = a]
  PROVE  /\ total' = total /\ Figli' = Figli
         /\ figlio' \in [Figli -> LuoghiFiglio]
         /\ Pronti' = IF a \in Arrivati THEN Pronti \cup {i} ELSE Pronti \ {i}
         /\ Oltre' = IF a = "oltre" THEN Oltre \cup {i} ELSE Oltre \ {i}
<1>1. total' = total /\ Figli' = Figli BY DEF config, total, Figli
<1>2. figlio' \in [Figli -> LuoghiFiglio] BY DEF TypeOK
<1>3. /\ Pronti' = IF a \in Arrivati THEN Pronti \cup {i} ELSE Pronti \ {i}
      /\ Oltre' = IF a = "oltre" THEN Oltre \cup {i} ELSE Oltre \ {i}
  BY <1>1 DEF TypeOK, Pronti, Oltre, Arrivati
<1> QED BY <1>1, <1>2, <1>3

\* execve and shmat: a child that is not yet counted, and stays so.
LEMMA InvarianteAvviato ==
  ASSUME Invariante, NEW i \in Figli,
         execve(i) \/ ipc_attach_shared_memory(i)
  PROVE  Invariante'
<1> USE DEF Invariante
<1>1. PICK a \in {"avviato", "attaccato", "morto"} :
        figlio' = [figlio EXCEPT ![i] = a]
  BY DEF execve, ipc_attach_shared_memory, FiglioVai
<1>2. /\ figlio[i] \in {"nato", "avviato"}
      /\ UNCHANGED <<config, mensa, ipc, forkati, preparato, barriera,
                     ready_count>>
  BY DEF execve, ipc_attach_shared_memory, FiglioVai, barriera
<1>3. i \notin Pronti /\ i \notin Oltre BY <1>2 DEF Pronti, Oltre, Arrivati
<1>4. /\ total' = total /\ Figli' = Figli
      /\ figlio' \in [Figli -> LuoghiFiglio]
      /\ Pronti' = Pronti /\ Oltre' = Oltre
  <2>1. a \in LuoghiFiglio /\ a \notin Arrivati /\ a # "oltre"
    BY DEF LuoghiFiglio, Arrivati
  <2>2. /\ total' = total /\ Figli' = Figli
        /\ figlio' \in [Figli -> LuoghiFiglio]
        /\ Pronti' = Pronti \ {i} /\ Oltre' = Oltre \ {i}
    BY <1>1, <1>2, <2>1, UnFiglio
  <2> QED BY <1>3, <2>2
<1>5. mensa \in Prima \cup {"errore"} BY <1>3 DEF Conteggio
<1>6. TypeOK' BY <1>2, <1>4 DEF TypeOK, config, barriera
<1>7. Conteggio'
  <2>1. \A j \in Figli : j >= forkati => figlio'[j] = "non_nato"
    BY <1>1, <1>2 DEF Conteggio, TypeOK
  <2> QED BY <1>2, <1>4, <1>5, <2>1 DEF Conteggio
<1>8. Gettoni' /\ Tappe'
  BY <1>2, <1>4, <1>5
  DEF Gettoni, Tappe, barriera, Prima, PrimaDelRilascio, Rimozione
<1> QED BY <1>6, <1>7, <1>8

LEMMA InvarianteSegnala ==
  ASSUME Invariante, NEW i \in Figli, ipc_signal_ready(i)
  PROVE  Invariante'
<1> USE DEF Invariante
<1>1. /\ figlio[i] = "attaccato"
      /\ figlio' = [figlio EXCEPT ![i] = "pronto"]
      /\ UNCHANGED <<config, mensa, ipc, forkati, preparato, barriera>>
      /\ ready_count' = ready_count + 1
  BY DEF ipc_signal_ready, FiglioVai, barriera
<1>2. i \notin Pronti /\ i \notin Oltre BY <1>1 DEF Pronti, Oltre, Arrivati
<1>3. /\ total' = total /\ Figli' = Figli
      /\ figlio' \in [Figli -> LuoghiFiglio]
      /\ Pronti' = Pronti \cup {i} /\ Oltre' = Oltre
  <2>1. "pronto" \in LuoghiFiglio /\ "pronto" \in Arrivati
    BY DEF LuoghiFiglio, Arrivati
  <2>2. /\ total' = total /\ Figli' = Figli
        /\ figlio' \in [Figli -> LuoghiFiglio]
        /\ Pronti' = Pronti \cup {i} /\ Oltre' = Oltre \ {i}
    BY <1>1, <2>1, UnFiglio
  <2> QED BY <1>2, <2>2
<1>4. ready_count' = Cardinality(Pronti')
  BY <1>1, <1>2, <1>3, InsiemiDiFigli, FS_AddElement DEF Conteggio
<1>5. mensa \in Prima \cup {"errore"} BY <1>2 DEF Conteggio
<1>6. Pronti' \subseteq Figli BY <1>3, InsiemiDiFigli
<1>7. ready_count' \in 0..total
  BY <1>4, <1>6, FigliFiniti
<1>8. TypeOK' BY <1>1, <1>3, <1>7 DEF TypeOK, config, barriera
<1>9. Conteggio'
  <2>1. \A j \in Figli : j >= forkati => figlio'[j] = "non_nato"
    BY <1>1 DEF Conteggio, TypeOK
  <2> QED BY <1>1, <1>3, <1>4, <1>5, <2>1 DEF Conteggio
<1>10. Gettoni' /\ Tappe'
  BY <1>1, <1>3, <1>5
  DEF Gettoni, Tappe, barriera, Prima, PrimaDelRilascio, Rimozione
<1> QED BY <1>8, <1>9, <1>10

LEMMA InvariantePassa ==
  ASSUME Invariante, NEW i \in Figli, PassaBarriera(i)
  PROVE  Invariante'
<1> USE DEF Invariante
<1>1. /\ figlio[i] = "pronto" /\ sem_barrier > 0
      /\ figlio' = [figlio EXCEPT ![i] = "oltre"]
      /\ UNCHANGED <<config, mensa, ipc, forkati, preparato, rilasci,
                     ready_count>>
      /\ sem_barrier' = sem_barrier - 1
  BY DEF PassaBarriera, FiglioVai
<1>2. i \in Pronti /\ i \notin Oltre BY <1>1 DEF Pronti, Oltre, Arrivati
<1>3. /\ total' = total /\ Figli' = Figli
      /\ figlio' \in [Figli -> LuoghiFiglio]
      /\ Pronti' = Pronti /\ Oltre' = Oltre \cup {i}
  <2>1. "oltre" \in LuoghiFiglio /\ "oltre" \in Arrivati
    BY DEF LuoghiFiglio, Arrivati
  <2>2. /\ total' = total /\ Figli' = Figli
        /\ figlio' \in [Figli -> LuoghiFiglio]
        /\ Pronti' = Pronti \cup {i} /\ Oltre' = Oltre \cup {i}
    BY <1>1, <2>1, UnFiglio
  <2> QED BY <1>2, <2>2
<1>4. Cardinality(Oltre') = Cardinality(Oltre) + 1
  BY <1>2, <1>3, InsiemiDiFigli, FS_AddElement
<1>5. mensa \notin PrimaDelRilascio /\ mensa \notin Rimozione
  BY <1>1 DEF Gettoni, Tappe
<1>6. TypeOK' BY <1>1, <1>3, FigliFiniti DEF TypeOK, config
<1>7. Conteggio'
  <2>1. \A j \in Figli : j >= forkati => figlio'[j] = "non_nato"
    BY <1>1 DEF Conteggio, TypeOK
  <2> QED BY <1>1, <1>3, <2>1 DEF Conteggio
<1>8. Gettoni'
  BY <1>1, <1>3, <1>4, <1>5, InsiemiDiFigli
  DEF Gettoni, TypeOK
<1>9. Tappe'
  BY <1>1, <1>3, <1>5 DEF Tappe, config, PrimaDelRilascio, Rimozione
<1> QED BY <1>6, <1>7, <1>8, <1>9

LEMMA InvarianteMuore ==
  ASSUME Invariante, NEW i \in Figli, Muore(i)
  PROVE  Invariante'
<1> USE DEF Invariante
<1>1. /\ mensa = "wait" /\ figlio[i] \in Vivo
      /\ figlio' = [figlio EXCEPT ![i] = "uscito"]
      /\ UNCHANGED <<config, mensa, ipc, forkati, preparato, barriera,
                     ready_count>>
  BY DEF Muore
<1>2. i \in Pronti BY <1>1 DEF Conteggio, Prima
<1>3. /\ total' = total /\ Figli' = Figli
      /\ figlio' \in [Figli -> LuoghiFiglio]
      /\ Pronti' = Pronti
  <2>1. "uscito" \in LuoghiFiglio /\ "uscito" \in Arrivati
    BY DEF LuoghiFiglio, Arrivati
  <2>2. /\ total' = total /\ Figli' = Figli
        /\ figlio' \in [Figli -> LuoghiFiglio]
        /\ Pronti' = Pronti \cup {i}
    BY <1>1, <2>1, UnFiglio
  <2> QED BY <1>2, <2>2
<1>4. TypeOK' BY <1>1, <1>3 DEF TypeOK, config, barriera
<1>5. Conteggio'
  <2>1. \A j \in Figli : j >= forkati => figlio'[j] = "non_nato"
    BY <1>1 DEF Conteggio, TypeOK, Vivo
  <2> QED BY <1>1, <1>3, <2>1 DEF Conteggio
<1>6. Gettoni' /\ Tappe'
  BY <1>1, <1>3
  DEF Gettoni, Tappe, barriera, config, Prima, PrimaDelRilascio, Rimozione
<1> QED BY <1>4, <1>5, <1>6

-----------------------------------------------------------------------------
LEMMA InvarianteSempre == Spec => []Invariante
<1>1. Init => Invariante BY InvarianteIniziale
<1>2. Invariante /\ [Next]_vars => Invariante'
  <2> SUFFICES ASSUME Invariante, [Next]_vars PROVE Invariante' OBVIOUS
  <2>1. CASE main
    BY <2>1, InvariantePreparazione, InvarianteFork, InvariantePrimoGiorno,
       InvarianteRilascio, InvarianteChiusura DEF main
  <2>2. ASSUME NEW i \in Figli, FiglioMain(i) PROVE Invariante'
    BY <2>2, InvarianteAvviato, InvarianteSegnala, InvariantePassa
    DEF FiglioMain
  <2>3. ASSUME NEW i \in Figli, Muore(i) PROVE Invariante'
    BY <2>3, InvarianteMuore
  <2>4. CASE UNCHANGED vars
    <3>1. UNCHANGED <<config, figlio, forkati, ready_count, mensa, ipc,
                      preparato, rilasci, sem_barrier>>
      BY <2>4 DEF vars, figliVars, barriera
    <3>2. /\ total' = total /\ Figli' = Figli
          /\ Pronti' = Pronti /\ Oltre' = Oltre
      BY <3>1, FigliFermi
    <3> QED
      BY <3>1, <3>2
      DEF Invariante, TypeOK, Conteggio, Gettoni, Tappe, config
  <2> QED BY <2>1, <2>2, <2>3, <2>4 DEF Next
<1> QED BY <1>1, <1>2, PTL DEF Spec

\* Types: no loop forks, posts or counts more than the children there are.
THEOREM AvvioTypeCorrect == Spec => []TypeOK
<1>1. Invariante => TypeOK BY DEF Invariante
<1> QED BY <1>1, InvarianteSempre, PTL

\* After wait_all_ready every pid the manager holds is that of a child that
\* was started: no -1 of a failed fork gets to kill.
THEOREM NessunPidFallito == Spec => []TuttiPartiti
<1>1. Invariante => TuttiPartiti
  BY DEF Invariante, Conteggio, Pronti, Arrivati, TuttiPartiti
<1> QED BY <1>1, InvarianteSempre, PTL

\* Whoever is past the barrier finds the first day complete, and everybody
\* else started.
THEOREM BarrieraDiPartenza == Spec => []PartenzaInsieme
<1>1. Invariante => PartenzaInsieme
  <2> SUFFICES ASSUME Invariante, \E i \in Figli : figlio[i] = "oltre"
               PROVE  /\ preparato = PrimoGiorno /\ NOFWORKERS >= 4
                      /\ \A i \in Figli :
                           figlio[i] \in {"pronto", "oltre", "uscito"}
    BY DEF PartenzaInsieme
  <2>1. mensa \notin PrimaDelRilascio
    BY DEF Invariante, Gettoni, Oltre
  <2> QED BY <2>1 DEF Invariante, Conteggio, Tappe, Pronti, Arrivati,
                      PrimaDelRilascio
<1> QED BY <1>1, InvarianteSempre, PTL

\* During the days a child still at the barrier always has a token to take.
THEOREM GettoniBastano == Spec => []NessunoBloccato
<1>1. Invariante => NessunoBloccato
  <2> SUFFICES ASSUME Invariante, mensa = "simula",
                      NEW i \in Figli, figlio[i] = "pronto"
               PROVE  sem_barrier > 0
    BY DEF NessunoBloccato
  <2>1. Oltre # Figli BY DEF Oltre
  <2>2. sem_barrier + Cardinality(Oltre) = total
    BY DEF Invariante, Gettoni
  <2>3. Cardinality(Oltre) \in Nat /\ Cardinality(Oltre) # total
        /\ Cardinality(Oltre) <= total /\ total \in Nat
    BY <2>1, FigliFiniti, InsiemiDiFigli DEF Invariante
  <2> QED BY <2>2, <2>3 DEF Invariante, TypeOK
<1> QED BY <1>1, InvarianteSempre, PTL

\* The IPC objects go when no child is left, and all of them go.
THEOREM ChiusuraSemprePulita == Spec => []ChiusuraPulita
<1>1. Invariante => ChiusuraPulita
  BY DEF Invariante, TypeOK, Tappe, Risorse, ChiusuraPulita
<1> QED BY <1>1, InvarianteSempre, PTL
=============================================================================
