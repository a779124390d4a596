--------------------------- MODULE PuntualeProofs ---------------------------
(***************************************************************************)
(* Theorems about the day protocol when the naps of the code are long      *)
(* enough (Puntuale) and no pause outlives the day (PauseNelGiorno), for   *)
(* every set of operators and users, every assignment to stations and      *)
(* every number of posts, seats and days.                                  *)
(***************************************************************************)
EXTENDS GiornataProofs

-----------------------------------------------------------------------------
(* The inductive invariant.                                                *)

\* An operator that has left its post for a pause, until it has one again.
InPausa == {"pausa", "reacquire", "reacquire_lock", "release_pausa"}

\* What the naps of the code do not ensure: no pause outlives the day.
PauseNelGiorno ==
  ~simulation_running => \A o \in Operatori : op[o] \notin InPausa

UtentiIn(luoghi) == {u \in Utenti : ut[u] \in luoghi}
Dormienti == {p \in Processi : Luogo(p) = "day_start"}

\* The counters of the day count users, each of them once.
Registrati ==
  /\ stats_giorno.in_attesa = Cardinality(attesa_oggi)
  /\ stats_giorno.serviti = Cardinality(serviti_oggi)

\* the places where a user has been at the barrier, may have been counted as
\* left waiting, and has an outcome
Arrivato == {"servito", "barriera", "day_start"}
Contato  == {"arrivo", "fatto", "servito", "barriera", "day_start"}
Esitato  == {"arrivo", "barriera", "day_start"}

\* Where a user has been counted, and where it must have been: before anybody
\* is at the barrier, and when every token has been taken.
EsitoAlba(u) ==
  /\ u \in attesa_oggi => ut[u] \in {"arrivo", "fatto"}
  /\ u \notin serviti_oggi
  /\ ut[u] = "arrivo" => u \in attesa_oggi

EsitoPieno(u) ==
  /\ u \in attesa_oggi => ut[u] \in Contato
  /\ u \in serviti_oggi => ut[u] \in {"barriera", "day_start"}
  /\ ut[u] \in Esitato => u \in attesa_oggi \cup serviti_oggi

\* The day is open and some may still have their token to take: there is one
\* for each of them, and nobody has been at the barrier.
Alba ==
  /\ sem_day_start = Cardinality(Dormienti)
  /\ day_barrier_count = 0
  /\ \A u \in Utenti : ut[u] \notin {"servito", "barriera"}
  /\ \A u \in Utenti : EsitoAlba(u)

\* Every token has been taken: who is at day_start has done its day.
Pieno ==
  /\ sem_day_start = 0
  /\ \A p \in Processi : Luogo(p) # "controllo"
  /\ day_barrier_count = Cardinality(UtentiIn(Arrivato))
  /\ \A u \in Utenti : EsitoPieno(u)

\* Between two days everybody sleeps on an empty semaphore.
Deserto ==
  /\ sem_day_start = 0
  /\ \A p \in Processi : Luogo(p) = "day_start"

\* At the end a token is only a way out.
Congedo == \A p \in Processi : Luogo(p) \in {"day_start", "controllo", "uscito"}

Fasi ==
  /\ simulation_running <=> mensa = "giorno"
  /\ mensa = "giorno" => Alba \/ Pieno
  /\ mensa \in {"attesa", "chiusura"} => Pieno
  /\ mensa = "chiusura" => \A u \in Utenti : ut[u] \in Arrivato
  /\ mensa \in {"overload", "reset", "apri"} => Deserto
  /\ mensa = "apri" => attesa_oggi = {} /\ serviti_oggi = {}
  /\ mensa \in {"overload", "reset"} =>
       Utenti \subseteq attesa_oggi \cup serviti_oggi
  /\ Terminante => Congedo
  /\ mensa \notin {"giorno", "attesa", "chiusura"} =>
       day_barrier_count <= NOFUSERS

\* An operator leaves its turn only for a day that is closed, and nobody leaves
\* its loop before the end.
Turni ==
  /\ \A o \in Operatori : op[o] # "release_pausa"
  /\ simulation_running => \A o \in Operatori : op[o] # "release"
  /\ ~Terminante => \A p \in Processi : Luogo(p) # "uscito"

Invariante == Tipi /\ Fasi /\ Turni /\ PostiEsatti /\ Registrati

-----------------------------------------------------------------------------
(* How many users are where.                                               *)

LEMMA UtentiContati ==
  ASSUME NEW L
  PROVE  /\ IsFiniteSet(UtentiIn(L)) /\ Cardinality(UtentiIn(L)) \in Nat
         /\ IsFiniteSet(UtentiIn(L)') /\ Cardinality(UtentiIn(L)') \in Nat
         /\ Cardinality(UtentiIn(L)) <= NOFUSERS
         /\ Cardinality(UtentiIn(L)') <= NOFUSERS
         /\ NOFUSERS \in Nat
<1>1. UtentiIn(L) \subseteq Utenti /\ UtentiIn(L)' \subseteq Utenti
  BY DEF UtentiIn
<1> QED
  BY <1>1, CostantiGiornata, FS_Subset, FS_CardinalityType DEF NOFUSERS

\* A step of a user moves it from one set of places to another.
LEMMA UnoSiSposta ==
  ASSUME Tipi, NEW u \in Utenti, NEW da, NEW a, UtVai(u, da, a), NEW L
  PROVE  /\ da \notin L /\ a \in L =>
              Cardinality(UtentiIn(L)') = Cardinality(UtentiIn(L)) + 1
         /\ da \in L /\ a \notin L =>
              Cardinality(UtentiIn(L)') = Cardinality(UtentiIn(L)) - 1
         /\ (da \in L <=> a \in L) =>
              Cardinality(UtentiIn(L)') = Cardinality(UtentiIn(L))
<1>1. UtentiIn(L)' = IF a \in L THEN UtentiIn(L) \cup {u} ELSE UtentiIn(L) \ {u}
  BY DEF Tipi, TypeOK, UtVai, UtentiIn
<1>2. u \in UtentiIn(L) <=> da \in L BY DEF UtVai, UtentiIn
<1>3. IsFiniteSet(UtentiIn(L)) BY UtentiContati
<1>4. CASE da \notin L /\ a \in L BY <1>1, <1>2, <1>3, <1>4, FS_AddElement
<1>5. CASE da \in L /\ a \notin L BY <1>1, <1>2, <1>3, <1>5, FS_RemoveElement
<1>6. CASE da \in L <=> a \in L
  <2>1. UtentiIn(L)' = UtentiIn(L) BY <1>1, <1>2, <1>6
  <2> QED BY <1>6, <2>1
<1> QED BY <1>4, <1>5, <1>6

LEMMA NessunoSiSposta ==
  ASSUME UNCHANGED ut, NEW L
  PROVE  UtentiIn(L)' = UtentiIn(L)
BY DEF UtentiIn

LEMMA TuttiIn ==
  ASSUME NEW L, \A u \in Utenti : ut[u] \in L
  PROVE  Cardinality(UtentiIn(L)) = NOFUSERS
<1>1. UtentiIn(L) = Utenti BY DEF UtentiIn
<1> QED BY <1>1 DEF NOFUSERS

LEMMA NessunoIn ==
  ASSUME NEW L, \A u \in Utenti : ut[u] \notin L
  PROVE  Cardinality(UtentiIn(L)) = 0
<1>1. UtentiIn(L) = {} BY DEF UtentiIn
<1> QED BY <1>1, FS_EmptySet

\* If the set counts as many users as there are, it holds them all.
LEMMA SonoTutti ==
  ASSUME NEW L, Cardinality(UtentiIn(L)) >= NOFUSERS
  PROVE  \A u \in Utenti : ut[u] \in L
<1>1. UtentiIn(L) \subseteq Utenti BY DEF UtentiIn
<1>2. Cardinality(UtentiIn(L)) = Cardinality(Utenti)
  BY UtentiContati DEF NOFUSERS
<1>3. UtentiIn(L) = Utenti BY <1>1, <1>2, CostantiGiornata, FS_Subset
<1> QED BY <1>3 DEF UtentiIn

LEMMA DormientiContati ==
  /\ IsFiniteSet(Dormienti) /\ Cardinality(Dormienti) \in Nat
  /\ IsFiniteSet(Processi)
  /\ Cardinality(Processi) = Cardinality(Operatori) + Cardinality(Utenti)
<1>1. /\ IsFiniteSet(Processi)
      /\ Cardinality(Processi) =
           Cardinality(Operatori) + Cardinality(Utenti) - Cardinality(Operatori \cap Utenti)
  BY CostantiGiornata, FS_Union DEF Processi
<1>2. Cardinality(Operatori \cap Utenti) = 0
  BY CostantiGiornata, FS_EmptySet
<1>3. Dormienti \subseteq Processi BY DEF Dormienti
<1> QED BY <1>1, <1>2, <1>3, CardinalitaProcessi, FS_Subset, FS_CardinalityType

\* One process takes a token and wakes up; the others stay where they are.
LEMMA UnoSiSveglia ==
  ASSUME NEW p \in Processi, Luogo(p) = "day_start", Luogo(p)' # "day_start",
         \A q \in Processi \ {p} : Luogo(q)' = Luogo(q)
  PROVE  Cardinality(Dormienti') = Cardinality(Dormienti) - 1
<1>1. Dormienti' = Dormienti \ {p} /\ p \in Dormienti BY DEF Dormienti
<1> QED BY <1>1, DormientiContati, FS_RemoveElement

LEMMA Luoghi ==
  /\ \A o \in Operatori : o \in Processi /\ Luogo(o) = op[o]
  /\ \A u \in Utenti : u \in Processi /\ Luogo(u) = ut[u]
BY CostantiGiornata DEF Processi, Luogo

LEMMA ContatoriNaturali ==
  ASSUME Tipi
  PROVE  day_barrier_count \in Nat /\ sem_day_start \in Nat
BY DEF Tipi, TypeOK

-----------------------------------------------------------------------------
(* The posts.                                                              *)

LEMMA AltriPosti ==
  ASSUME PostiEsatti, Tipi, NEW o \in Operatori, NEW da, NEW a,
         OpVai(o, da, a), da \in AlPosto <=> a \in AlPosto,
         UNCHANGED postazioni_occupate
  PROVE  PostiEsatti'
<1>1. \A s : Attivi(s)' = Attivi(s) BY StessiAttivi
<1> QED BY <1>1 DEF PostiEsatti

LEMMA PostiEsattiOperatore ==
  ASSUME Tipi, Turni, PostiEsatti, NEW o \in Operatori, operator_loop(o)
  PROVE  PostiEsatti'
<1> DEFINE st == StazioneDi[o]
<1>a. st \in Stazioni BY CostantiGiornata
<1>b. postazioni_occupate \in [Stazioni -> Int] BY DEF Tipi, TypeOK
<1>c. PostazioniTotali \in [Stazioni -> Nat \ {0}] BY CostantiGiornata
\* a post is left by an operator that holds it
<1>d. ASSUME NEW da \in AlPosto, NEW a, OpVai(o, da, a), a \notin AlPosto,
             postazioni_occupate' = [postazioni_occupate EXCEPT ![st] = @ - 1]
      PROVE  PostiEsatti'
  <2>1. \A s : Attivi(s)' = Attivi(s) \ {o} BY <1>d, CambioAttivi
  <2>2. o \in Attivi(st) /\ \A s : s # st => o \notin Attivi(s)
    BY <1>d DEF OpVai, Attivi, AlPosto
  <2>3. Cardinality(Attivi(st)') = Cardinality(Attivi(st)) - 1
    BY <2>1, <2>2, AttiviFiniti, FS_RemoveElement
  <2>4. \A s : s # st => Attivi(s)' = Attivi(s) BY <2>1, <2>2
  <2> QED
    BY <1>a, <1>b, <1>c, <1>d, <2>3, <2>4, AttiviFiniti DEF PostiEsatti
<1>1. CASE OpPrendeGettone(o)
  BY <1>1, AltriPosti DEF OpPrendeGettone, AlPosto
<1>2. CASE OpInizia(o) BY <1>2, AltriPosti DEF OpInizia, AlPosto
<1>3. CASE OpEsce(o) BY <1>3, AltriPosti DEF OpEsce, AlPosto
<1>4. CASE AcquireTenta(o) BY <1>4, AltriPosti DEF AcquireTenta, AlPosto
<1>5. CASE AcquirePrende(o)
  <2>1. /\ \A s : Attivi(s)' = IF st = s THEN Attivi(s) \cup {o}
                                          ELSE Attivi(s) \ {o}
        /\ \A s : o \notin Attivi(s)
    BY <1>5, CambioAttivi DEF AcquirePrende, AlPosto, OpVai, Attivi
  <2>2. Cardinality(Attivi(st)') = Cardinality(Attivi(st)) + 1
    BY <2>1, AttiviFiniti, FS_AddElement
  <2>3. \A s : s # st => Attivi(s)' = Attivi(s) BY <2>1
  <2>4. /\ postazioni_occupate' = [postazioni_occupate EXCEPT ![st] = @ + 1]
        /\ postazioni_occupate[st] < PostazioniTotali[st]
    BY <1>5 DEF AcquirePrende
  <2> QED
    BY <1>a, <1>b, <1>c, <2>2, <2>3, <2>4, AttiviFiniti DEF PostiEsatti
<1>6. CASE AcquireAspetta(o) BY <1>6, AltriPosti DEF AcquireAspetta, AlPosto
<1>7. CASE AcquireRinuncia(o) BY <1>7, AltriPosti DEF AcquireRinuncia, AlPosto
<1>8. CASE TurnoContinua(o) BY <1>8, AltriPosti DEF TurnoContinua, AlPosto
<1>9. CASE TurnoFinito(o) BY <1>9, AltriPosti DEF TurnoFinito, AlPosto
<1>10. CASE ServeSenzaPausa(o) BY <1>10, AltriPosti DEF ServeSenzaPausa, AlPosto
<1>11. CASE handle_pause(o) BY <1>11, <1>d DEF handle_pause, AlPosto
<1>12. CASE FinePausa(o) BY <1>12, AltriPosti DEF FinePausa, AlPosto
<1>13. CASE release_station_post(o)
  <2>1. OpVai(o, "release", "day_start")
    BY <1>13 DEF release_station_post, OpVai, Turni
  <2> QED BY <1>13, <1>d, <2>1 DEF release_station_post, AlPosto
<1> QED
  BY <1>1, <1>2, <1>3, <1>4, <1>5, <1>6, <1>7, <1>8, <1>9, <1>10, <1>11,
     <1>12, <1>13 DEF operator_loop

-----------------------------------------------------------------------------
(* The operators.                                                          *)

\* The four kinds of steps of an operator, seen from the day.
Sveglia(o) ==
  /\ OpVai(o, "day_start", "controllo")
  /\ sem_day_start > 0 /\ sem_day_start' = sem_day_start - 1
Entra(o) ==
  /\ OpVai(o, "controllo", "acquire")
  /\ simulation_running /\ sem_day_start' = sem_day_start
Esce(o) ==
  /\ OpVai(o, "controllo", "uscito")
  /\ ~simulation_running /\ sem_day_start' = sem_day_start
Lavora(o) ==
  \E da, a \in LuoghiOperatore :
    /\ OpVai(o, da, a)
    /\ sem_day_start' = sem_day_start
    /\ da \notin {"day_start", "controllo", "uscito"}
    /\ a \notin {"controllo", "uscito", "release_pausa"}
    /\ a \in {"day_start", "release"} => ~simulation_running

LEMMA OperatoreMuove ==
  ASSUME Turni, PauseNelGiorno, NEW o \in Operatori, operator_loop(o)
  PROVE  /\ UNCHANGED <<mensaVars, utVars, simulation_running, day_barrier_count>>
         /\ Sveglia(o) \/ Entra(o) \/ Esce(o) \/ Lavora(o)
<1> USE DEF giornoVars
<1>1. CASE OpPrendeGettone(o) BY <1>1 DEF OpPrendeGettone, Sveglia
<1>2. CASE OpInizia(o) BY <1>2 DEF OpInizia, Entra
<1>3. CASE OpEsce(o) BY <1>3 DEF OpEsce, Esce
<1>l. ASSUME NEW da \in LuoghiOperatore, NEW a \in LuoghiOperatore, OpVai(o, da, a),
             UNCHANGED sem_day_start,
             da \notin {"day_start", "controllo", "uscito"},
             a \notin {"controllo", "uscito", "release_pausa"},
             a \in {"day_start", "release"} => ~simulation_running
      PROVE  Lavora(o)
  BY <1>l DEF Lavora
<1>4. CASE AcquireTenta(o) BY <1>4, <1>l DEF AcquireTenta, LuoghiOperatore
<1>5. CASE AcquirePrende(o) BY <1>5, <1>l DEF AcquirePrende, LuoghiOperatore
<1>6. CASE AcquireAspetta(o) BY <1>6, <1>l DEF AcquireAspetta, LuoghiOperatore
<1>7. CASE AcquireRinuncia(o)
  <2>1. OpVai(o, "acquire", "day_start") /\ ~simulation_running
    BY <1>7 DEF AcquireRinuncia, OpVai, PauseNelGiorno, InPausa
  <2> QED BY <1>7, <1>l, <2>1 DEF AcquireRinuncia, LuoghiOperatore
<1>8. CASE TurnoContinua(o) BY <1>8, <1>l DEF TurnoContinua, LuoghiOperatore
<1>9. CASE TurnoFinito(o) BY <1>9, <1>l DEF TurnoFinito, LuoghiOperatore
<1>10. CASE ServeSenzaPausa(o) BY <1>10, <1>l DEF ServeSenzaPausa, LuoghiOperatore
<1>11. CASE handle_pause(o) BY <1>11, <1>l DEF handle_pause, LuoghiOperatore
<1>12. CASE FinePausa(o) BY <1>12, <1>l DEF FinePausa, LuoghiOperatore
<1>13. CASE release_station_post(o)
  <2>1. OpVai(o, "release", "day_start") /\ ~simulation_running
    BY <1>13 DEF release_station_post, OpVai, Turni
  <2> QED BY <1>13, <1>l, <2>1 DEF release_station_post, LuoghiOperatore
<1> QED
  BY <1>1, <1>2, <1>3, <1>4, <1>5, <1>6, <1>7, <1>8, <1>9, <1>10, <1>11,
     <1>12, <1>13 DEF operator_loop, OpPrendeGettone, OpInizia, OpEsce,
     AcquireTenta, AcquirePrende, AcquireAspetta, AcquireRinuncia,
     TurnoContinua, TurnoFinito, ServeSenzaPausa, handle_pause, FinePausa,
     release_station_post

LEMMA SiMuoveLui ==
  ASSUME Tipi, NEW o \in Operatori, NEW da, NEW a, OpVai(o, da, a), UNCHANGED ut
  PROVE  /\ Luogo(o) = da /\ Luogo(o)' = a
         /\ \A p \in Processi \ {o} : Luogo(p)' = Luogo(p)
BY DEF Tipi, TypeOK, OpVai, Luogo, Processi

LEMMA InvarianteOperatore ==
  ASSUME Invariante, PauseNelGiorno, NEW o \in Operatori, operator_loop(o)
  PROVE  Invariante'
<1>1. Tipi' BY TipiOperatore DEF Invariante
<1>2. PostiEsatti' BY PostiEsattiOperatore DEF Invariante
<1>3. /\ UNCHANGED <<mensa, ut, contoVars, simulation_running,
                     day_barrier_count>>
      /\ Sveglia(o) \/ Entra(o) \/ Esce(o) \/ Lavora(o)
  BY OperatoreMuove DEF Invariante, mensaVars, utVars
<1>4. /\ Tipi /\ Fasi /\ Turni /\ sem_day_start \in Nat /\ o \in Processi
      /\ mensa \in LuoghiMensa
  BY ContatoriNaturali, Luoghi DEF Invariante, Tipi, TypeOK
<1>5. \A L : UtentiIn(L)' = UtentiIn(L) BY <1>3, NessunoSiSposta
<1>6. /\ \A u \in Utenti : EsitoAlba(u)' <=> EsitoAlba(u)
      /\ \A u \in Utenti : EsitoPieno(u)' <=> EsitoPieno(u)
  BY <1>3 DEF EsitoAlba, EsitoPieno, contoVars
<1>7. mensa \notin {"overload", "reset", "apri"}
  <2>1. ~Deserto
    <3> SUFFICES ASSUME Deserto PROVE FALSE OBVIOUS
    <3>1. op[o] = "day_start" /\ sem_day_start = 0
      BY <1>4, Luoghi DEF Deserto
    <3> QED BY <1>3, <3>1 DEF Sveglia, Entra, Esce, Lavora, OpVai
  <2> QED BY <1>4, <2>1 DEF Fasi
<1>8. Alba /\ simulation_running => Alba'
  <2> SUFFICES ASSUME Alba, simulation_running PROVE Alba' OBVIOUS
  <2>1. sem_day_start' = Cardinality(Dormienti')
    <3>1. CASE Sveglia(o)
      <4>1. /\ Luogo(o) = "day_start" /\ Luogo(o)' # "day_start"
            /\ \A p \in Processi \ {o} : Luogo(p)' = Luogo(p)
        BY <1>3, <1>4, <3>1, SiMuoveLui DEF Sveglia
      <4>2. Cardinality(Dormienti') = Cardinality(Dormienti) - 1
        BY <1>4, <4>1, UnoSiSveglia
      <4> QED BY <3>1, <4>2 DEF Alba, Sveglia
    <3>2. CASE Entra(o) \/ Lavora(o)
      <4>1. PICK da, a \in LuoghiOperatore :
              OpVai(o, da, a) /\ da # "day_start" /\ a # "day_start"
        BY <3>2 DEF Entra, Lavora, LuoghiOperatore
      <4>2. Dormienti' = Dormienti
        BY <1>3, <1>4, <4>1, SiMuoveLui DEF Dormienti
      <4>3. sem_day_start' = sem_day_start BY <3>2 DEF Entra, Lavora
      <4> QED BY <4>2, <4>3 DEF Alba
    <3> QED BY <1>3, <3>1, <3>2 DEF Esce
  <2> QED BY <1>3, <1>5, <1>6, <2>1 DEF Alba
<1>9. Pieno => Pieno' /\ ~Esce(o)
  <2> SUFFICES ASSUME Pieno PROVE Pieno' /\ ~Esce(o) OBVIOUS
  <2>1. op[o] # "controllo" /\ sem_day_start = 0 BY <1>4, Luoghi DEF Pieno
  <2>2. Lavora(o) /\ ~Esce(o)
    BY <1>3, <2>1 DEF Sveglia, Entra, Esce, OpVai
  <2>3. PICK da, a \in LuoghiOperatore : OpVai(o, da, a) /\ a # "controllo"
    BY <2>2 DEF Lavora
  <2>4. \A p \in Processi : Luogo(p)' # "controllo"
    BY <1>3, <1>4, <2>3, SiMuoveLui DEF Pieno
  <2>5. sem_day_start' = 0 BY <2>1, <2>2 DEF Lavora
  <2> QED BY <1>3, <1>5, <1>6, <2>2, <2>4, <2>5 DEF Pieno
<1>10. Terminante => Congedo'
  <2> SUFFICES ASSUME Terminante PROVE Congedo' OBVIOUS
  <2>1. op[o] \in {"day_start", "controllo", "uscito"} /\ ~simulation_running
    BY <1>4, Luoghi DEF Fasi, Congedo, Terminante
  <2>2. PICK da, a \in LuoghiOperatore :
          OpVai(o, da, a) /\ a \in {"controllo", "uscito"}
    BY <1>3, <2>1 DEF Sveglia, Entra, Esce, Lavora, OpVai, LuoghiOperatore
  <2> QED BY <1>3, <1>4, <2>2, SiMuoveLui DEF Congedo, Fasi
<1>11. Fasi'
  BY <1>3, <1>4, <1>7, <1>8, <1>9, <1>10
  DEF Fasi, Terminante, contoVars
<1>12. Turni'
  <2>1. PICK da, a \in LuoghiOperatore :
          /\ OpVai(o, da, a)
          /\ a # "release_pausa"
          /\ a = "release" => ~simulation_running
          /\ a = "uscito" => Esce(o)
    BY <1>3 DEF Sveglia, Entra, Esce, Lavora, LuoghiOperatore
  <2>2. a = "uscito" => Terminante
    <3> SUFFICES ASSUME Esce(o), ~Terminante PROVE FALSE BY <2>1
    <3>1. ~Pieno /\ ~simulation_running BY <1>9 DEF Esce
    <3> QED BY <1>4, <1>7, <3>1 DEF Fasi, LuoghiMensa, Terminante
  <2>3. /\ op' = [op EXCEPT ![o] = a] /\ op \in [Operatori -> LuoghiOperatore]
    BY <1>4, <2>1 DEF OpVai, Tipi, TypeOK
  <2>4. Luogo(o)' = a /\ \A p \in Processi \ {o} : Luogo(p)' = Luogo(p)
    BY <1>3, <1>4, <2>1, SiMuoveLui
  <2>5. Terminante' <=> Terminante BY <1>3 DEF Terminante
  <2>6. ~Terminante => \A p \in Processi : Luogo(p)' # "uscito"
    BY <1>4, <2>2, <2>4 DEF Turni
  <2> QED BY <1>3, <1>4, <2>1, <2>3, <2>5, <2>6 DEF Turni
<1>13. Registrati' BY <1>3 DEF Invariante, Registrati, contoVars
<1> QED BY <1>1, <1>2, <1>11, <1>12, <1>13 DEF Invariante

-----------------------------------------------------------------------------
(* The users.                                                              *)

\* When every process has had the time to take its token, the dawn is over.
LEMMA AlbaFinisce ==
  ASSUME Tipi, Alba, Svegli
  PROVE  Pieno
<1>1. Dormienti = {} /\ sem_day_start = 0
  <2>1. CASE Dormienti = {} BY <2>1, FS_EmptySet DEF Alba
  <2>2. CASE Dormienti # {}
    <3>1. sem_day_start = 0 BY <2>2 DEF Dormienti, Svegli
    <3>2. Dormienti = {}
      BY <3>1, DormientiContati, FS_EmptySet DEF Alba
    <3> QED BY <2>2, <3>2
  <2> QED BY <2>1, <2>2
<1>2. \A u \in Utenti : ut[u] \notin Arrivato
  BY <1>1, Luoghi DEF Dormienti, Alba, Arrivato
<1>3. Cardinality(UtentiIn(Arrivato)) = 0 BY <1>2, NessunoIn
<1>4. \A u \in Utenti : EsitoPieno(u)
  BY <1>2 DEF Alba, EsitoAlba, EsitoPieno, Arrivato, Contato, Esitato
<1> QED BY <1>1, <1>3, <1>4 DEF Alba, Pieno, Svegli

LEMMA UtenteSiMuove ==
  ASSUME Tipi, NEW u \in Utenti, NEW da, NEW a, UtVai(u, da, a), UNCHANGED op
  PROVE  /\ Luogo(u) = da /\ Luogo(u)' = a
         /\ ut[u] = da /\ ut'[u] = a
         /\ \A p \in Processi \ {u} : Luogo(p)' = Luogo(p)
         /\ \A w \in Utenti \ {u} : ut'[w] = ut[w]
BY CostantiGiornata DEF Tipi, TypeOK, UtVai, Luogo, Processi

\* What a step of a user leaves to the others, and when it adds to a counter.
LEMMA ContoUtente ==
  ASSUME Tipi, NEW u \in Utenti, user_loop(u)
  PROVE  /\ \A w \in Utenti \ {u} :
              /\ ut'[w] = ut[w]
              /\ w \in attesa_oggi' <=> w \in attesa_oggi
              /\ w \in serviti_oggi' <=> w \in serviti_oggi
         /\ \/ UNCHANGED contoVars
            \/ ut[u] \in {"non_servito", "tavolo_perso"} /\ ContaNonServito(u)
            \/ ut[u] = "servito" /\ UtContaServito(u)
<1> USE DEF UtVai, Tipi, TypeOK
<1>1. CASE UtContaNonServito(u) \/ TavoloPerso(u)
  BY <1>1 DEF UtContaNonServito, TavoloPerso, ContaNonServito
<1>2. CASE UtContaServito(u) BY <1>2 DEF UtContaServito
<1>3. CASE ~UtContaNonServito(u) /\ ~TavoloPerso(u) /\ ~UtContaServito(u)
  <2>1. UNCHANGED contoVars /\ \A w \in Utenti \ {u} : ut'[w] = ut[w]
    BY <1>3 DEF user_loop, UtPrendeGettone, UtInizia, UtEsce, UtTrovaChiuso,
       UtRinuncia, UtPaga, UtArriva, TavoloCerca, TavoloPreso, TavoloScaduto,
       TavoloChiuso, FineMangiare, UtLasciaBarriera
  <2> QED BY <2>1 DEF contoVars
<1> QED BY <1>1, <1>2, <1>3

\* A counter and its set grow together: a user at the place where it is counted
\* has not been counted there before.
LEMMA RegistratiUtente ==
  ASSUME Tipi, Registrati, NEW u \in Utenti, user_loop(u),
         EsitoAlba(u) \/ EsitoPieno(u)
  PROVE  Registrati'
<1>0. /\ IsFiniteSet(attesa_oggi) /\ IsFiniteSet(serviti_oggi)
      /\ stats_giorno \in Contatori
  BY CostantiGiornata, FS_Subset DEF Tipi, TypeOK
<1>1. CASE UNCHANGED contoVars BY <1>1 DEF Registrati, contoVars
<1>2. CASE ut[u] \in {"non_servito", "tavolo_perso"} /\ ContaNonServito(u)
  <2>1. u \notin attesa_oggi BY <1>2 DEF EsitoAlba, EsitoPieno, Contato
  <2>2. /\ attesa_oggi' = attesa_oggi \cup {u} /\ serviti_oggi' = serviti_oggi
        /\ stats_giorno'.in_attesa = stats_giorno.in_attesa + 1
        /\ stats_giorno'.serviti = stats_giorno.serviti
    BY <1>0, <1>2 DEF ContaNonServito, Contatori
  <2>3. Cardinality(attesa_oggi') = Cardinality(attesa_oggi) + 1
    BY <1>0, <2>1, <2>2, FS_AddElement
  <2> QED BY <2>2, <2>3 DEF Registrati
<1>3. CASE ut[u] = "servito" /\ UtContaServito(u)
  <2>1. u \notin serviti_oggi BY <1>3 DEF EsitoAlba, EsitoPieno
  <2>2. /\ serviti_oggi' = serviti_oggi \cup {u} /\ attesa_oggi' = attesa_oggi
        /\ stats_giorno'.serviti = stats_giorno.serviti + 1
        /\ stats_giorno'.in_attesa = stats_giorno.in_attesa
    BY <1>0, <1>3 DEF UtContaServito, Contatori
  <2>3. Cardinality(serviti_oggi') = Cardinality(serviti_oggi) + 1
    BY <1>0, <2>1, <2>2, FS_AddElement
  <2> QED BY <2>2, <2>3 DEF Registrati
<1> QED BY <1>1, <1>2, <1>3, ContoUtente

\* When every token has been taken, the barrier counts the users that have been
\* there, and a user past the place where it is counted has been counted.
LEMMA PienoUtente ==
  ASSUME Tipi, Pieno, NEW u \in Utenti, user_loop(u)
  PROVE  /\ Pieno'
         /\ ut[u] \in Arrivato => ut'[u] \in Arrivato
         /\ ut'[u] # "uscito"
<1> DEFINE A == Cardinality(UtentiIn(Arrivato))
<1>0. /\ UNCHANGED op /\ sem_day_start = 0 /\ ut[u] # "controllo"
      /\ day_barrier_count = A /\ EsitoPieno(u)
  BY UtenteNonTocca, Luoghi DEF Pieno, opVars
<1>1. ASSUME NEW da, NEW a, UtVai(u, da, a), a # "controllo", a # "uscito",
             da \in Arrivato => a \in Arrivato,
             UNCHANGED sem_day_start, day_barrier_count' = A', EsitoPieno(u)'
      PROVE  /\ Pieno'
             /\ ut[u] \in Arrivato => ut'[u] \in Arrivato
             /\ ut'[u] # "uscito"
  <2>1. /\ Luogo(u)' = a /\ ut[u] = da /\ ut'[u] = a
        /\ \A p \in Processi \ {u} : Luogo(p)' = Luogo(p)
    BY <1>0, <1>1, UtenteSiMuove
  <2>2. \A p \in Processi : Luogo(p)' # "controllo"
    BY <1>1, <2>1, Luoghi DEF Pieno
  <2>3. \A w \in Utenti : EsitoPieno(w)'
    <3>1. \A w \in Utenti \ {u} : EsitoPieno(w)' <=> EsitoPieno(w)
      BY ContoUtente DEF EsitoPieno
    <3> QED BY <1>1, <3>1 DEF Pieno
  <2> QED BY <1>0, <1>1, <2>1, <2>2, <2>3 DEF Pieno
\* the steps that leave the barrier and the counters alone
<1>2. ASSUME NEW da, NEW a, UtVai(u, da, a), a # "controllo", a # "uscito",
             da \in Arrivato <=> a \in Arrivato,
             da \in Contato => a \in Contato,
             a \in Esitato => da \in Esitato,
             da \in {"barriera", "day_start"} => a \in {"barriera", "day_start"},
             UNCHANGED <<sem_day_start, day_barrier_count, contoVars>>
      PROVE  /\ Pieno'
             /\ ut[u] \in Arrivato => ut'[u] \in Arrivato
             /\ ut'[u] # "uscito"
  <2>1. A' = A BY <1>2, UnoSiSposta
  <2>2. ut[u] = da /\ ut'[u] = a BY <1>0, <1>2, UtenteSiMuove
  <2>3. EsitoPieno(u)' BY <1>0, <1>2, <2>2 DEF EsitoPieno, contoVars
  <2> HIDE DEF A
  <2>4. day_barrier_count' = A' BY <1>0, <1>2, <2>1
  <2> QED BY <1>1, <1>2, <2>3, <2>4
<1> USE DEF giornoVars, Arrivato, Contato, Esitato
<1>3. ~UtPrendeGettone(u) /\ ~UtInizia(u) /\ ~UtEsce(u)
  BY <1>0 DEF UtPrendeGettone, UtInizia, UtEsce, UtVai
<1>4. CASE UtTrovaChiuso(u) BY <1>2, <1>4 DEF UtTrovaChiuso
<1>5. CASE UtRinuncia(u) BY <1>2, <1>5 DEF UtRinuncia
<1>6. CASE UtPaga(u) BY <1>2, <1>6 DEF UtPaga
<1>7. CASE UtContaNonServito(u)
  <2>1. /\ UtVai(u, "non_servito", "arrivo") /\ ContaNonServito(u)
        /\ UNCHANGED <<sem_day_start, day_barrier_count>>
    BY <1>7 DEF UtContaNonServito
  <2>2. A' = A BY <2>1, UnoSiSposta
  <2>3. EsitoPieno(u)'
    <3>1. ut[u] = "non_servito" /\ ut'[u] = "arrivo"
      BY <1>0, <2>1, UtenteSiMuove
    <3> QED BY <1>0, <2>1, <3>1 DEF EsitoPieno, ContaNonServito
  <2> HIDE DEF A
  <2>4. day_barrier_count' = A' BY <1>0, <2>1, <2>2
  <2> QED BY <1>1, <2>1, <2>3, <2>4 DEF A
<1>8. CASE UtArriva(u)
  <2>1. PICK da \in {"arrivo", "fatto"}, a \in {"barriera", "servito"} :
          /\ UtVai(u, da, a)
          /\ a = "barriera" <=> da = "arrivo"
    BY <1>8 DEF UtArriva
  <2>2. /\ day_barrier_count' = day_barrier_count + 1
        /\ UNCHANGED <<sem_day_start, contoVars>>
    BY <1>8 DEF UtArriva
  <2>3. A' = A + 1 BY <2>1, UnoSiSposta
  <2>4. EsitoPieno(u)'
    <3>1. ut[u] = da /\ ut'[u] = a BY <1>0, <2>1, UtenteSiMuove
    <3> QED BY <1>0, <2>1, <2>2, <3>1 DEF EsitoPieno, contoVars
  <2> HIDE DEF A
  <2>5. day_barrier_count' = A' BY <1>0, <2>2, <2>3
  <2> QED BY <1>1, <2>1, <2>2, <2>4, <2>5 DEF A
<1>9. CASE TavoloCerca(u) BY <1>2, <1>9 DEF TavoloCerca
<1>10. CASE TavoloPreso(u) BY <1>2, <1>10 DEF TavoloPreso
<1>11. CASE TavoloScaduto(u) BY <1>2, <1>11 DEF TavoloScaduto
<1>12. CASE TavoloChiuso(u) BY <1>2, <1>12 DEF TavoloChiuso
<1>13. CASE TavoloPerso(u)
  <2>1. /\ UtVai(u, "tavolo_perso", "fatto") /\ ContaNonServito(u)
        /\ UNCHANGED <<sem_day_start, day_barrier_count>>
    BY <1>13 DEF TavoloPerso
  <2>2. A' = A BY <2>1, UnoSiSposta
  <2>3. EsitoPieno(u)'
    <3>1. ut[u] = "tavolo_perso" /\ ut'[u] = "fatto"
      BY <1>0, <2>1, UtenteSiMuove
    <3> QED BY <1>0, <2>1, <3>1 DEF EsitoPieno, ContaNonServito
  <2> HIDE DEF A
  <2>4. day_barrier_count' = A' BY <1>0, <2>1, <2>2
  <2> QED BY <1>1, <2>1, <2>3, <2>4 DEF A
<1>14. CASE FineMangiare(u) BY <1>2, <1>14 DEF FineMangiare
<1>15. CASE UtContaServito(u)
  <2>1. /\ UtVai(u, "servito", "barriera")
        /\ serviti_oggi' = serviti_oggi \cup {u} /\ attesa_oggi' = attesa_oggi
        /\ UNCHANGED <<sem_day_start, day_barrier_count>>
    BY <1>15 DEF UtContaServito
  <2>2. A' = A BY <2>1, UnoSiSposta
  <2>3. EsitoPieno(u)'
    <3>1. ut[u] = "servito" /\ ut'[u] = "barriera"
      BY <1>0, <2>1, UtenteSiMuove
    <3> QED BY <1>0, <2>1, <3>1 DEF EsitoPieno
  <2> HIDE DEF A
  <2>4. day_barrier_count' = A' BY <1>0, <2>1, <2>2
  <2> QED BY <1>1, <2>1, <2>3, <2>4 DEF A
<1>16. CASE UtLasciaBarriera(u) BY <1>2, <1>16 DEF UtLasciaBarriera
<1> QED
  BY <1>3, <1>4, <1>5, <1>6, <1>7, <1>8, <1>9, <1>10, <1>11, <1>12, <1>13,
     <1>14, <1>15, <1>16 DEF user_loop

LEMMA AlbaUtente ==
  ASSUME Tipi, Alba, Puntuale, simulation_running, NEW u \in Utenti, user_loop(u)
  PROVE  /\ Alba' \/ Pieno'
         /\ ut'[u] # "uscito"
<1> DEFINE D == Cardinality(Dormienti)
<1>0. /\ UNCHANGED op /\ ut[u] \notin {"servito", "barriera"}
      /\ sem_day_start = D /\ day_barrier_count = 0 /\ EsitoAlba(u)
  BY UtenteNonTocca DEF Alba, opVars
<1>1. CASE UtArriva(u)
  <2>1. Svegli BY <1>1 DEF UtArriva
  <2> QED BY <2>1, AlbaFinisce, PienoUtente
<1>2. ASSUME NEW da, NEW a, UtVai(u, da, a), a \notin {"servito", "barriera"},
             a # "uscito", sem_day_start' = D', EsitoAlba(u)',
             UNCHANGED day_barrier_count
      PROVE  Alba' /\ ut'[u] # "uscito"
  <2>1. ut'[u] = a /\ \A w \in Utenti \ {u} : ut'[w] = ut[w]
    BY <1>0, <1>2, UtenteSiMuove
  <2>2. \A w \in Utenti : ut'[w] \notin {"servito", "barriera"}
    BY <1>2, <2>1 DEF Alba
  <2>3. \A w \in Utenti : EsitoAlba(w)'
    <3>1. \A w \in Utenti \ {u} : EsitoAlba(w)' <=> EsitoAlba(w)
      BY ContoUtente DEF EsitoAlba
    <3> QED BY <1>2, <3>1 DEF Alba
  <2> QED BY <1>0, <1>2, <2>1, <2>2, <2>3 DEF Alba
<1>d. ASSUME NEW da, NEW a, UtVai(u, da, a), da # "day_start", a # "day_start"
      PROVE  D' = D
  <2>1. Dormienti' = Dormienti BY <1>0, <1>d, UtenteSiMuove, Luoghi DEF Dormienti
  <2> QED BY <2>1
<1>e. ASSUME NEW da, NEW a, UtVai(u, da, a), UNCHANGED contoVars,
             da \in {"arrivo", "fatto"} => a \in {"arrivo", "fatto"},
             a = "arrivo" => da = "arrivo"
      PROVE  EsitoAlba(u)'
  <2>1. ut[u] = da /\ ut'[u] = a BY <1>0, <1>e, UtenteSiMuove
  <2> QED BY <1>0, <1>e, <2>1 DEF EsitoAlba, contoVars
<1>3. ASSUME NEW da, NEW a, UtVai(u, da, a), da # "day_start", a # "day_start",
             a \notin {"servito", "barriera", "uscito"},
             da \in {"arrivo", "fatto"} => a \in {"arrivo", "fatto"},
             a = "arrivo" => da = "arrivo",
             UNCHANGED <<sem_day_start, day_barrier_count, contoVars>>
      PROVE  Alba' /\ ut'[u] # "uscito"
  <2>1. D' = D /\ EsitoAlba(u)' BY <1>3, <1>d, <1>e
  <2> HIDE DEF D
  <2>2. sem_day_start' = D' BY <1>0, <1>3, <2>1
  <2> QED BY <1>2, <1>3, <2>1, <2>2 DEF D
<1> USE DEF giornoVars
<1>4. CASE UtPrendeGettone(u)
  <2>1. /\ UtVai(u, "day_start", "controllo")
        /\ sem_day_start' = sem_day_start - 1
        /\ UNCHANGED <<day_barrier_count, contoVars>>
    BY <1>4 DEF UtPrendeGettone
  <2>2. D' = D - 1
    <3>1. /\ Luogo(u) = "day_start" /\ Luogo(u)' # "day_start" /\ u \in Processi
          /\ \A p \in Processi \ {u} : Luogo(p)' = Luogo(p)
      BY <1>0, <2>1, UtenteSiMuove, Luoghi
    <3> QED BY <3>1, UnoSiSveglia
  <2>3. EsitoAlba(u)' BY <1>e, <2>1
  <2> HIDE DEF D
  <2>4. sem_day_start' = D' BY <1>0, <2>1, <2>2
  <2> QED BY <1>2, <2>1, <2>3, <2>4 DEF D
<1>5. CASE UtInizia(u) BY <1>3, <1>5 DEF UtInizia
<1>6. CASE UtRinuncia(u) BY <1>3, <1>6 DEF UtRinuncia
<1>7. CASE UtPaga(u) BY <1>3, <1>7 DEF UtPaga
<1>8. CASE UtContaNonServito(u) \/ TavoloPerso(u)
  <2>1. PICK da \in {"non_servito", "tavolo_perso"}, a \in {"arrivo", "fatto"} :
          UtVai(u, da, a)
    BY <1>8 DEF UtContaNonServito, TavoloPerso
  <2>2. ContaNonServito(u) /\ UNCHANGED <<sem_day_start, day_barrier_count>>
    BY <1>8 DEF UtContaNonServito, TavoloPerso
  <2>3. EsitoAlba(u)'
    <3>1. ut[u] = da /\ ut'[u] = a BY <1>0, <2>1, UtenteSiMuove
    <3> QED BY <1>0, <2>1, <2>2, <3>1 DEF EsitoAlba, ContaNonServito
  <2>4. D' = D BY <1>d, <2>1
  <2> HIDE DEF D
  <2>5. sem_day_start' = D' BY <1>0, <2>2, <2>4
  <2> QED BY <1>2, <2>1, <2>2, <2>3, <2>5 DEF D
<1>9. CASE TavoloCerca(u) BY <1>3, <1>9 DEF TavoloCerca
<1>10. CASE TavoloPreso(u) BY <1>3, <1>10 DEF TavoloPreso
<1>11. CASE TavoloScaduto(u) BY <1>3, <1>11 DEF TavoloScaduto
<1>12. CASE FineMangiare(u) BY <1>3, <1>12 DEF FineMangiare
<1>13. /\ ~UtEsce(u) /\ ~UtTrovaChiuso(u) /\ ~TavoloChiuso(u)
       /\ ~UtContaServito(u) /\ ~UtLasciaBarriera(u)
  BY <1>0 DEF UtEsce, UtTrovaChiuso, TavoloChiuso, UtContaServito,
     UtLasciaBarriera, UtVai
<1> QED
  BY <1>1, <1>4, <1>5, <1>6, <1>7, <1>8, <1>9, <1>10, <1>11, <1>12, <1>13
  DEF user_loop

\* After the last day a user can only go away.
LEMMA CongedoUtente ==
  ASSUME Tipi, Congedo, ~simulation_running, NEW u \in Utenti, user_loop(u)
  PROVE  Congedo' /\ UNCHANGED <<day_barrier_count, contoVars>>
<1>0. UNCHANGED op /\ ut[u] \in {"day_start", "controllo", "uscito"}
  BY UtenteNonTocca, Luoghi DEF Congedo, opVars
<1>1. UtPrendeGettone(u) \/ UtEsce(u)
  BY <1>0 DEF user_loop, UtInizia, UtTrovaChiuso, UtRinuncia, UtPaga,
     UtContaNonServito, UtArriva, TavoloCerca, TavoloPreso, TavoloScaduto,
     TavoloChiuso, TavoloPerso, FineMangiare, UtContaServito, UtLasciaBarriera,
     UtVai
<1>2. PICK da, a \in {"day_start", "controllo", "uscito"} : UtVai(u, da, a)
  BY <1>1 DEF UtPrendeGettone, UtEsce
<1>3. Congedo' BY <1>0, <1>2, UtenteSiMuove DEF Congedo
<1> QED BY <1>1, <1>3 DEF UtPrendeGettone, UtEsce, giornoVars

LEMMA DesertoUtente ==
  ASSUME Deserto, NEW u \in Utenti, user_loop(u)
  PROVE  FALSE
<1>1. ut[u] = "day_start" /\ sem_day_start = 0 BY Luoghi DEF Deserto
<1> QED
  BY <1>1 DEF user_loop, UtPrendeGettone, UtInizia, UtEsce, UtTrovaChiuso,
     UtRinuncia, UtPaga, UtContaNonServito, UtArriva, TavoloCerca, TavoloPreso,
     TavoloScaduto, TavoloChiuso, TavoloPerso, FineMangiare, UtContaServito,
     UtLasciaBarriera, UtVai

LEMMA InvarianteUtente ==
  ASSUME Invariante, Puntuale, NEW u \in Utenti, user_loop(u)
  PROVE  Invariante'
<1>1. Tipi' BY TipiUtente DEF Invariante
<1>2. UNCHANGED <<mensa, op, postazioni_occupate, simulation_running>>
  BY UtenteNonTocca DEF mensaVars, opVars
<1>3. PostiEsatti' BY <1>2 DEF Invariante, PostiEsatti, Attivi
<1>4. Tipi /\ Fasi /\ Turni /\ mensa \in LuoghiMensa
  BY DEF Invariante, Tipi, TypeOK
<1>5. mensa \notin {"overload", "reset", "apri"} BY <1>4, DesertoUtente DEF Fasi
<1>6. \A w \in Utenti \ {u} : ut'[w] = ut[w]
  BY <1>4 DEF Tipi, TypeOK, user_loop, UtPrendeGettone, UtInizia, UtEsce,
     UtTrovaChiuso, UtRinuncia, UtPaga, UtContaNonServito, UtArriva, TavoloCerca,
     TavoloPreso, TavoloScaduto, TavoloChiuso, TavoloPerso, FineMangiare,
     UtContaServito, UtLasciaBarriera, UtVai
<1>r. ASSUME Alba \/ Pieno PROVE Registrati'
  BY <1>4, <1>r, RegistratiUtente DEF Alba, Pieno, Invariante
<1>7. CASE mensa = "giorno"
  <2>1. (Alba' \/ Pieno') /\ ut'[u] # "uscito"
    BY <1>4, <1>7, AlbaUtente, PienoUtente DEF Fasi
  <2>2. \A p \in Processi : Luogo(p)' # "uscito"
    BY <1>2, <1>4, <1>6, <1>7, <2>1 DEF Turni, Luogo, Processi, Terminante
  <2>3. Fasi' BY <1>2, <1>4, <1>7, <2>1 DEF Fasi, Terminante
  <2>4. Turni' BY <1>2, <1>4, <2>2 DEF Turni
  <2>5. Registrati' BY <1>4, <1>7, <1>r DEF Fasi
  <2> QED BY <1>1, <1>3, <2>3, <2>4, <2>5 DEF Invariante
<1>8. CASE mensa \in {"attesa", "chiusura"}
  <2>1. /\ Pieno' /\ ut'[u] # "uscito"
        /\ ut[u] \in Arrivato => ut'[u] \in Arrivato
    BY <1>4, <1>8, PienoUtente DEF Fasi
  <2>2. \A p \in Processi : Luogo(p)' # "uscito"
    BY <1>2, <1>4, <1>6, <1>8, <2>1 DEF Turni, Luogo, Processi, Terminante
  <2>3. mensa = "chiusura" => \A w \in Utenti : ut'[w] \in Arrivato
    BY <1>4, <1>6, <2>1 DEF Fasi
  <2>4. Fasi' BY <1>2, <1>4, <1>8, <2>1, <2>3 DEF Fasi, Terminante
  <2>5. Turni' BY <1>2, <1>4, <2>2 DEF Turni
  <2>6. Registrati' BY <1>4, <1>8, <1>r DEF Fasi
  <2> QED BY <1>1, <1>3, <2>4, <2>5, <2>6 DEF Invariante
<1>9. CASE Terminante
  <2>1. Congedo' /\ UNCHANGED <<day_barrier_count, contoVars>>
    BY <1>4, <1>9, CongedoUtente DEF Fasi, Terminante
  <2>2. Fasi' BY <1>2, <1>4, <1>9, <2>1 DEF Fasi, Terminante
  <2>3. Turni' BY <1>2, <1>4, <1>9 DEF Turni, Terminante
  <2>4. Registrati' BY <2>1 DEF Invariante, Registrati, contoVars
  <2> QED BY <1>1, <1>3, <2>2, <2>3, <2>4 DEF Invariante
<1> QED BY <1>4, <1>5, <1>7, <1>8, <1>9 DEF LuoghiMensa, Terminante

-----------------------------------------------------------------------------
(* The manager.                                                            *)

\* The places and the counters a step of the manager leaves alone.
LEMMA ResponsabileFermo ==
  ASSUME UNCHANGED <<op, ut, postazioni_occupate>>
  PROVE  /\ \A p \in Processi : Luogo(p)' = Luogo(p)
         /\ \A L : UtentiIn(L)' = UtentiIn(L)
         /\ Dormienti' = Dormienti
         /\ PostiEsatti => PostiEsatti'
         /\ Congedo => Congedo'
BY DEF Luogo, UtentiIn, Dormienti, PostiEsatti, Attivi, Congedo

LEMMA PienoLimitato ==
  ASSUME Pieno
  PROVE  day_barrier_count <= NOFUSERS
BY UtentiContati DEF Pieno

LEMMA InvarianteResponsabile ==
  ASSUME Invariante, Puntuale, PauseNelGiorno, simulate_days
  PROVE  Invariante'
<1> USE DEF MensaVai, giornoVars, opVars, utVars, contoVars
<1>0. /\ Tipi /\ Fasi /\ Turni /\ PostiEsatti /\ Registrati
      /\ Tipi' /\ UNCHANGED <<op, ut, postazioni_occupate>>
  <2>1. UNCHANGED ut
    BY DEF simulate_days, start_new_day, ApriGiorno, end_day, FineAttesa,
       FineGiornata, TerminaOverload, ProssimoGiorno, TerminaTimeout, Kill,
       destroy_ipc, terminate_simulation
  <2> QED BY <2>1, TipiResponsabile, ResponsabileNonTocca DEF Invariante
<1>1. /\ \A p \in Processi : Luogo(p)' = Luogo(p)
      /\ \A L : UtentiIn(L)' = UtentiIn(L)
      /\ Dormienti' = Dormienti
      /\ PostiEsatti'
      /\ Congedo => Congedo'
  BY <1>0, ResponsabileFermo
<1>g. UNCHANGED contoVars => Registrati' BY <1>0 DEF Registrati
<1>2. CASE start_new_day
  <2>1. /\ mensa = "reset" /\ mensa' = "apri" /\ stats_giorno' = NessunUtente
        /\ attesa_oggi' = {} /\ serviti_oggi' = {}
        /\ UNCHANGED <<simulation_running, sem_day_start, day_barrier_count>>
    BY <1>2 DEF start_new_day
  <2>2. Deserto' BY <1>0, <1>1, <2>1 DEF Fasi, Deserto
  <2>3. Registrati' BY <2>1, FS_EmptySet DEF Registrati, NessunUtente
  <2>4. Fasi' BY <1>0, <2>1, <2>2 DEF Fasi, Terminante
  <2>5. Turni' BY <1>0, <1>1, <2>1 DEF Turni, Terminante
  <2> QED BY <1>0, <1>1, <2>3, <2>4, <2>5 DEF Invariante
<1>3. CASE ApriGiorno
  <2>1. /\ mensa = "apri" /\ mensa' = "giorno" /\ simulation_running'
        /\ day_barrier_count' = 0 /\ UNCHANGED contoVars
        /\ sem_day_start' = sem_day_start + Cardinality(Operatori)
                                          + Cardinality(Utenti)
    BY <1>3 DEF ApriGiorno, PostaGettoni
  <2>2. Deserto /\ attesa_oggi = {} /\ serviti_oggi = {}
    BY <1>0, <2>1 DEF Fasi
  <2>3. \A p \in Processi : Luogo(p) = "day_start" BY <2>2 DEF Deserto
  <2>4. sem_day_start' = Cardinality(Dormienti')
    <3>1. Dormienti' = Processi BY <1>1, <2>3 DEF Dormienti
    <3> QED
      BY <2>1, <2>2, <3>1, DormientiContati, CardinalitaProcessi DEF Deserto
  <2>5. /\ \A u \in Utenti : ut'[u] = "day_start"
        /\ \A o \in Operatori : op'[o] = "day_start"
    BY <1>0, <2>3, Luoghi
  <2>6. \A u \in Utenti : EsitoAlba(u)' BY <2>1, <2>2, <2>5 DEF EsitoAlba
  <2>7. Alba' BY <2>1, <2>4, <2>5, <2>6 DEF Alba
  <2>8. Fasi' BY <2>1, <2>7 DEF Fasi, Terminante
  <2>9. Turni' BY <1>1, <2>1, <2>3, <2>5 DEF Turni, Terminante
  <2>10. Registrati' BY <1>g, <2>1
  <2> QED BY <1>0, <1>1, <2>8, <2>9, <2>10 DEF Invariante
<1>p. ASSUME Pieno, UNCHANGED <<sem_day_start, day_barrier_count, contoVars>>
      PROVE  Pieno'
  <2>1. \A u \in Utenti : EsitoPieno(u)' <=> EsitoPieno(u)
    BY <1>0, <1>p DEF EsitoPieno
  <2> QED BY <1>1, <1>p, <2>1 DEF Pieno
<1>4. CASE end_day
  <2>1. /\ mensa = "giorno" /\ mensa' = "attesa" /\ ~simulation_running'
        /\ Svegli
        /\ UNCHANGED <<sem_day_start, day_barrier_count, contoVars>>
    BY <1>4 DEF end_day
  <2>2. Pieno BY <1>0, <2>1, AlbaFinisce DEF Fasi
  <2>3. Fasi' BY <1>p, <2>1, <2>2 DEF Fasi, Terminante
  <2>4. Turni' BY <1>0, <1>1, <2>1 DEF Turni, Terminante
  <2> QED BY <1>0, <1>1, <1>g, <2>1, <2>3, <2>4 DEF Invariante
<1>5. CASE FineAttesa
  <2>1. /\ mensa = "attesa" /\ mensa' = "chiusura"
        /\ day_barrier_count >= NOFUSERS \/ Fermi
        /\ UNCHANGED <<simulation_running, sem_day_start, day_barrier_count,
                       contoVars>>
    BY <1>5 DEF FineAttesa
  <2>2. Pieno /\ ~simulation_running BY <1>0, <2>1 DEF Fasi
  <2>3. ASSUME NEW u \in Utenti PROVE ut[u] \in Arrivato
    <3>1. CASE day_barrier_count >= NOFUSERS
      BY <2>2, <3>1, SonoTutti DEF Pieno
    <3>2. CASE Fermi
      <4>1. ut[u] \in {"day_start", "pausa", "uscito"} /\ ut[u] # "uscito"
        BY <1>0, <2>1, <3>2, Luoghi DEF Fermi, Turni, Terminante
      <4>2. ut[u] # "pausa" BY <1>0 DEF Tipi, TypeOK, LuoghiUtente
      <4> QED BY <4>1, <4>2 DEF Arrivato
    <3> QED BY <2>1, <3>1, <3>2
  <2>4. Fasi' BY <1>0, <1>p, <2>1, <2>2, <2>3 DEF Fasi, Terminante
  <2>5. Turni' BY <1>0, <1>1, <2>1 DEF Turni, Terminante
  <2> QED BY <1>0, <1>1, <1>g, <2>1, <2>4, <2>5 DEF Invariante
<1>6. CASE FineGiornata
  <2>1. /\ mensa = "chiusura" /\ mensa' = "overload" /\ Fermi
        /\ UNCHANGED <<simulation_running, sem_day_start, day_barrier_count,
                       contoVars>>
    BY <1>6 DEF FineGiornata
  <2>2. Pieno /\ ~simulation_running BY <1>0, <2>1 DEF Fasi
  <2>3. \A p \in Processi : Luogo(p) = "day_start"
    <3> SUFFICES ASSUME NEW p \in Processi PROVE Luogo(p) = "day_start"
      OBVIOUS
    <3>1. Luogo(p) \in {"day_start", "pausa"}
      BY <1>0, <2>1 DEF Fermi, Turni, Terminante
    <3>2. Luogo(p) # "pausa"
      <4>1. CASE p \in Operatori
        BY <2>2, <4>1, Luoghi DEF PauseNelGiorno, InPausa
      <4>2. CASE p \in Utenti
        BY <1>0, <4>2, Luoghi DEF Tipi, TypeOK, LuoghiUtente
      <4> QED BY <4>1, <4>2 DEF Processi
    <3> QED BY <3>1, <3>2
  <2>4. Deserto' BY <1>1, <2>1, <2>2, <2>3 DEF Deserto, Pieno
  <2>5. Utenti \subseteq attesa_oggi' \cup serviti_oggi'
    BY <2>1, <2>2, <2>3, Luoghi DEF Pieno, EsitoPieno, Esitato
  <2>6. day_barrier_count' <= NOFUSERS BY <2>1, <2>2, PienoLimitato
  <2>7. Fasi' BY <2>1, <2>2, <2>4, <2>5, <2>6 DEF Fasi, Terminante
  <2>8. Turni' BY <1>0, <1>1, <2>1 DEF Turni, Terminante
  <2> QED BY <1>0, <1>1, <1>g, <2>1, <2>7, <2>8 DEF Invariante
<1>7. ASSUME NEW causa, terminate_simulation(causa) PROVE Invariante'
  <2>1. /\ mensa = "overload" /\ mensa' = "kill" /\ ~simulation_running'
        /\ UNCHANGED <<day_barrier_count, contoVars>>
    BY <1>7 DEF terminate_simulation
  <2>2. Congedo BY <1>0, <2>1 DEF Fasi, Deserto, Congedo
  <2>3. Fasi' BY <1>0, <1>1, <2>1, <2>2 DEF Fasi, Terminante
  <2>4. Turni' BY <1>0, <2>1 DEF Turni, Terminante
  <2> QED BY <1>0, <1>1, <1>g, <2>1, <2>3, <2>4 DEF Invariante
<1>8. CASE TerminaOverload BY <1>7, <1>8 DEF TerminaOverload
<1>9. CASE TerminaTimeout BY <1>7, <1>9 DEF TerminaTimeout
<1>10. CASE ProssimoGiorno
  <2>1. /\ mensa = "overload" /\ mensa' = "reset"
        /\ UNCHANGED <<simulation_running, sem_day_start, day_barrier_count,
                       contoVars>>
    BY <1>10 DEF ProssimoGiorno
  <2>2. Deserto' BY <1>0, <1>1, <2>1 DEF Fasi, Deserto
  <2>3. Fasi' BY <1>0, <2>1, <2>2 DEF Fasi, Terminante
  <2>4. Turni' BY <1>0, <1>1, <2>1 DEF Turni, Terminante
  <2>5. Registrati' BY <1>g, <2>1
  <2> QED BY <1>0, <1>1, <2>3, <2>4, <2>5 DEF Invariante
<1>11. CASE Kill \/ destroy_ipc
  <2>1. /\ mensa \in {"kill", "wait"} /\ mensa' \in {"wait", "finita"}
        /\ UNCHANGED <<simulation_running, day_barrier_count, contoVars>>
    BY <1>11 DEF Kill, destroy_ipc
  <2>2. Fasi' BY <1>0, <1>1, <2>1 DEF Fasi, Terminante
  <2>3. Turni' BY <1>0, <2>1 DEF Turni, Terminante
  <2> QED BY <1>0, <1>1, <1>g, <2>1, <2>2, <2>3 DEF Invariante
<1> QED
  BY <1>2, <1>3, <1>4, <1>5, <1>6, <1>8, <1>9, <1>10, <1>11
  DEF simulate_days

LEMMA InvarianteMuore ==
  ASSUME Invariante, NEW p \in Processi, Muore(p)
  PROVE  Invariante'
<1>0. /\ Tipi /\ Fasi /\ Turni /\ PostiEsatti /\ Congedo
      /\ mensa = "wait" /\ Terminante /\ Terminante'
      /\ UNCHANGED <<mensa, simulation_running, day_barrier_count,
                     postazioni_occupate, contoVars>>
  BY DEF Invariante, Muore, Fasi, Terminante, mensaVars, giornoVars
<1>1. /\ \A o \in Operatori : op'[o] = op[o] \/ (o = p /\ op'[o] = "uscito")
      /\ \A u \in Utenti : ut'[u] = ut[u] \/ (u = p /\ ut'[u] = "uscito")
  BY <1>0 DEF Muore, Tipi, TypeOK
<1>2. Tipi' BY TipiMuore DEF Invariante
<1>3. Congedo' BY <1>0, <1>1 DEF Congedo, Luogo, Processi
<1>4. \A s : Attivi(s)' = Attivi(s)
  <2>1. \A o \in Operatori : op[o] \in {"day_start", "controllo", "uscito"}
    BY <1>0, Luoghi DEF Congedo
  <2> QED BY <1>1, <2>1 DEF Attivi
<1>5. PostiEsatti' BY <1>0, <1>4 DEF PostiEsatti
<1>6. Fasi' BY <1>0, <1>3 DEF Fasi, Terminante, contoVars
<1>7. Turni' BY <1>0, <1>1 DEF Turni, Fasi
<1>8. Registrati' BY <1>0 DEF Invariante, Registrati, contoVars
<1> QED BY <1>2, <1>5, <1>6, <1>7, <1>8 DEF Invariante

-----------------------------------------------------------------------------
LEMMA InvarianteIniziale == Init => Invariante
<1> SUFFICES ASSUME Init PROVE Invariante OBVIOUS
<1>1. \A p \in Processi : Luogo(p) = "day_start"
  BY DEF Init, Luogo, Processi
<1>2. Deserto BY <1>1 DEF Init, Deserto
<1>3. Fasi
  BY <1>2, UtentiContati DEF Init, Fasi, Terminante
<1>4. Turni BY <1>1 DEF Init, Turni
<1>5. PostiEsatti
  <2> SUFFICES ASSUME NEW s \in Stazioni
               PROVE  /\ postazioni_occupate[s] = Cardinality(Attivi(s))
                      /\ Cardinality(Attivi(s)) <= PostazioniTotali[s]
    BY DEF PostiEsatti
  <2>1. Attivi(s) = {} BY DEF Init, Attivi
  <2> QED BY <2>1, FS_EmptySet, CostantiGiornata DEF Init
<1>6. Registrati BY FS_EmptySet DEF Init, Registrati, NessunUtente
<1> QED BY <1>3, <1>4, <1>5, <1>6, TipiIniziali DEF Invariante

LEMMA InvarianteInduttivo ==
  ASSUME Puntuale, Invariante, PauseNelGiorno, [Next]_vars
  PROVE  Invariante'
<1>1. CASE UNCHANGED vars
  BY <1>1 DEF vars, mensaVars, opVars, utVars, contoVars, giornoVars, Invariante,
     Tipi, Registrati, EsitoAlba, EsitoPieno,
     TypeOK, ResetPrimaDellaFine, Fasi, Turni, PostiEsatti, Attivi, Alba, Pieno,
     Deserto, Congedo, Luogo, Dormienti, UtentiIn, Terminante
<1> QED
  BY <1>1, InvarianteOperatore, InvarianteUtente, InvarianteResponsabile,
     InvarianteMuore
  DEF Next

LEMMA InvarianteSempre ==
  ASSUME Puntuale
  PROVE  Spec /\ []PauseNelGiorno => []Invariante
BY InvarianteIniziale, InvarianteInduttivo, PTL DEF Spec

-----------------------------------------------------------------------------
\* The hypothesis is met when the configuration allows no pause (NOFPAUSE = 0):
\* then the theorems below hold of Spec alone.
THEOREM SenzaPauseNelGiorno ==
  ASSUME NOFPAUSE = 0 PROVE Spec => []PauseNelGiorno
<1> DEFINE MaiInPausa == \A o \in Operatori : op[o] \notin InPausa
<1>1. Init => MaiInPausa BY DEF Init, InPausa
<1>2. Tipi /\ MaiInPausa /\ [Next]_vars => MaiInPausa'
  <2> SUFFICES ASSUME Tipi, MaiInPausa, [Next]_vars PROVE MaiInPausa' OBVIOUS
  <2>1. ASSUME NEW o \in Operatori, operator_loop(o) PROVE MaiInPausa'
    <3>1. ~handle_pause(o) BY DEF handle_pause, Tipi, TypeOK
    <3>2. PICK a \in LuoghiOperatore \ InPausa : op' = [op EXCEPT ![o] = a]
      BY <2>1, <3>1
      DEF operator_loop, OpPrendeGettone, OpInizia, OpEsce, AcquireTenta,
          AcquirePrende, AcquireAspetta, AcquireRinuncia, TurnoContinua,
          TurnoFinito, ServeSenzaPausa, FinePausa, release_station_post, OpVai,
          InPausa, LuoghiOperatore
    <3> QED BY <3>2 DEF Tipi, TypeOK
  <2>2. ASSUME NEW p \in Processi, Muore(p) PROVE MaiInPausa'
    BY <2>2 DEF Muore, InPausa, Tipi, TypeOK
  <2>3. CASE UNCHANGED op BY <2>3
  <2> QED
    BY <2>1, <2>2, <2>3, UtenteNonTocca, ResponsabileNonTocca
    DEF Next, vars, opVars
<1>3. MaiInPausa => PauseNelGiorno BY DEF PauseNelGiorno
<1> HIDE DEF MaiInPausa
<1> QED BY <1>1, <1>2, <1>3, TipiSempre, PTL DEF Spec

\* postazioni_occupate is the number of operators on a post and never more than
\* postazioni_totali (operatore.c:111), as long as every pause ends in its day:
\* the second release of operatore.c:88 is the only thing that breaks it.
THEOREM PostiSempreEsatti ==
  ASSUME Puntuale PROVE Spec /\ []PauseNelGiorno => []PostiEsatti
<1>1. Invariante => PostiEsatti BY DEF Invariante
<1> QED BY <1>1, InvarianteSempre, PTL

\* Nobody leaves its loop before the simulation is over (operatore.c:59,
\* utente.c:64): with timely naps and pauses, every token of sem_day_start is
\* taken in the day it was posted for.
THEOREM NessunoEscePrima ==
  ASSUME Puntuale PROVE Spec /\ []PauseNelGiorno => []UscitaSoloAllaFine
<1>1. Invariante => UscitaSoloAllaFine
  BY DEF Invariante, Turni, UscitaSoloAllaFine, Usciti
<1> QED BY <1>1, InvarianteSempre, PTL

\* A user arrives at the barrier once a day, and end_day passes it only when
\* everybody has arrived (mensa.c:228): its timeout is never what lets it go.
THEOREM BarrieraSempreEsatta ==
  ASSUME Puntuale PROVE Spec /\ []PauseNelGiorno => []BarrieraEsatta
<1>1. ASSUME Invariante PROVE BarrieraEsatta
  <2> USE <1>1 DEF Invariante
  <2>0. /\ NOFUSERS \in Nat /\ mensa \in LuoghiMensa
        /\ \A L : Cardinality(UtentiIn(L)) <= NOFUSERS
    BY UtentiContati DEF Tipi, TypeOK
  <2>1. Alba \/ Pieno => day_barrier_count <= NOFUSERS
    BY <2>0, PienoLimitato DEF Alba
  <2>2. day_barrier_count <= NOFUSERS
    BY <2>0, <2>1 DEF Fasi, LuoghiMensa
  <2>3. mensa = "chiusura" => day_barrier_count = NOFUSERS
    BY TuttiIn DEF Fasi, Pieno
  <2> QED BY <2>2, <2>3 DEF BarrieraEsatta
<1> QED BY <1>1, InvarianteSempre, PTL

\* in_attesa, which the code compares with OVERLOADTHRESHOLD (mensa.c:175), and
\* serviti are at every moment the sizes of the sets of users that counted
\* themselves so: nobody is in one of them twice.  When they are read every
\* single user is in one of the sets; that it is in no more than one is false
\* (utente.c:353 and :149).
THEOREM AttesaContaSempreUtenti ==
  ASSUME Puntuale PROVE Spec /\ []PauseNelGiorno => []AttesaContaUtenti
<1>1. Invariante => AttesaContaUtenti
  BY DEF Invariante, Tipi, TypeOK, Registrati, Fasi, AttesaContaUtenti
<1> QED BY <1>1, InvarianteSempre, PTL

\* Between the reading of the counters in end_day (mensa.c:242) and their reset
\* (mensa.c:208) nobody adds to them.
THEOREM ContatoriSempreFermi ==
  ASSUME Puntuale PROVE Spec /\ []PauseNelGiorno => ContatoriFermi
<1> DEFINE Passo == mensa \in {"overload", "reset"} =>
                      stats_giorno' \in {stats_giorno, NessunUtente}
<1>1. Invariante /\ [Next]_vars => [Passo]_vars
  <2> SUFFICES ASSUME Invariante, Next, mensa \in {"overload", "reset"}
               PROVE  stats_giorno' \in {stats_giorno, NessunUtente}
    BY DEF vars
  <2>1. Deserto BY DEF Invariante, Fasi
  <2>2. CASE simulate_days
    BY <2>2 DEF simulate_days, start_new_day, ApriGiorno, end_day, FineAttesa,
       FineGiornata, TerminaOverload, ProssimoGiorno, TerminaTimeout, Kill,
       destroy_ipc, terminate_simulation, utVars, contoVars
  <2>3. ASSUME NEW o \in Operatori, operator_loop(o)
        PROVE  stats_giorno' = stats_giorno
    BY <2>3, OperatoreUscito DEF utVars, contoVars
  <2>4. \A u \in Utenti : ~user_loop(u) BY <2>1, DesertoUtente
  <2>5. \A p \in Processi : ~Muore(p) BY DEF Muore
  <2> QED BY <2>2, <2>3, <2>4, <2>5 DEF Next
<1> QED BY <1>1, InvarianteSempre, PTL DEF Spec, ContatoriFermi

\* A canteen that grants no pauses (NOFPAUSE = 0) has all of this without any
\* hypothesis but the length of the naps: the second release of operatore.c:88
\* and the tokens that pausing operators leave are all that can break it.
THEOREM SenzaPauseTuttoEsatto ==
  ASSUME Puntuale, NOFPAUSE = 0
  PROVE  Spec => /\ [](PostiEsatti /\ UscitaSoloAllaFine)
                 /\ [](BarrieraEsatta /\ AttesaContaUtenti)
                 /\ ContatoriFermi
BY SenzaPauseNelGiorno, PostiSempreEsatti, NessunoEscePrima,
   BarrieraSempreEsatta, AttesaContaSempreUtenti, ContatoriSempreFermi, PTL
=============================================================================
