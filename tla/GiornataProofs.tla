--------------------------- MODULE GiornataProofs ---------------------------
(***************************************************************************)
(* Theorems about the day protocol, for every set of operators and users,  *)
(* every assignment to stations, every number of posts, seats, pauses and  *)
(* days, and every timing (Spec says nothing of it).                       *)
(***************************************************************************)
EXTENDS Giornata, FiniteSetTheorems, TLAPS

-----------------------------------------------------------------------------
(***************************************************************************)
(* Types.  TypeOK is not inductive: start_new_day adds one to              *)
(* giorno_corrente and only the decision that leads to it knows that the   *)
(* last day is not over.                                                   *)
(***************************************************************************)
ResetPrimaDellaFine == mensa = "reset" => giorno_corrente < SIMDURATION

Tipi == TypeOK /\ ResetPrimaDellaFine

LEMMA CardinalitaProcessi ==
  /\ Cardinality(Operatori) \in Nat
  /\ Cardinality(Utenti) \in Nat
BY CostantiGiornata, FS_CardinalityType

LEMMA ContatoriCrescono ==
  ASSUME TypeOK, NEW u \in Utenti, ContaNonServito(u)
  PROVE  /\ stats_giorno' \in Contatori
         /\ attesa_oggi' \subseteq Utenti
         /\ serviti_oggi' = serviti_oggi
<1> DEFINE c == [serviti |-> stats_giorno.serviti,
                 non_serviti |-> stats_giorno.non_serviti + 1,
                 in_attesa |-> stats_giorno.in_attesa + 1]
<1>0. stats_giorno \in Contatori BY DEF TypeOK
<1>1. stats_giorno' = c BY <1>0 DEF ContaNonServito, Contatori
<1>2. c \in Contatori BY <1>0 DEF Contatori
<1>3. /\ attesa_oggi' \subseteq Utenti
      /\ serviti_oggi' = serviti_oggi
  BY DEF ContaNonServito, TypeOK
<1> QED BY <1>1, <1>2, <1>3

LEMMA TerminaTipi ==
  ASSUME Tipi, NEW causa \in {"TIMEOUT", "OVERLOAD"},
         terminate_simulation(causa)
  PROVE  Tipi'
<1>1. sem_day_start' \in Nat
  BY CardinalitaProcessi DEF Tipi, TypeOK, terminate_simulation, PostaGettoni
<1>2. /\ mensa' = "kill" /\ terminazione_causa' = causa
      /\ simulation_running' = FALSE
      /\ UNCHANGED <<day_barrier_count, opVars, utVars, giorno_corrente>>
  BY DEF terminate_simulation, MensaVai
<1> QED
  BY <1>1, <1>2
  DEF Tipi, TypeOK, ResetPrimaDellaFine, Causa, LuoghiMensa, opVars, utVars,
      contoVars

LEMMA TipiOperatore ==
  ASSUME Tipi, NEW o \in Operatori, operator_loop(o)
  PROVE  Tipi'
<1> USE CostantiGiornata
    DEF Tipi, TypeOK, ResetPrimaDellaFine, LuoghiOperatore, OpVai, mensaVars,
        utVars, contoVars, giornoVars
<1>1. CASE OpPrendeGettone(o) BY <1>1 DEF OpPrendeGettone
<1>2. CASE OpInizia(o) BY <1>2 DEF OpInizia
<1>3. CASE OpEsce(o) BY <1>3 DEF OpEsce
<1>4. CASE AcquireTenta(o) BY <1>4 DEF AcquireTenta
<1>5. CASE AcquirePrende(o) BY <1>5 DEF AcquirePrende
<1>6. CASE AcquireAspetta(o) BY <1>6 DEF AcquireAspetta
<1>7. CASE AcquireRinuncia(o) BY <1>7 DEF AcquireRinuncia
<1>8. CASE TurnoContinua(o) BY <1>8 DEF TurnoContinua
<1>9. CASE TurnoFinito(o) BY <1>9 DEF TurnoFinito
<1>10. CASE ServeSenzaPausa(o) BY <1>10 DEF ServeSenzaPausa
<1>11. CASE handle_pause(o) BY <1>11 DEF handle_pause
<1>12. CASE FinePausa(o) BY <1>12 DEF FinePausa
<1>13. CASE release_station_post(o) BY <1>13 DEF release_station_post
<1> QED
  BY <1>1, <1>2, <1>3, <1>4, <1>5, <1>6, <1>7, <1>8, <1>9, <1>10, <1>11,
     <1>12, <1>13 DEF operator_loop

LEMMA TipiUtente ==
  ASSUME Tipi, NEW u \in Utenti, user_loop(u)
  PROVE  Tipi'
<1> USE CostantiGiornata
    DEF Tipi, TypeOK, ResetPrimaDellaFine, LuoghiUtente, UtVai, mensaVars,
        opVars, contoVars, giornoVars
<1>1. CASE UtPrendeGettone(u) BY <1>1 DEF UtPrendeGettone
<1>2. CASE UtInizia(u) BY <1>2 DEF UtInizia
<1>3. CASE UtEsce(u) BY <1>3 DEF UtEsce
<1>4. CASE UtTrovaChiuso(u) BY <1>4 DEF UtTrovaChiuso
<1>5. CASE UtRinuncia(u) BY <1>5 DEF UtRinuncia
<1>6. CASE UtPaga(u) BY <1>6 DEF UtPaga
<1>7. CASE UtContaNonServito(u)
  BY <1>7, ContatoriCrescono DEF UtContaNonServito
<1>8. CASE UtArriva(u) BY <1>8 DEF UtArriva
<1>9. CASE TavoloCerca(u) BY <1>9 DEF TavoloCerca
<1>10. CASE TavoloPreso(u) BY <1>10 DEF TavoloPreso
<1>11. CASE TavoloScaduto(u) BY <1>11 DEF TavoloScaduto
<1>12. CASE TavoloChiuso(u) BY <1>12 DEF TavoloChiuso
<1>13. CASE TavoloPerso(u) BY <1>13, ContatoriCrescono DEF TavoloPerso
<1>14. CASE FineMangiare(u) BY <1>14 DEF FineMangiare
<1>15. CASE UtContaServito(u) BY <1>15 DEF UtContaServito, Contatori
<1>16. CASE UtLasciaBarriera(u) BY <1>16 DEF UtLasciaBarriera
<1> QED
  BY <1>1, <1>2, <1>3, <1>4, <1>5, <1>6, <1>7, <1>8, <1>9, <1>10, <1>11,
     <1>12, <1>13, <1>14, <1>15, <1>16 DEF user_loop

LEMMA TipiResponsabile ==
  ASSUME Tipi, simulate_days
  PROVE  Tipi'
<1> USE CostantiGiornata, CardinalitaProcessi
    DEF Tipi, TypeOK, ResetPrimaDellaFine, LuoghiMensa, MensaVai, utVars,
        contoVars, opVars, giornoVars, PostaGettoni, Contatori, NessunUtente, Causa
<1>1. CASE start_new_day BY <1>1 DEF start_new_day
<1>2. CASE ApriGiorno BY <1>2 DEF ApriGiorno
<1>3. CASE end_day BY <1>3 DEF end_day
<1>4. CASE FineAttesa BY <1>4 DEF FineAttesa
<1>5. CASE FineGiornata BY <1>5 DEF FineGiornata
<1>6. CASE TerminaOverload BY <1>6, TerminaTipi DEF TerminaOverload
<1>7. CASE ProssimoGiorno BY <1>7 DEF ProssimoGiorno
<1>8. CASE TerminaTimeout BY <1>8, TerminaTipi DEF TerminaTimeout
<1>9. CASE Kill BY <1>9 DEF Kill
<1>10. CASE destroy_ipc BY <1>10 DEF destroy_ipc
<1> QED
  BY <1>1, <1>2, <1>3, <1>4, <1>5, <1>6, <1>7, <1>8, <1>9, <1>10
  DEF simulate_days

LEMMA TipiMuore ==
  ASSUME Tipi, NEW p \in Processi, Muore(p)
  PROVE  Tipi'
BY DEF Tipi, TypeOK, ResetPrimaDellaFine, Muore, LuoghiOperatore, LuoghiUtente,
       contoVars, giornoVars, mensaVars

LEMMA TipiFermi ==
  ASSUME Tipi, UNCHANGED vars
  PROVE  Tipi'
BY DEF Tipi, TypeOK, ResetPrimaDellaFine, vars, giornoVars, mensaVars, opVars,
       utVars, contoVars

LEMMA TipiIniziali == Init => Tipi
<1> SUFFICES ASSUME Init PROVE Tipi OBVIOUS
<1>1. stats_giorno \in Contatori BY DEF Init, NessunUtente, Contatori
<1>2. giorno_corrente \in 1..SIMDURATION BY CostantiGiornata DEF Init
<1>3. /\ sem_day_start \in Nat /\ day_barrier_count \in Nat
      /\ simulation_running \in BOOLEAN /\ sem_tavoli \in Nat
  BY CostantiGiornata DEF Init
<1>5. /\ postazioni_occupate \in [Stazioni -> Int]
      /\ pause_count \in [Operatori -> Nat]
      /\ pause_oggi \in [Operatori -> Nat]
  BY DEF Init
<1>4. /\ op \in [Operatori -> LuoghiOperatore]
      /\ ut \in [Utenti -> LuoghiUtente]
      /\ mensa = "apri" /\ mensa \in LuoghiMensa
      /\ terminazione_causa \in Causa
      /\ attesa_oggi \subseteq Utenti
      /\ serviti_oggi \subseteq Utenti
  BY DEF Init, LuoghiOperatore, LuoghiUtente, LuoghiMensa, Causa
<1> QED BY <1>1, <1>2, <1>3, <1>4, <1>5 DEF Tipi, TypeOK, ResetPrimaDellaFine

LEMMA TipiInduttivi == Tipi /\ [Next]_vars => Tipi'
BY TipiOperatore, TipiUtente, TipiResponsabile, TipiMuore, TipiFermi DEF Next

THEOREM TipiSempre == Spec => []Tipi
BY TipiIniziali, TipiInduttivi, PTL DEF Spec

\* Every variable keeps its type; with it, no semaphore of the model goes below
\* zero and the day number never passes SIMDURATION (mensa.c:148).
THEOREM TypeCorrect == Spec => []TypeOK
<1>1. Tipi => TypeOK BY DEF Tipi
<1> QED BY <1>1, TipiSempre, PTL
-----------------------------------------------------------------------------
(***************************************************************************)
(* The posts.  PostiNonSovrastimati is inductive: an operator that gets    *)
(* or leaves a post moves the counter and Attivi together, and the second  *)
(* release of an operator that could not come back from a pause only       *)
(* lowers the counter.                                                     *)
(***************************************************************************)
AlPosto == {"turno", "serve", "release"}

LEMMA AttiviFiniti ==
  ASSUME NEW s
  PROVE  /\ IsFiniteSet(Attivi(s)) /\ Cardinality(Attivi(s)) \in Nat
         /\ IsFiniteSet(Attivi(s)') /\ Cardinality(Attivi(s)') \in Nat
<1>1. Attivi(s) \subseteq Operatori /\ Attivi(s)' \subseteq Operatori
  BY DEF Attivi
<1> QED BY <1>1, CostantiGiornata, FS_Subset, FS_CardinalityType

LEMMA CambioAttivi ==
  ASSUME Tipi, NEW o \in Operatori, NEW da, NEW a, OpVai(o, da, a), NEW s
  PROVE  Attivi(s)' = IF a \in AlPosto /\ StazioneDi[o] = s
                      THEN Attivi(s) \cup {o} ELSE Attivi(s) \ {o}
BY DEF Tipi, TypeOK, OpVai, Attivi, AlPosto

LEMMA StessiAttivi ==
  ASSUME Tipi, NEW o \in Operatori, NEW da, NEW a, OpVai(o, da, a),
         da \in AlPosto <=> a \in AlPosto, NEW s
  PROVE  Attivi(s)' = Attivi(s)
BY CambioAttivi DEF OpVai, Attivi, AlPosto

\* An operator step that leaves postazioni_occupate alone.
LEMMA PassoSenzaPosti ==
  ASSUME Tipi, PostiNonSovrastimati, NEW o \in Operatori, NEW da, NEW a,
         OpVai(o, da, a), da \in AlPosto <=> a \in AlPosto,
         UNCHANGED <<mensa, postazioni_occupate>>
  PROVE  PostiNonSovrastimati'
<1>1. \A s : Attivi(s)' = Attivi(s) BY StessiAttivi
<1> QED BY <1>1 DEF PostiNonSovrastimati, Uccisione

LEMMA PostiOperatore ==
  ASSUME Tipi, PostiNonSovrastimati, NEW o \in Operatori, operator_loop(o)
  PROVE  PostiNonSovrastimati'
<1> DEFINE st == StazioneDi[o]
<1>a. st \in Stazioni BY CostantiGiornata
<1>b. postazioni_occupate \in [Stazioni -> Int] BY DEF Tipi, TypeOK
<1>1. CASE OpPrendeGettone(o)
  BY <1>1, PassoSenzaPosti DEF OpPrendeGettone, AlPosto, mensaVars
<1>2. CASE OpInizia(o)
  BY <1>2, PassoSenzaPosti DEF OpInizia, AlPosto, mensaVars
<1>3. CASE OpEsce(o)
  BY <1>3, PassoSenzaPosti DEF OpEsce, AlPosto, mensaVars
<1>4. CASE AcquireTenta(o)
  BY <1>4, PassoSenzaPosti DEF AcquireTenta, AlPosto, mensaVars
<1>5. CASE AcquirePrende(o)
  <2>1. /\ \A s : Attivi(s)' = IF st = s THEN Attivi(s) \cup {o}
                                          ELSE Attivi(s) \ {o}
        /\ \A s : o \notin Attivi(s)
    BY <1>5, CambioAttivi DEF AcquirePrende, AlPosto, OpVai, Attivi
  <2>2. Cardinality(Attivi(st)') = Cardinality(Attivi(st)) + 1
    BY <2>1, AttiviFiniti, FS_AddElement
  <2>3. \A s : s # st => Attivi(s)' = Attivi(s) BY <2>1
  <2>4. /\ postazioni_occupate' = [postazioni_occupate EXCEPT ![st] = @ + 1]
        /\ mensa' = mensa
    BY <1>5 DEF AcquirePrende, mensaVars
  <2> QED
    BY <1>a, <1>b, <2>2, <2>3, <2>4, AttiviFiniti
    DEF PostiNonSovrastimati, Uccisione
<1>6. CASE AcquireAspetta(o)
  BY <1>6, PassoSenzaPosti DEF AcquireAspetta, AlPosto, mensaVars
<1>7. CASE AcquireRinuncia(o)
  BY <1>7, PassoSenzaPosti DEF AcquireRinuncia, AlPosto, mensaVars
<1>8. CASE TurnoContinua(o)
  BY <1>8, PassoSenzaPosti DEF TurnoContinua, AlPosto, mensaVars
<1>9. CASE TurnoFinito(o)
  BY <1>9, PassoSenzaPosti DEF TurnoFinito, AlPosto, mensaVars
<1>10. CASE ServeSenzaPausa(o)
  BY <1>10, PassoSenzaPosti DEF ServeSenzaPausa, AlPosto, mensaVars
<1>11. CASE handle_pause(o)
  <2>0. OpVai(o, "serve", "pausa") BY <1>11 DEF handle_pause
  <2>1. /\ \A s : Attivi(s)' = Attivi(s) \ {o}
        /\ o \in Attivi(st)
        /\ \A s : s # st => o \notin Attivi(s)
    <3>1. \A s : Attivi(s)' = Attivi(s) \ {o}
      BY <2>0, CambioAttivi DEF AlPosto
    <3>2. o \in Attivi(st) /\ \A s : s # st => o \notin Attivi(s)
      BY <2>0 DEF OpVai, Attivi
    <3> QED BY <3>1, <3>2
  <2>2. Cardinality(Attivi(st)') = Cardinality(Attivi(st)) - 1
    BY <2>1, AttiviFiniti, FS_RemoveElement
  <2>3. \A s : s # st => Attivi(s)' = Attivi(s) BY <2>1
  <2>4. /\ postazioni_occupate' = [postazioni_occupate EXCEPT ![st] = @ - 1]
        /\ mensa' = mensa
    BY <1>11 DEF handle_pause, mensaVars
  <2> QED
    BY <1>a, <1>b, <2>2, <2>3, <2>4, AttiviFiniti
    DEF PostiNonSovrastimati, Uccisione
<1>12. CASE FinePausa(o)
  BY <1>12, PassoSenzaPosti DEF FinePausa, AlPosto, mensaVars
<1>13. CASE release_station_post(o)
  <2>1. /\ \A s : Attivi(s)' = Attivi(s) \ {o}
        /\ \A s : s # st => o \notin Attivi(s)
    BY <1>13, CambioAttivi DEF release_station_post, AlPosto, OpVai, Attivi
  <2>2. Cardinality(Attivi(st)') >= Cardinality(Attivi(st)) - 1
    <3>1. CASE o \in Attivi(st) BY <2>1, <3>1, AttiviFiniti, FS_RemoveElement
    <3>2. CASE o \notin Attivi(st)
      <4>1. Attivi(st)' = Attivi(st) BY <2>1, <3>2
      <4> QED BY <4>1, AttiviFiniti
    <3> QED BY <3>1, <3>2
  <2>3. \A s : s # st => Attivi(s)' = Attivi(s) BY <2>1
  <2>4. /\ postazioni_occupate' = [postazioni_occupate EXCEPT ![st] = @ - 1]
        /\ mensa' = mensa
    BY <1>13 DEF release_station_post, mensaVars
  <2> QED
    BY <1>a, <1>b, <2>2, <2>3, <2>4, AttiviFiniti
    DEF PostiNonSovrastimati, Uccisione
<1> QED
  BY <1>1, <1>2, <1>3, <1>4, <1>5, <1>6, <1>7, <1>8, <1>9, <1>10, <1>11,
     <1>12, <1>13 DEF operator_loop

\* No user and no manager step moves an operator or a post, and no step ends
\* the killing of the children.
LEMMA UtenteNonTocca ==
  ASSUME NEW u \in Utenti, user_loop(u)
  PROVE  UNCHANGED <<mensaVars, opVars, simulation_running>>
BY DEF user_loop, UtPrendeGettone, UtInizia, UtEsce, UtTrovaChiuso, UtRinuncia,
       UtPaga, UtContaNonServito, UtArriva, TavoloCerca, TavoloPreso,
       TavoloScaduto, TavoloChiuso, TavoloPerso, FineMangiare, UtContaServito,
       UtLasciaBarriera, opVars, mensaVars, giornoVars

LEMMA ResponsabileNonTocca ==
  ASSUME simulate_days
  PROVE  /\ UNCHANGED <<op, pause_count, postazioni_occupate>>
         /\ Uccisione => Uccisione'
BY DEF simulate_days, start_new_day, ApriGiorno, end_day, FineAttesa,
       FineGiornata, TerminaOverload, ProssimoGiorno, TerminaTimeout, Kill,
       destroy_ipc, terminate_simulation, MensaVai, opVars, Uccisione

LEMMA PostiInduttivi ==
  Tipi /\ PostiNonSovrastimati /\ [Next]_vars => PostiNonSovrastimati'
<1> SUFFICES ASSUME Tipi, PostiNonSovrastimati, [Next]_vars
             PROVE  PostiNonSovrastimati'
  OBVIOUS
<1>1. CASE simulate_days
  BY <1>1, ResponsabileNonTocca DEF PostiNonSovrastimati, Attivi
<1>2. ASSUME NEW o \in Operatori, operator_loop(o) PROVE PostiNonSovrastimati'
  BY <1>2, PostiOperatore
<1>3. ASSUME NEW u \in Utenti, user_loop(u) PROVE PostiNonSovrastimati'
  BY <1>3, UtenteNonTocca
  DEF PostiNonSovrastimati, Attivi, Uccisione, opVars, mensaVars
<1>4. ASSUME NEW p \in Processi, Muore(p) PROVE PostiNonSovrastimati'
  BY <1>4 DEF Muore, PostiNonSovrastimati, Uccisione, mensaVars
<1>5. CASE UNCHANGED vars
  BY <1>5 DEF PostiNonSovrastimati, Attivi, Uccisione, vars, opVars, mensaVars
<1> QED BY <1>1, <1>2, <1>3, <1>4, <1>5 DEF Next

LEMMA PostiIniziali == Init => PostiNonSovrastimati
<1> SUFFICES ASSUME Init, NEW s \in Stazioni
             PROVE  postazioni_occupate[s] <= Cardinality(Attivi(s))
  BY DEF PostiNonSovrastimati
<1>1. postazioni_occupate[s] = 0 BY DEF Init
<1> QED BY <1>1, AttiviFiniti

\* The count that handle_pause trusts (operatore.c:169) never exceeds the
\* operators on the posts of the station, for every number of them and for
\* every timing, and in spite of the second release of operatore.c:88.
THEOREM PostiMaiSovrastimati == Spec => []PostiNonSovrastimati
BY TipiIniziali, TipiInduttivi, PostiIniziali, PostiInduttivi, PTL DEF Spec
-----------------------------------------------------------------------------
(***************************************************************************)
(* The pauses.                                                             *)
(***************************************************************************)
LEMMA AltroElemento ==
  ASSUME NEW insieme, IsFiniteSet(insieme), Cardinality(insieme) > 1, NEW x
  PROVE  \E y \in insieme : y # x
<1> SUFFICES ASSUME insieme \subseteq {x} PROVE FALSE OBVIOUS
<1>1. IsFiniteSet({x}) /\ Cardinality({x}) = 1 BY FS_Singleton
<1>2. Cardinality(insieme) <= 1 BY <1>1, FS_Subset
<1> QED BY <1>2, FS_CardinalityType

LEMMA PausaConAltro ==
  ASSUME Tipi, PostiNonSovrastimati, ~Uccisione, NEW o \in Operatori,
         handle_pause(o)
  PROVE  \E altro \in Attivi(StazioneDi[o]) : altro # o
<1> DEFINE st == StazioneDi[o]
<1>1. st \in Stazioni BY CostantiGiornata
<1>2. /\ postazioni_occupate[st] > 1 /\ op[o] = "serve"
  BY DEF handle_pause, OpVai
<1>3. postazioni_occupate[st] \in Int BY <1>1 DEF Tipi, TypeOK
<1>4. postazioni_occupate[st] <= Cardinality(Attivi(st))
  BY <1>1 DEF PostiNonSovrastimati
<1>5. Cardinality(Attivi(st)) > 1 BY <1>2, <1>3, <1>4, AttiviFiniti
<1> QED BY <1>5, AttiviFiniti, AltroElemento

LEMMA PausaSoloConHandle ==
  ASSUME NEW o \in Operatori, NEW p \in Operatori, Tipi, operator_loop(p),
         op[o] # "pausa", op'[o] = "pausa"
  PROVE  handle_pause(o)
BY DEF operator_loop, OpPrendeGettone, OpInizia, OpEsce, AcquireTenta,
       AcquirePrende, AcquireAspetta, AcquireRinuncia, TurnoContinua,
       TurnoFinito, ServeSenzaPausa, FinePausa, release_station_post, OpVai,
       handle_pause, Tipi, TypeOK

LEMMA PausaPasso ==
  ASSUME Tipi, PostiNonSovrastimati, [Next]_vars, ~Uccisione,
         NEW o \in Operatori, op[o] # "pausa", op'[o] = "pausa"
  PROVE  \E altro \in Attivi(StazioneDi[o]) : altro # o
<1>1. ~simulate_days BY ResponsabileNonTocca
<1>2. \A u \in Utenti : ~user_loop(u) BY UtenteNonTocca DEF opVars
<1>3. \A p \in Processi : ~Muore(p) BY DEF Muore, Uccisione
<1>4. ~UNCHANGED vars BY DEF vars, opVars
<1>5. PICK p \in Operatori : operator_loop(p)
  BY <1>1, <1>2, <1>3, <1>4 DEF Next
<1>6. handle_pause(o) BY <1>5, PausaSoloConHandle
<1> QED BY <1>6, PausaConAltro

\* An operator that starts a pause leaves another one on a post of its station
\* ("Almeno un operatore deve rimanere attivo", operatore.c:143), for every
\* number of operators, stations and days and every timing.
THEOREM PausaLasciaSempreUno == Spec => PausaLasciaUno
<1>1. Tipi /\ PostiNonSovrastimati /\ [Next]_vars =>
        [~Uccisione =>
           \A o \in Operatori :
             op[o] # "pausa" /\ op'[o] = "pausa" =>
               \E altro \in Attivi(StazioneDi[o]) : altro # o]_vars
  BY PausaPasso
<1> QED
  BY <1>1, TipiSempre, PostiMaiSovrastimati, PTL DEF Spec, PausaLasciaUno

LEMMA PauseOperatore ==
  ASSUME Tipi, PauseInduttivo, NEW p \in Operatori, operator_loop(p)
  PROVE  PauseInduttivo'
<1> USE CostantiGiornata
    DEF Tipi, TypeOK, PauseInduttivo, OpVai, giornoVars
<1>1. CASE OpPrendeGettone(p) BY <1>1 DEF OpPrendeGettone
<1>2. CASE OpInizia(p) BY <1>2 DEF OpInizia
<1>3. CASE OpEsce(p) BY <1>3 DEF OpEsce
<1>4. CASE AcquireTenta(p) BY <1>4 DEF AcquireTenta
<1>5. CASE AcquirePrende(p) BY <1>5 DEF AcquirePrende
<1>6. CASE AcquireAspetta(p) BY <1>6 DEF AcquireAspetta
<1>7. CASE AcquireRinuncia(p) BY <1>7 DEF AcquireRinuncia
<1>8. CASE TurnoContinua(p) BY <1>8 DEF TurnoContinua
<1>9. CASE TurnoFinito(p) BY <1>9 DEF TurnoFinito
<1>10. CASE ServeSenzaPausa(p) BY <1>10 DEF ServeSenzaPausa
<1>11. CASE handle_pause(p) BY <1>11 DEF handle_pause
<1>12. CASE FinePausa(p) BY <1>12 DEF FinePausa
<1>13. CASE release_station_post(p) BY <1>13 DEF release_station_post
<1> QED
  BY <1>1, <1>2, <1>3, <1>4, <1>5, <1>6, <1>7, <1>8, <1>9, <1>10, <1>11,
     <1>12, <1>13 DEF operator_loop

LEMMA PauseResponsabile ==
  ASSUME Tipi, PauseInduttivo, simulate_days
  PROVE  PauseInduttivo'
<1>1. UNCHANGED <<op, pause_count>> BY ResponsabileNonTocca
<1>2. CASE ApriGiorno
  <2>1. pause_oggi' = [o \in Operatori |-> 0] BY <1>2 DEF ApriGiorno
  <2> QED BY <1>1, <2>1 DEF Tipi, TypeOK, PauseInduttivo
<1>3. CASE ~ApriGiorno
  <2>1. pause_oggi' = pause_oggi /\ (simulation_running' => simulation_running)
    BY <1>3 DEF simulate_days, start_new_day, end_day, FineAttesa, FineGiornata,
       TerminaOverload, ProssimoGiorno, TerminaTimeout, Kill, destroy_ipc,
       terminate_simulation, opVars, giornoVars
  <2> QED BY <1>1, <2>1 DEF PauseInduttivo
<1> QED BY <1>2, <1>3

LEMMA PauseInduttive ==
  Tipi /\ PauseInduttivo /\ [Next]_vars => PauseInduttivo'
<1> SUFFICES ASSUME Tipi, PauseInduttivo, [Next]_vars PROVE PauseInduttivo'
  OBVIOUS
<1>1. CASE simulate_days BY <1>1, PauseResponsabile
<1>2. ASSUME NEW o \in Operatori, operator_loop(o) PROVE PauseInduttivo'
  BY <1>2, PauseOperatore
<1>3. ASSUME NEW u \in Utenti, user_loop(u) PROVE PauseInduttivo'
  BY <1>3, UtenteNonTocca DEF PauseInduttivo, opVars
<1>4. ASSUME NEW p \in Processi, Muore(p) PROVE PauseInduttivo'
  BY <1>4 DEF Muore, PauseInduttivo, Tipi, TypeOK, giornoVars
<1>5. CASE UNCHANGED vars
  BY <1>5 DEF PauseInduttivo, vars, opVars, giornoVars
<1> QED BY <1>1, <1>2, <1>3, <1>4, <1>5 DEF Next

\* No operator pauses more than NOFPAUSE times in a day ("Massimo NOF_PAUSE
\* pause al giorno", operatore.c:141), also one whose turn spans two days.
THEOREM PauseMaiTroppe == Spec => []PausePerGiorno
<1>1. Init => PauseInduttivo
  BY CostantiGiornata DEF Init, PauseInduttivo
<1>2. Tipi /\ PauseInduttivo => PausePerGiorno
  BY CostantiGiornata DEF PauseInduttivo, PausePerGiorno, Tipi, TypeOK
<1> QED
  BY <1>1, <1>2, TipiIniziali, TipiInduttivi, PauseInduttive, PTL DEF Spec

-----------------------------------------------------------------------------
(***************************************************************************)
(* The abstract specification.                                             *)
(***************************************************************************)
\* destroy_ipc runs after the last child, so nothing is counted any more ...
DistruttiPerUltimi == mensa = "finita" => Usciti = Processi

\* ... and the cause is written once.
CausaAllaFine == ~Terminante => terminazione_causa = "nessuna"

LEMMA UltimiIniziali == Init => DistruttiPerUltimi /\ CausaAllaFine
BY DEF Init, DistruttiPerUltimi, CausaAllaFine, Terminante

\* Nobody comes back from "uscito".
LEMMA OperatoreUscito ==
  ASSUME NEW o \in Operatori, operator_loop(o)
  PROVE  op[o] # "uscito" /\ UNCHANGED <<mensaVars, utVars>>
BY DEF operator_loop, OpPrendeGettone, OpInizia, OpEsce, AcquireTenta,
       AcquirePrende, AcquireAspetta, AcquireRinuncia, TurnoContinua,
       TurnoFinito, ServeSenzaPausa, handle_pause, FinePausa,
       release_station_post, OpVai, utVars, mensaVars, giornoVars

LEMMA UtenteUscito ==
  ASSUME NEW u \in Utenti, user_loop(u)
  PROVE  ut[u] # "uscito"
BY DEF user_loop, UtPrendeGettone, UtInizia, UtEsce, UtTrovaChiuso, UtRinuncia,
       UtPaga, UtContaNonServito, UtArriva, TavoloCerca, TavoloPreso,
       TavoloScaduto, TavoloChiuso, TavoloPerso, FineMangiare, UtContaServito,
       UtLasciaBarriera, UtVai

LEMMA FinitaImmobile ==
  ASSUME DistruttiPerUltimi, mensa = "finita", [Next]_vars
  PROVE  UNCHANGED vars
<1>0. \A p \in Processi : Luogo(p) = "uscito"
  BY DEF DistruttiPerUltimi, Usciti
<1>1. ~simulate_days
  BY DEF simulate_days, start_new_day, ApriGiorno, end_day, FineAttesa,
         FineGiornata, TerminaOverload, ProssimoGiorno, TerminaTimeout, Kill,
         destroy_ipc, terminate_simulation, MensaVai
<1>2. \A o \in Operatori : ~operator_loop(o)
  BY <1>0, OperatoreUscito DEF Luogo, Processi
<1>3. \A u \in Utenti : ~user_loop(u)
  BY <1>0, UtenteUscito, CostantiGiornata DEF Luogo, Processi
<1>4. \A p \in Processi : ~Muore(p) BY DEF Muore
<1> QED BY <1>1, <1>2, <1>3, <1>4 DEF Next

LEMMA UltimiInduttivi ==
  Tipi /\ DistruttiPerUltimi /\ CausaAllaFine /\ [Next]_vars
    => DistruttiPerUltimi' /\ CausaAllaFine'
<1> SUFFICES ASSUME Tipi, DistruttiPerUltimi, CausaAllaFine, [Next]_vars
             PROVE  DistruttiPerUltimi' /\ CausaAllaFine'
  OBVIOUS
<1>1. CASE mensa = "finita"
  <2>1. UNCHANGED vars BY <1>1, FinitaImmobile
  <2> QED
    BY <2>1 DEF DistruttiPerUltimi, CausaAllaFine, Terminante, Usciti, Luogo,
       vars, opVars, utVars, mensaVars
<1>2. CASE mensa # "finita"
  <2>1. CASE simulate_days
    <3>1. CASE destroy_ipc
      BY <3>1 DEF destroy_ipc, MensaVai, DistruttiPerUltimi, CausaAllaFine,
         Terminante, Usciti, Luogo, opVars, utVars
    <3>2. CASE ~destroy_ipc
      BY <2>1, <3>2
      DEF simulate_days, start_new_day, ApriGiorno, end_day, FineAttesa,
          FineGiornata, TerminaOverload, ProssimoGiorno, TerminaTimeout, Kill,
          terminate_simulation, MensaVai, DistruttiPerUltimi, CausaAllaFine,
          Terminante
    <3> QED BY <3>1, <3>2
  <2>2. CASE UNCHANGED mensaVars
    BY <1>2, <2>2
    DEF mensaVars, DistruttiPerUltimi, CausaAllaFine, Terminante
  <2> QED
    BY <2>1, <2>2, OperatoreUscito, UtenteNonTocca DEF Next, Muore, vars
<1> QED BY <1>1, <1>2

LEMMA UltimiSempre == Spec => [](DistruttiPerUltimi /\ CausaAllaFine)
BY UltimiIniziali, TipiIniziali, UltimiInduttivi, TipiInduttivi, PTL DEF Spec

\* What a user may do to the abstract state.
LEMMA UtenteConta ==
  ASSUME Tipi, mensa # "finita", NEW u \in Utenti, user_loop(u)
  PROVE  S!Attende \/ UNCHANGED S!svars
<1>1. UNCHANGED <<mensa, giorno_corrente, terminazione_causa>>
  BY UtenteNonTocca DEF mensaVars
<1>2. FaseDi' = FaseDi /\ FaseDi # "finita" BY <1>1 DEF FaseDi
<1>3. \/ stats_giorno'.in_attesa = stats_giorno.in_attesa + 1
      \/ stats_giorno'.in_attesa = stats_giorno.in_attesa
  <2>1. stats_giorno \in Contatori BY DEF Tipi, TypeOK
  <2>2. CASE UtContaNonServito(u) \/ TavoloPerso(u)
    BY <2>1, <2>2
    DEF UtContaNonServito, TavoloPerso, ContaNonServito, Contatori
  <2>3. CASE UtContaServito(u)
    BY <2>1, <2>3 DEF UtContaServito, Contatori
  <2>4. CASE UNCHANGED stats_giorno BY <2>4
  <2> QED
    BY <2>2, <2>3, <2>4
    DEF user_loop, UtPrendeGettone, UtInizia, UtEsce, UtTrovaChiuso, UtRinuncia,
        UtPaga, UtArriva, TavoloCerca, TavoloPreso, TavoloScaduto, TavoloChiuso,
        FineMangiare, UtLasciaBarriera,
        contoVars
<1> QED BY <1>1, <1>2, <1>3 DEF S!Attende, S!svars

LEMMA ResponsabileDecide ==
  ASSUME Tipi, CausaAllaFine, simulate_days
  PROVE  S!Decidi \/ UNCHANGED S!svars
<1> USE DEF S!Decidi, S!svars, FaseDi, MensaVai, utVars, contoVars
<1>0. stats_giorno.in_attesa \in Nat /\ OVERLOADTHRESHOLD \in Nat
  BY CostantiGiornata DEF Tipi, TypeOK, Contatori
<1>1. CASE start_new_day
  BY <1>1 DEF start_new_day, S!NuovoGiorno, NessunUtente
<1>2. CASE ApriGiorno BY <1>2 DEF ApriGiorno
<1>3. CASE end_day BY <1>3 DEF end_day
<1>4. CASE FineAttesa BY <1>4 DEF FineAttesa
<1>5. CASE FineGiornata BY <1>5 DEF FineGiornata
<1>6. CASE TerminaOverload
  BY <1>6 DEF TerminaOverload, Sovraccarico, terminate_simulation, S!Overload
<1>7. CASE ProssimoGiorno
  BY <1>0, <1>7 DEF ProssimoGiorno, Sovraccarico, S!Prosegui
<1>8. CASE TerminaTimeout
  BY <1>0, <1>8
  DEF TerminaTimeout, Sovraccarico, terminate_simulation, S!Timeout
<1>9. CASE Kill BY <1>9 DEF Kill
<1>10. CASE destroy_ipc BY <1>10 DEF destroy_ipc, S!Finisci
<1> QED
  BY <1>1, <1>2, <1>3, <1>4, <1>5, <1>6, <1>7, <1>8, <1>9, <1>10
  DEF simulate_days

LEMMA PassoSimulato ==
  Tipi /\ DistruttiPerUltimi /\ CausaAllaFine /\ [Next]_vars
    => [S!Next]_(S!svars)
<1> SUFFICES ASSUME Tipi, DistruttiPerUltimi, CausaAllaFine, [Next]_vars
             PROVE  S!Next \/ UNCHANGED S!svars
  OBVIOUS
<1>1. CASE simulate_days BY <1>1, ResponsabileDecide DEF S!Next
<1>2. CASE mensa = "finita"
  <2>1. UNCHANGED vars BY <1>2, FinitaImmobile
  <2> QED BY <2>1 DEF vars, mensaVars, utVars, contoVars, S!svars, FaseDi
<1>3. CASE mensa # "finita" /\ \E u \in Utenti : user_loop(u)
  BY <1>3, UtenteConta DEF S!Next
<1>4. CASE UNCHANGED <<mensaVars, stats_giorno>>
  BY <1>4 DEF mensaVars, S!svars, FaseDi
<1> QED
  BY <1>1, <1>2, <1>3, <1>4, OperatoreUscito
  DEF Next, Muore, vars, utVars, contoVars

\* Operators, users and the manager together implement Simulazione: the days,
\* the decision after each of them and the end of the simulation (README.md:
\* 48-53, mensa.c:146-186), for all constants and every timing.
THEOREM GiornataImplementaSimulazione == Spec => ImplementaSimulazione
<1>1. Init => S!Init
  BY DEF Init, S!Init, FaseDi, NessunUtente
<1> QED
  BY <1>1, PassoSimulato, TipiSempre, UltimiSempre, PTL
  DEF Spec, ImplementaSimulazione, S!Spec

-----------------------------------------------------------------------------
(***************************************************************************)
(* The seats.                                                              *)
(***************************************************************************)
LEMMA ATavolaFinita ==
  /\ IsFiniteSet(ATavola) /\ Cardinality(ATavola) \in Nat
  /\ IsFiniteSet(ATavola') /\ Cardinality(ATavola') \in Nat
<1>1. ATavola \subseteq Utenti /\ ATavola' \subseteq Utenti BY DEF ATavola
<1> QED BY <1>1, CostantiGiornata, FS_Subset, FS_CardinalityType

LEMMA SeggiUtente ==
  ASSUME Tipi, SeggiConservati, ~Uccisione, NEW u \in Utenti, user_loop(u)
  PROVE  SeggiConservati'
<1>0. sem_tavoli \in Nat /\ ut \in [Utenti -> LuoghiUtente]
  BY DEF Tipi, TypeOK
<1>1. CASE TavoloPreso(u)
  <2>1. ATavola' = ATavola \cup {u} /\ u \notin ATavola
    BY <1>0, <1>1 DEF TavoloPreso, UtVai, ATavola
  <2>2. Cardinality(ATavola') = Cardinality(ATavola) + 1
    BY <2>1, ATavolaFinita, FS_AddElement
  <2>3. sem_tavoli' = sem_tavoli - 1 BY <1>1 DEF TavoloPreso
  <2> QED BY <1>0, <2>2, <2>3, ATavolaFinita DEF SeggiConservati
<1>2. CASE FineMangiare(u)
  <2>1. ATavola' = ATavola \ {u} /\ u \in ATavola
    BY <1>0, <1>2 DEF FineMangiare, UtVai, ATavola
  <2>2. Cardinality(ATavola') = Cardinality(ATavola) - 1
    BY <2>1, ATavolaFinita, FS_RemoveElement
  <2>3. sem_tavoli' = sem_tavoli + 1 BY <1>2 DEF FineMangiare
  <2> QED BY <1>0, <2>2, <2>3, ATavolaFinita DEF SeggiConservati
<1>3. CASE ~TavoloPreso(u) /\ ~FineMangiare(u)
  <2>1. ATavola' = ATavola /\ sem_tavoli' = sem_tavoli
    BY <1>0, <1>3
    DEF user_loop, UtPrendeGettone, UtInizia, UtEsce, UtTrovaChiuso, UtRinuncia,
        UtPaga, UtContaNonServito, UtArriva, TavoloCerca, TavoloScaduto,
        TavoloChiuso, TavoloPerso, UtContaServito, UtLasciaBarriera, UtVai,
        ATavola
  <2> QED BY <2>1 DEF SeggiConservati
<1> QED BY <1>1, <1>2, <1>3

\* The seats are conserved (utente.c:369 and :404) for every number of users,
\* seats and days: a user interrupted by the end of a day keeps no seat.
THEOREM SeggiSempreConservati == Spec => []SeggiConservati
<1>1. Init => SeggiConservati
  <2> SUFFICES ASSUME Init PROVE sem_tavoli + Cardinality(ATavola) = NOFTABLESEATS
    BY DEF SeggiConservati
  <2>1. ATavola = {} BY DEF Init, ATavola
  <2> QED BY <2>1, FS_EmptySet, CostantiGiornata DEF Init
<1>2. Tipi /\ SeggiConservati /\ [Next]_vars => SeggiConservati'
  <2> SUFFICES ASSUME Tipi, SeggiConservati, [Next]_vars, ~Uccisione'
               PROVE  SeggiConservati'
    BY DEF SeggiConservati
  <2>1. CASE \E u \in Utenti : user_loop(u) /\ ~Uccisione
    BY <2>1, SeggiUtente
  <2>2. CASE ~Uccisione /\ UNCHANGED <<ut, sem_tavoli>>
    BY <2>2 DEF SeggiConservati, ATavola
  <2>3. ASSUME Uccisione PROVE FALSE
    BY <2>3, ResponsabileNonTocca, OperatoreUscito, UtenteNonTocca
    DEF Next, Muore, vars, mensaVars, Uccisione
  <2>4. simulate_days => UNCHANGED <<ut, sem_tavoli>>
    BY DEF simulate_days, start_new_day, ApriGiorno, end_day, FineAttesa,
           FineGiornata, TerminaOverload, ProssimoGiorno, TerminaTimeout, Kill,
           destroy_ipc, terminate_simulation, utVars
  <2>5. (\E p \in Processi : Muore(p)) => Uccisione BY DEF Muore, Uccisione
  <2> QED
    BY <2>1, <2>2, <2>3, <2>4, <2>5, OperatoreUscito DEF Next, vars, utVars
<1> QED BY <1>1, <1>2, TipiIniziali, TipiInduttivi, PTL DEF Spec
=============================================================================
