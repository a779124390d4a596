---------------------------- MODULE PastoProofs ----------------------------
(***************************************************************************)
(* Theorems about the accounts, for every number of users and operators,   *)
(* every menu, every number of pauses and of days.                         *)
(***************************************************************************)
EXTENDS Pasto, FiniteSetTheorems, TLAPS

\* The books of the day, as Registro sees them.
Aperti == mensa \in {"apri", "giorno", "attesa", "chiusura"}

\* What the operators count under sem_stats after the answer has left.
Esatte == Piatti \cup {"ricavo"}

\* The plates an answer of operator o is counted for in the entry v, and those
\* that are answered and not yet counted.
Contati(v, o) ==
  IF v = "ricavo" THEN IF StazioneDi[o] = "cassa" THEN preso[o].ha ELSE {}
                  ELSE {v} \cap {StazioneDi[o]}
InVolo(v) == {x \in Operatori \X Piatti :
                op[x[1]] = "aggiorna" /\ x[2] \in Contati(v, x[1])}

\* Operators inside of pause_totali++, users between the barrier and the count.
InPausaPlus == {o \in Operatori : op[o] \in {"leggi", "scrivi"}}
DaContare == {u \in Utenti : ut[u] = "servito"}

PresiVeri ==
  /\ \A o \in Operatori :
       op[o] \in {"risponde", "aggiorna"} => preso[o] \in Richiesta
  /\ mensa = "reset" => giorno_corrente < SIMDURATION

\* After the last nap of a day nobody serves before the next one is open.
NessunoServe ==
  /\ simulation_running => mensa = "giorno"
  /\ ~Aperti => \A o \in Operatori : op[o] \in {"day_start", "uscito", "pausa"}

\* What was served and cashed in is in the totals, in the day, or on its way.
ContiEsatti ==
  \A v \in Esatte :
    fatti[v] = stats_tot[v]
                 + (IF Aperti THEN stats_giorno[v] + Cardinality(InVolo(v))
                              ELSE 0)

\* Every pause that somebody is about to count is one that the counter, and every
\* value read from it, does not hold yet: a store may lose pauses of others, and
\* can invent none.
PauseContate ==
  /\ stats_tot["pause"] <= fatti["pause"]
  /\ Aperti =>
       /\ stats_tot["pause"] + stats_giorno["pause"]
            + Cardinality(InPausaPlus) <= fatti["pause"]
       /\ \A o \in Operatori : op[o] = "scrivi" =>
            stats_tot["pause"] + letto[o] + Cardinality(InPausaPlus)
              <= fatti["pause"]

UtentiContati ==
  /\ stats_tot["serviti"] + Cardinality(DaContare)
       + (IF Aperti THEN stats_giorno["serviti"] ELSE 0) <= fatti["serviti"]
  /\ stats_tot["non_serviti"]
       + (IF Aperti THEN stats_giorno["non_serviti"] ELSE 0)
         <= fatti["non_serviti"]

Tipi == TypeOK /\ PresiVeri
Conti == ContiEsatti /\ PauseContate /\ UtentiContati
Invariante == Tipi /\ NessunoServe /\ Conti

-----------------------------------------------------------------------------
(***************************************************************************)
(* Types.                                                                  *)
(***************************************************************************)
LEMMA VociDistinte ==
  /\ Piatti = {"primi", "secondi", "coffee"} /\ Esatte \subseteq Voci
  /\ Stazioni = {"primi", "secondi", "coffee", "cassa"}
  /\ Voci = {"primi", "secondi", "coffee", "ricavo", "serviti", "non_serviti",
              "pause"}
  /\ {"serviti", "non_serviti", "pause"} \cap Esatte = {}
BY DEF Piatti, Portate, Stazioni, Voci, Esatte

LEMMA PiattiFiniti ==
  /\ IsFiniteSet(Piatti)
  /\ \A T \in SUBSET Piatti : IsFiniteSet(T) /\ Cardinality(T) \in Nat
<1>1. Piatti = {"primi"} \cup {"secondi"} \cup {"coffee"} BY DEF Piatti, Portate
<1>2. IsFiniteSet(Piatti) BY <1>1, FS_Singleton, FS_Union
<1> QED BY <1>2, FS_Subset, FS_CardinalityType

LEMMA Numeri == NOFUSERS \in Nat /\ NOFWORKERS \in Nat
BY CostantiPasto, FS_CardinalityType DEF NOFUSERS, NOFWORKERS

\* What an operator counts is an entry and a number.
LEMMA ServizioTipo ==
  ASSUME Tipi, NEW o \in Operatori, op[o] \in {"risponde", "aggiorna"}
  PROVE  /\ preso[o] \in Richiesta /\ preso[o].ha \in SUBSET Piatti
         /\ preso[o].utente \in Utenti
         /\ ServizioDi(o)[1] \in Esatte /\ ServizioDi(o)[2] \in Nat
<1>1. preso[o] \in Richiesta BY DEF Tipi, PresiVeri
<1>2. preso[o].ha \in SUBSET Piatti /\ preso[o].utente \in Utenti
  BY <1>1 DEF Richiesta
<1>3. StazioneDi[o] \in Piatti \cup {"cassa"} BY CostantiPasto DEF Stazioni
<1> QED BY <1>1, <1>2, <1>3, PiattiFiniti DEF ServizioDi, Esatte

LEMMA TipiIniziali == Init => Tipi
<1> SUFFICES ASSUME Init PROVE Tipi OBVIOUS
<1>1. 1 \in 1..SIMDURATION BY CostantiPasto
<1>2. 0 \in 0..NOFPAUSE BY CostantiPasto
<1>3. /\ simulation_running \in BOOLEAN
      /\ sem_day_start \in Nat /\ day_barrier_count \in Nat
      /\ giorno_corrente \in 1..SIMDURATION /\ mensa \in LuoghiMensa
  BY <1>1 DEF Init, LuoghiMensa
<1>4. /\ richieste \in [Stazioni -> SUBSET Richiesta]
      /\ risposte \in [Stazioni -> SUBSET (Utenti \X {0, 1})]
  BY DEF Init
<1>5. /\ ut \in [Utenti -> LuoghiUtente] /\ tappa \in [Utenti -> Stazioni]
      /\ vuole \in [Utenti -> SUBSET Piatti] /\ ha \in [Utenti -> SUBSET Piatti]
  BY VociDistinte DEF Init, LuoghiUtente
<1>6. /\ op \in [Operatori -> LuoghiOperatore]
      /\ preso \in [Operatori -> Richiesta \cup {Nessuno}]
      /\ pause_count \in [Operatori -> 0..NOFPAUSE]
      /\ letto \in [Operatori -> Nat]
  BY <1>2 DEF Init, LuoghiOperatore
<1>7. /\ stats_giorno \in [Voci -> Nat] /\ stats_tot \in [Voci -> Nat]
      /\ fatti \in [Voci -> Nat]
  BY DEF Init, ZeroVoci
<1>8. PresiVeri BY DEF Init, PresiVeri
<1> QED BY <1>3, <1>4, <1>5, <1>6, <1>7, <1>8 DEF Tipi, TypeOK

LEMMA TipiUtente ==
  ASSUME Tipi, NEW u \in Utenti, user_loop(u)
  PROVE  Tipi'
<1> USE VociDistinte DEF Tipi, TypeOK, PresiVeri, LuoghiUtente, UtVai, mensaVars, code,
      utVars, opVars, pausaVars, conti
<1>1. CASE UtInizia(u)
  BY <1>1, CostantiPasto DEF UtInizia
<1>2. CASE UtEsce(u) BY <1>2 DEF UtEsce
<1>3. CASE UtSalta(u) BY <1>3 DEF UtSalta
<1>4. CASE UtChiede(u)
  <2>1. [utente |-> u, ha |-> IF tappa[u] = "cassa" THEN ha[u] ELSE {}]
          \in Richiesta
    BY DEF Richiesta
  <2> DEFINE r == [utente |-> u, ha |-> IF tappa[u] = "cassa" THEN ha[u] ELSE {}]
  <2>a. r \in Richiesta BY <2>1
  <2>b. richieste' = [richieste EXCEPT ![tappa[u]] = @ \cup {r}]
    BY <1>4 DEF UtChiede
  <2> HIDE DEF r
  <2>2. richieste' \in [Stazioni -> SUBSET Richiesta] BY <2>a, <2>b
  <2> QED BY <1>4, <2>2 DEF UtChiede
<1>5. CASE UtServito(u) BY <1>5 DEF UtServito, Ricevuta
<1>6. CASE UtRiprova(u) BY <1>6 DEF UtRiprova, Ricevuta
<1>7. CASE UtSenza(u) BY <1>7 DEF UtSenza, Ricevuta
<1>8. CASE UtInterrotto(u) BY <1>8 DEF UtInterrotto
<1>9. CASE UtAvanza(u)
  <2>1. Prossima[tappa[u]] \in Stazioni BY DEF Prossima
  <2> QED BY <1>9, <2>1 DEF UtAvanza
<1>10. CASE UtTrovaChiuso(u) BY <1>10 DEF UtTrovaChiuso
<1>11. CASE UtContaNonServito(u) BY <1>11 DEF UtContaNonServito, Conta, Accade
<1>12. CASE UtMangia(u) BY <1>12 DEF UtMangia
<1>13. CASE UtArriva(u) BY <1>13 DEF UtArriva, Arrivato
<1>14. CASE UtArrivaServito(u) BY <1>14 DEF UtArrivaServito, Arrivato, Accade
<1>15. CASE UtContaServito(u) BY <1>15 DEF UtContaServito, Conta
<1>16. CASE UtLasciaBarriera(u) BY <1>16 DEF UtLasciaBarriera
<1> QED
  BY <1>1, <1>2, <1>3, <1>4, <1>5, <1>6, <1>7, <1>8, <1>9, <1>10, <1>11, <1>12,
     <1>13, <1>14, <1>15, <1>16 DEF user_loop

LEMMA TipiOperatore ==
  ASSUME Tipi, NEW o \in Operatori, operator_loop(o)
  PROVE  Tipi'
<1> USE VociDistinte, CostantiPasto
    DEF Tipi, TypeOK, PresiVeri, LuoghiOperatore, OpVai, FuoriPause, mensaVars,
        code, utVars, pausaVars, conti
<1>1. CASE OpInizia(o) BY <1>1 DEF OpInizia
<1>2. CASE OpEsce(o) BY <1>2 DEF OpEsce
<1>3. CASE OpRiceve(o) BY <1>3 DEF OpRiceve
<1>4. CASE OpServe(o)
  <2>1. risposte' \in [Stazioni -> SUBSET (Utenti \X {0, 1})]
    BY <1>4, ServizioTipo DEF OpServe, OpManda
  <2>2. fatti' \in [Voci -> Nat]
    <3> DEFINE v == ServizioDi(o)[1]
               n == ServizioDi(o)[2]
    <3>1. v \in Voci /\ n \in Nat BY <1>4, ServizioTipo DEF OpServe
    <3>2. fatti' = [fatti EXCEPT ![v] = @ + n] BY <1>4 DEF OpServe, Accade
    <3> HIDE DEF v, n
    <3> QED BY <3>1, <3>2
  <2> QED BY <1>4, <2>1, <2>2 DEF OpServe, OpManda
<1>5. CASE OpEsaurito(o)
  <2>1. risposte' \in [Stazioni -> SUBSET (Utenti \X {0, 1})]
    BY <1>5, ServizioTipo DEF OpEsaurito, OpManda
  <2> QED BY <1>5, <2>1 DEF OpEsaurito, OpManda
<1>6. CASE update_stats_on_service(o)
  <2>1. stats_giorno' \in [Voci -> Nat]
    <3> DEFINE v == ServizioDi(o)[1]
               n == ServizioDi(o)[2]
    <3>1. v \in Voci /\ n \in Nat
      BY <1>6, ServizioTipo DEF update_stats_on_service
    <3>2. stats_giorno' = [stats_giorno EXCEPT ![v] = @ + n]
      BY <1>6 DEF update_stats_on_service, Conta
    <3> HIDE DEF v, n
    <3> QED BY <3>1, <3>2
  <2> QED BY <1>6, <2>1 DEF update_stats_on_service
<1>7. CASE OpContinua(o) BY <1>7 DEF OpContinua
<1>8. CASE TurnoFinito(o) BY <1>8 DEF TurnoFinito
<1>9. CASE handle_pause(o) BY <1>9 DEF handle_pause, Accade
<1>10. CASE PausaLegge(o) BY <1>10 DEF PausaLegge
<1>11. CASE PausaScrive(o) BY <1>11 DEF PausaScrive
<1> QED
  BY <1>1, <1>2, <1>3, <1>4, <1>5, <1>6, <1>7, <1>8, <1>9, <1>10, <1>11
  DEF operator_loop

LEMMA TipiResponsabile ==
  ASSUME Tipi, simulate_days
  PROVE  Tipi'
<1> USE VociDistinte, CostantiPasto
    DEF Tipi, TypeOK, PresiVeri, LuoghiMensa, MensaVai, code, utVars, opVars,
        pausaVars, conti
<1>1. CASE start_new_day BY <1>1 DEF start_new_day, CodeVuote, ZeroVoci
<1>2. CASE ApriGiorno BY <1>2, Numeri DEF ApriGiorno
<1>3. CASE end_day BY <1>3 DEF end_day
<1>4. CASE FineAttesa BY <1>4 DEF FineAttesa
<1>5. CASE stats_update_totals
  <2>1. stats_tot' \in [Voci -> Nat]
    BY <1>5 DEF stats_update_totals, AggiornaTotali, terminate_simulation
  <2>2. sem_day_start' \in Nat /\ mensa' \in LuoghiMensa
    BY <1>5, Numeri
    DEF stats_update_totals, AggiornaTotali, terminate_simulation
  <2> QED
    BY <1>5, <2>1, <2>2
    DEF stats_update_totals, AggiornaTotali, terminate_simulation
<1> QED BY <1>1, <1>2, <1>3, <1>4, <1>5 DEF simulate_days

LEMMA TipiInduttivi == Tipi /\ [Next]_vars => Tipi'
<1> SUFFICES ASSUME Tipi, [Next]_vars PROVE Tipi' OBVIOUS
<1>1. CASE UNCHANGED vars
  BY <1>1 DEF Tipi, TypeOK, PresiVeri, vars, mensaVars, code, utVars, opVars,
              pausaVars, conti
<1> QED BY <1>1, TipiUtente, TipiOperatore, TipiResponsabile DEF Next

\* The types hold always, for every instance: no counter goes below zero and an
\* operator never makes more than NOFPAUSE pauses between two of its days
\* (operatore.c:63 and :77).
THEOREM TypeCorrect == Spec => []TypeOK
<1>1. Tipi => TypeOK BY DEF Tipi
<1> QED BY <1>1, TipiIniziali, TipiInduttivi, PTL DEF Spec

-----------------------------------------------------------------------------
(***************************************************************************)
(* The sets that are counted.                                              *)
(***************************************************************************)
LEMMA DaContareFinito ==
  /\ IsFiniteSet(DaContare) /\ Cardinality(DaContare) \in Nat
  /\ IsFiniteSet(DaContare') /\ Cardinality(DaContare') \in Nat
<1>1. DaContare \subseteq Utenti /\ DaContare' \subseteq Utenti BY DEF DaContare
<1> QED BY <1>1, CostantiPasto, FS_Subset, FS_CardinalityType

LEMMA InPausaPlusFinito ==
  /\ IsFiniteSet(InPausaPlus) /\ Cardinality(InPausaPlus) \in Nat
  /\ IsFiniteSet(InPausaPlus') /\ Cardinality(InPausaPlus') \in Nat
<1>1. InPausaPlus \subseteq Operatori /\ InPausaPlus' \subseteq Operatori
  BY DEF InPausaPlus
<1> QED BY <1>1, CostantiPasto, FS_Subset, FS_CardinalityType

LEMMA InVoloFinito ==
  ASSUME NEW v
  PROVE  /\ IsFiniteSet(InVolo(v)) /\ Cardinality(InVolo(v)) \in Nat
         /\ IsFiniteSet(InVolo(v)') /\ Cardinality(InVolo(v)') \in Nat
<1>1. /\ InVolo(v) \subseteq Operatori \X Piatti
      /\ InVolo(v)' \subseteq Operatori \X Piatti
  BY DEF InVolo
<1>2. IsFiniteSet(Operatori \X Piatti)
  BY CostantiPasto, PiattiFiniti, FS_Product
<1> QED BY <1>1, <1>2, FS_Subset, FS_CardinalityType

\* A service is worth the plates it is counted for.
LEMMA ValoreServizio ==
  ASSUME Tipi, NEW o \in Operatori, op[o] \in {"risponde", "aggiorna"},
         NEW v \in Esatte
  PROVE  /\ Contati(v, o) \in SUBSET Piatti
         /\ Cardinality({o} \X Contati(v, o)) =
              (IF v = ServizioDi(o)[1] THEN ServizioDi(o)[2] ELSE 0)
<1>0. preso[o].ha \in SUBSET Piatti BY ServizioTipo
<1>1. StazioneDi[o] \in Piatti \cup {"cassa"} /\ "cassa" \notin Piatti
  BY CostantiPasto, VociDistinte DEF Stazioni
<1>2. "ricavo" \notin Piatti BY VociDistinte
<1>3. Contati(v, o) \in SUBSET Piatti
  BY <1>0, <1>2 DEF Contati, Esatte
<1>4. Cardinality(Contati(v, o)) =
        (IF v = ServizioDi(o)[1] THEN ServizioDi(o)[2] ELSE 0)
  <2>1. CASE v = "ricavo"
    BY <2>1, <1>1, <1>2, FS_EmptySet DEF Contati, ServizioDi
  <2>2. CASE v # "ricavo"
    <3>1. v \in Piatti BY <2>2 DEF Esatte
    <3>2. CASE v = StazioneDi[o]
      BY <2>2, <3>1, <3>2, <1>1, FS_Singleton DEF Contati, ServizioDi
    <3>3. CASE v # StazioneDi[o]
      BY <2>2, <3>1, <3>3, <1>1, FS_EmptySet DEF Contati, ServizioDi
    <3> QED BY <3>2, <3>3
  <2> QED BY <2>1, <2>2
<1>5. IsFiniteSet(Contati(v, o)) /\ Cardinality(Contati(v, o)) \in Nat
  BY <1>3, PiattiFiniti
<1>6. IsFiniteSet({o}) /\ Cardinality({o}) = 1 BY FS_Singleton
<1>7. Cardinality({o} \X Contati(v, o)) = 1 * Cardinality(Contati(v, o))
  BY <1>5, <1>6, FS_Product
<1> QED BY <1>3, <1>4, <1>5, <1>7

\* A user changes none of what the operators count.
LEMMA EffettoUtente ==
  ASSUME Tipi, NEW u \in Utenti, user_loop(u)
  PROVE  /\ UNCHANGED <<mensaVars, opVars, stats_tot>>
         /\ \/ UNCHANGED <<DaContare, stats_giorno, fatti>>
            \/ /\ Conta("non_serviti", 1) /\ Accade("non_serviti", 1)
               /\ UNCHANGED DaContare
            \/ /\ Accade("serviti", 1) /\ UNCHANGED stats_giorno
               /\ Cardinality(DaContare') = Cardinality(DaContare) + 1
            \/ /\ Conta("serviti", 1) /\ UNCHANGED fatti
               /\ Cardinality(DaContare') = Cardinality(DaContare) - 1
<1>0. ut \in [Utenti -> LuoghiUtente] BY DEF Tipi, TypeOK
<1>1. UNCHANGED <<mensaVars, opVars, stats_tot>>
  BY DEF user_loop, UtInizia, UtEsce, UtSalta, UtChiede, UtServito, UtRiprova,
         UtSenza, UtInterrotto, UtAvanza, UtTrovaChiuso, UtContaNonServito,
         UtMangia, UtArriva, UtArrivaServito, UtContaServito, UtLasciaBarriera,
         Ricevuta, Arrivato, conti
<1>2. CASE UtArrivaServito(u)
  <2>1. DaContare' = DaContare \cup {u} /\ u \notin DaContare
    BY <1>0, <1>2 DEF UtArrivaServito, UtVai, DaContare
  <2>2. Cardinality(DaContare') = Cardinality(DaContare) + 1
    BY <2>1, DaContareFinito, FS_AddElement
  <2> QED BY <1>1, <1>2, <2>2 DEF UtArrivaServito, Arrivato
<1>3. CASE UtContaServito(u)
  <2>1. DaContare' = DaContare \ {u} /\ u \in DaContare
    BY <1>0, <1>3 DEF UtContaServito, UtVai, DaContare
  <2>2. Cardinality(DaContare') = Cardinality(DaContare) - 1
    BY <2>1, DaContareFinito, FS_RemoveElement
  <2> QED BY <1>1, <1>3, <2>2 DEF UtContaServito
<1>4. CASE ~UtArrivaServito(u) /\ ~UtContaServito(u)
  <2>1. DaContare' = DaContare
    BY <1>0, <1>4
    DEF user_loop, UtInizia, UtEsce, UtSalta, UtChiede, UtServito, UtRiprova,
        UtSenza, UtInterrotto, UtAvanza, UtTrovaChiuso, UtContaNonServito,
        UtMangia, UtArriva, UtLasciaBarriera, UtVai, DaContare
  <2>2. \/ UNCHANGED <<stats_giorno, fatti>>
        \/ Conta("non_serviti", 1) /\ Accade("non_serviti", 1)
    BY <1>4
    DEF user_loop, UtInizia, UtEsce, UtSalta, UtChiede, UtServito, UtRiprova,
        UtSenza, UtInterrotto, UtAvanza, UtTrovaChiuso, UtContaNonServito,
        UtMangia, UtArriva, UtLasciaBarriera, Ricevuta, Arrivato, conti
  <2> QED BY <1>1, <2>1, <2>2
<1> QED BY <1>2, <1>3, <1>4

LEMMA StessoVolo ==
  ASSUME NEW v,
         \A p \in Operatori :
           /\ op'[p] = "aggiorna" <=> op[p] = "aggiorna"
           /\ op[p] = "aggiorna" => preso'[p] = preso[p]
  PROVE  InVolo(v)' = InVolo(v)
BY DEF InVolo, Contati

LEMMA StesseInPausa ==
  ASSUME \A p \in Operatori :
           op'[p] \in {"leggi", "scrivi"} <=> op[p] \in {"leggi", "scrivi"}
  PROVE  InPausaPlus' = InPausaPlus
BY DEF InPausaPlus

\* The services: an answer puts its plates on their way, the count takes them off.
LEMMA VoloOperatore ==
  ASSUME Tipi, NEW o \in Operatori, operator_loop(o), NEW v \in Esatte
  PROVE  fatti'[v] - stats_giorno'[v] - Cardinality(InVolo(v)')
           = fatti[v] - stats_giorno[v] - Cardinality(InVolo(v))
<1>0. /\ op \in [Operatori -> LuoghiOperatore]
      /\ preso \in [Operatori -> Richiesta \cup {Nessuno}]
      /\ stats_giorno \in [Voci -> Nat] /\ fatti \in [Voci -> Nat]
      /\ v \in Voci /\ v # "pause"
  BY VociDistinte DEF Tipi, TypeOK
<1>n. Cardinality(InVolo(v)) \in Nat /\ Cardinality(InVolo(v)') \in Nat
  BY InVoloFinito
<1>1. CASE OpServe(o)
  <2>1. op[o] = "risponde" /\ op' = [op EXCEPT ![o] = "aggiorna"] /\ preso' = preso
    BY <1>1 DEF OpServe, OpVai
  <2> DEFINE N == {o} \X Contati(v, o)
             w == ServizioDi(o)[1]
             n == ServizioDi(o)[2]
             k == IF v = w THEN n ELSE 0
  <2>2. Contati(v, o) \in SUBSET Piatti /\ Cardinality(N) = k
    BY <2>1, ValoreServizio
  <2>3. w \in Esatte /\ n \in Nat BY <2>1, ServizioTipo
  <2>4. InVolo(v)' = InVolo(v) \cup N /\ InVolo(v) \cap N = {}
    BY <1>0, <2>1, <2>2 DEF InVolo, Contati
  <2>5. IsFiniteSet(N) BY <2>2, PiattiFiniti, FS_Singleton, FS_Product
  <2>6. Cardinality(InVolo(v)') = Cardinality(InVolo(v)) + k
    <3>1. Cardinality(InVolo(v) \cap N) = 0 BY <2>4, FS_EmptySet
    <3>2. Cardinality(InVolo(v) \cup N) =
            Cardinality(InVolo(v)) + Cardinality(N) - Cardinality(InVolo(v) \cap N)
      BY <2>5, InVoloFinito, FS_Union
    <3> HIDE DEF N, k
    <3>3. k \in Nat BY <2>3 DEF k
    <3> QED BY <1>n, <2>2, <2>4, <3>1, <3>2, <3>3
  <2>7. fatti' = [fatti EXCEPT ![w] = @ + n] /\ stats_giorno' = stats_giorno
    BY <1>1 DEF OpServe, OpManda, Accade
  <2> HIDE DEF w, n
  <2>8. fatti'[v] = fatti[v] + k BY <1>0, <2>3, <2>7
  <2>9. k \in Nat BY <2>3
  <2> QED BY <1>0, <1>n, <2>6, <2>7, <2>8, <2>9
<1>2. CASE update_stats_on_service(o)
  <2>1. /\ op[o] = "aggiorna" /\ op' = [op EXCEPT ![o] = "dopo"]
        /\ preso' = [preso EXCEPT ![o] = Nessuno]
    BY <1>2 DEF update_stats_on_service, OpVai
  <2> DEFINE N == {o} \X Contati(v, o)
             w == ServizioDi(o)[1]
             n == ServizioDi(o)[2]
             k == IF v = w THEN n ELSE 0
  <2>2. Contati(v, o) \in SUBSET Piatti /\ Cardinality(N) = k
    BY <2>1, ValoreServizio
  <2>3. w \in Esatte /\ n \in Nat BY <2>1, ServizioTipo
  <2>4. InVolo(v)' = InVolo(v) \ N
    BY <1>0, <2>1, <2>2 DEF InVolo, Contati
  <2>5. InVolo(v) \cap N = N
    BY <2>1, <2>2 DEF InVolo
  <2>6. Cardinality(InVolo(v)') = Cardinality(InVolo(v)) - k
    <3>1. IsFiniteSet(InVolo(v)) BY InVoloFinito
    <3> HIDE DEF N, k
    <3>2. Cardinality(InVolo(v) \ N) =
            Cardinality(InVolo(v)) - Cardinality(InVolo(v) \cap N)
      BY <3>1, FS_Difference
    <3> QED BY <2>2, <2>4, <2>5, <3>2
  <2>7. stats_giorno' = [stats_giorno EXCEPT ![w] = @ + n] /\ fatti' = fatti
    BY <1>2 DEF update_stats_on_service, Conta
  <2> HIDE DEF w, n
  <2>8. stats_giorno'[v] = stats_giorno[v] + k BY <1>0, <2>3, <2>7
  <2>9. k \in Nat BY <2>3
  <2> QED BY <1>0, <1>n, <2>6, <2>7, <2>8, <2>9
<1>3. CASE ~OpServe(o) /\ ~update_stats_on_service(o)
  <2>1. \A p \in Operatori :
          /\ op'[p] = "aggiorna" <=> op[p] = "aggiorna"
          /\ op[p] = "aggiorna" => preso'[p] = preso[p]
    BY <1>0, <1>3
    DEF operator_loop, OpInizia, OpEsce, OpRiceve, OpEsaurito, OpContinua,
        TurnoFinito, handle_pause, PausaLegge, PausaScrive, OpVai, FuoriPause
  <2>2. fatti'[v] = fatti[v] /\ stats_giorno'[v] = stats_giorno[v]
    BY <1>0, <1>3
    DEF operator_loop, OpInizia, OpEsce, OpRiceve, OpEsaurito, OpManda,
        OpContinua, TurnoFinito, handle_pause, PausaLegge, PausaScrive, Accade,
        FuoriPause, conti
  <2>3. InVolo(v)' = InVolo(v) BY <2>1, StessoVolo
  <2> QED BY <2>2, <2>3
<1> QED BY <1>1, <1>2, <1>3

\* What one step of an operator does to the pauses: one begins, is read, or is
\* stored; or nothing happens to them.
LEMMA PausaOperatore ==
  ASSUME Tipi, NEW o \in Operatori, operator_loop(o)
  PROVE
    \/ /\ fatti'["pause"] = fatti["pause"] + 1
       /\ Cardinality(InPausaPlus') = Cardinality(InPausaPlus) + 1
       /\ stats_giorno'["pause"] = stats_giorno["pause"]
       /\ \A p \in Operatori : op'[p] = "scrivi" =>
            op[p] = "scrivi" /\ letto'[p] = letto[p]
    \/ /\ fatti'["pause"] = fatti["pause"]
       /\ InPausaPlus' = InPausaPlus
       /\ stats_giorno'["pause"] = stats_giorno["pause"]
       /\ \A p \in Operatori : op'[p] = "scrivi" =>
            \/ op[p] = "scrivi" /\ letto'[p] = letto[p]
            \/ letto'[p] = stats_giorno["pause"]
    \/ /\ fatti'["pause"] = fatti["pause"]
       /\ Cardinality(InPausaPlus') = Cardinality(InPausaPlus) - 1
       /\ op[o] = "scrivi" /\ stats_giorno'["pause"] = letto[o] + 1
       /\ \A p \in Operatori : op'[p] = "scrivi" =>
            op[p] = "scrivi" /\ letto'[p] = letto[p]
<1>0. /\ op \in [Operatori -> LuoghiOperatore]
      /\ letto \in [Operatori -> Nat]
      /\ stats_giorno \in [Voci -> Nat] /\ fatti \in [Voci -> Nat]
      /\ "pause" \in Voci
  BY VociDistinte DEF Tipi, TypeOK
<1>1. CASE handle_pause(o)
  <2>1. InPausaPlus' = InPausaPlus \cup {o} /\ o \notin InPausaPlus
    BY <1>0, <1>1 DEF handle_pause, OpVai, InPausaPlus
  <2>2. Cardinality(InPausaPlus') = Cardinality(InPausaPlus) + 1
    BY <2>1, InPausaPlusFinito, FS_AddElement
  <2> QED BY <1>0, <1>1, <2>2 DEF handle_pause, OpVai, Accade
<1>2. CASE PausaLegge(o)
  <2>1. InPausaPlus' = InPausaPlus
    BY <1>0, <1>2 DEF PausaLegge, OpVai, InPausaPlus
  <2> QED BY <1>0, <1>2, <2>1 DEF PausaLegge, OpVai
<1>3. CASE PausaScrive(o)
  <2>1. InPausaPlus' = InPausaPlus \ {o} /\ o \in InPausaPlus
    BY <1>0, <1>3 DEF PausaScrive, OpVai, InPausaPlus
  <2>2. Cardinality(InPausaPlus') = Cardinality(InPausaPlus) - 1
    BY <2>1, InPausaPlusFinito, FS_RemoveElement
  <2> QED BY <1>0, <1>3, <2>2 DEF PausaScrive, OpVai
<1>4. CASE ~handle_pause(o) /\ ~PausaLegge(o) /\ ~PausaScrive(o)
  <2>1. \A p \in Operatori :
          /\ op'[p] \in {"leggi", "scrivi"} <=> op[p] \in {"leggi", "scrivi"}
          /\ op'[p] = "scrivi" => op[p] = "scrivi"
    BY <1>0, <1>4
    DEF operator_loop, OpInizia, OpEsce, OpRiceve, OpServe, OpEsaurito,
        update_stats_on_service, OpContinua, TurnoFinito, OpVai
  <2>2. letto' = letto
    BY <1>4
    DEF operator_loop, OpInizia, OpEsce, OpRiceve, OpServe, OpEsaurito, OpManda,
        update_stats_on_service, OpContinua, TurnoFinito, pausaVars
  <2>3. InPausaPlus' = InPausaPlus BY <2>1, StesseInPausa
  <2>4. fatti'["pause"] = fatti["pause"]
        /\ stats_giorno'["pause"] = stats_giorno["pause"]
    <3>1. CASE OpServe(o)
      <4> DEFINE w == ServizioDi(o)[1]
                 n == ServizioDi(o)[2]
      <4>1. w # "pause"
        BY <3>1, ServizioTipo, VociDistinte DEF OpServe, OpVai
      <4>2. fatti' = [fatti EXCEPT ![w] = @ + n] /\ stats_giorno' = stats_giorno
        BY <3>1 DEF OpServe, OpManda, Accade
      <4> HIDE DEF w, n
      <4> QED BY <1>0, <4>1, <4>2
    <3>2. CASE update_stats_on_service(o)
      <4> DEFINE w == ServizioDi(o)[1]
                 n == ServizioDi(o)[2]
      <4>1. w # "pause"
        BY <3>2, ServizioTipo, VociDistinte DEF update_stats_on_service, OpVai
      <4>2. stats_giorno' = [stats_giorno EXCEPT ![w] = @ + n] /\ fatti' = fatti
        BY <3>2 DEF update_stats_on_service, Conta
      <4> HIDE DEF w, n
      <4> QED BY <1>0, <4>1, <4>2
    <3>3. CASE ~OpServe(o) /\ ~update_stats_on_service(o)
      BY <1>4, <3>3
      DEF operator_loop, OpInizia, OpEsce, OpRiceve, OpEsaurito, OpManda,
          OpContinua, TurnoFinito, conti
    <3> QED BY <3>1, <3>2, <3>3
  <2> QED BY <2>1, <2>2, <2>3, <2>4
<1> QED BY <1>1, <1>2, <1>3, <1>4

\* Nothing an operator does is about the users, and it serves only in a day.
LEMMA AltroOperatore ==
  ASSUME Tipi, NEW o \in Operatori, operator_loop(o)
  PROVE  /\ UNCHANGED <<mensaVars, ut, stats_tot>>
         /\ \A v \in {"serviti", "non_serviti"} :
              fatti'[v] = fatti[v] /\ stats_giorno'[v] = stats_giorno[v]
<1>0. /\ stats_giorno \in [Voci -> Nat] /\ fatti \in [Voci -> Nat]
      /\ {"serviti", "non_serviti", "pause"} \subseteq Voci
  BY VociDistinte DEF Tipi, TypeOK
<1>1. UNCHANGED <<mensaVars, ut, stats_tot>>
  BY DEF operator_loop, OpInizia, OpEsce, OpRiceve, OpServe, OpEsaurito, OpManda,
         update_stats_on_service, OpContinua, TurnoFinito, handle_pause,
         PausaLegge, PausaScrive, FuoriPause, utVars, conti
<1>2. CASE OpServe(o)
  <2> DEFINE w == ServizioDi(o)[1]
             n == ServizioDi(o)[2]
  <2>1. w \notin {"serviti", "non_serviti"}
    BY <1>2, ServizioTipo, VociDistinte DEF OpServe, OpVai
  <2>2. fatti' = [fatti EXCEPT ![w] = @ + n] /\ stats_giorno' = stats_giorno
    BY <1>2 DEF OpServe, OpManda, Accade
  <2> HIDE DEF w, n
  <2> QED BY <1>0, <1>1, <2>1, <2>2
<1>3. CASE update_stats_on_service(o)
  <2> DEFINE w == ServizioDi(o)[1]
             n == ServizioDi(o)[2]
  <2>1. w \notin {"serviti", "non_serviti"}
    BY <1>3, ServizioTipo, VociDistinte DEF update_stats_on_service, OpVai
  <2>2. stats_giorno' = [stats_giorno EXCEPT ![w] = @ + n] /\ fatti' = fatti
    BY <1>3 DEF update_stats_on_service, Conta
  <2> HIDE DEF w, n
  <2> QED BY <1>0, <1>1, <2>1, <2>2
<1>4. CASE ~OpServe(o) /\ ~update_stats_on_service(o)
  BY <1>0, <1>1, <1>4
  DEF operator_loop, OpInizia, OpEsce, OpRiceve, OpEsaurito, OpManda,
      OpContinua, TurnoFinito, handle_pause, PausaLegge, PausaScrive, Accade,
      conti
<1> QED BY <1>2, <1>3, <1>4

-----------------------------------------------------------------------------
(***************************************************************************)
(* The invariant.                                                          *)
(***************************************************************************)
LEMMA InvarianteIniziale == Init => Invariante
<1> SUFFICES ASSUME Init PROVE Invariante OBVIOUS
<1>1. NessunoServe BY DEF Init, NessunoServe, Aperti
<1>2. InPausaPlus = {} /\ DaContare = {} /\ \A v \in Esatte : InVolo(v) = {}
  BY DEF Init, InPausaPlus, DaContare, InVolo
<1>3. /\ Cardinality(InPausaPlus) = 0 /\ Cardinality(DaContare) = 0
      /\ \A v \in Esatte : Cardinality(InVolo(v)) = 0
  BY <1>2, FS_EmptySet
<1>4. Aperti /\ \A v \in Voci :
        fatti[v] = 0 /\ stats_tot[v] = 0 /\ stats_giorno[v] = 0
  BY DEF Init, ZeroVoci, Aperti
<1>5. ContiEsatti BY <1>3, <1>4, VociDistinte DEF ContiEsatti
<1>6. PauseContate BY <1>3, <1>4, VociDistinte DEF PauseContate, Init
<1>7. UtentiContati BY <1>3, <1>4, VociDistinte DEF UtentiContati
<1> QED
  BY <1>1, <1>5, <1>6, <1>7, TipiIniziali DEF Invariante, Conti

\* The entries are numbers.
LEMMA Naturali ==
  ASSUME Tipi
  PROVE  /\ \A v \in Voci : /\ fatti[v] \in Nat /\ stats_tot[v] \in Nat
                            /\ stats_giorno[v] \in Nat
         /\ \A o \in Operatori : letto[o] \in Nat
BY DEF Tipi, TypeOK

LEMMA InvarianteUtente ==
  ASSUME Invariante, NEW u \in Utenti, user_loop(u)
  PROVE  Invariante'
<1>0. Tipi /\ Tipi' BY TipiUtente DEF Invariante
<1>1. /\ UNCHANGED <<mensaVars, opVars, stats_tot>>
      /\ \/ UNCHANGED <<DaContare, stats_giorno, fatti>>
         \/ /\ Conta("non_serviti", 1) /\ Accade("non_serviti", 1)
            /\ UNCHANGED DaContare
         \/ /\ Accade("serviti", 1) /\ UNCHANGED stats_giorno
            /\ Cardinality(DaContare') = Cardinality(DaContare) + 1
         \/ /\ Conta("serviti", 1) /\ UNCHANGED fatti
            /\ Cardinality(DaContare') = Cardinality(DaContare) - 1
  BY <1>0, EffettoUtente
<1>t. stats_giorno \in [Voci -> Nat] /\ fatti \in [Voci -> Nat]
  BY <1>0 DEF Tipi, TypeOK
<1>2. \A v \in Esatte \cup {"pause"} :
        fatti'[v] = fatti[v] /\ stats_giorno'[v] = stats_giorno[v]
  <2>1. Esatte \cup {"pause"} \subseteq Voci \ {"serviti", "non_serviti"}
    BY VociDistinte
  <2> QED BY <1>1, <1>t, <2>1 DEF Conta, Accade
<1>3. /\ Aperti' = Aperti /\ InPausaPlus' = InPausaPlus
      /\ \A v \in Esatte : InVolo(v)' = InVolo(v)
  BY <1>1 DEF mensaVars, opVars, Aperti, InPausaPlus, InVolo, Contati
<1>4. NessunoServe'
  BY <1>1 DEF mensaVars, opVars, NessunoServe, Invariante, Aperti
<1>5. ContiEsatti'
  BY <1>1, <1>2, <1>3 DEF ContiEsatti, Invariante, Conti
<1>6. PauseContate'
  BY <1>1, <1>2, <1>3 DEF PauseContate, Invariante, Conti, opVars, pausaVars
<1>7. UtentiContati'
  <2> DEFINE S == Cardinality(DaContare)
  <2>1. /\ UtentiContati /\ stats_tot' = stats_tot /\ Aperti' = Aperti
        /\ S \in Nat /\ S' \in Nat
    BY <1>1, <1>3, DaContareFinito DEF Invariante, Conti
  <2>2. \A v \in {"serviti", "non_serviti"} :
          /\ v \in Voci /\ fatti[v] \in Nat /\ stats_tot[v] \in Nat
          /\ stats_giorno[v] \in Nat
    BY <1>0, Naturali, VociDistinte
  <2> HIDE DEF S
  <2>3. CASE UNCHANGED <<DaContare, stats_giorno, fatti>>
    BY <2>1, <2>3 DEF UtentiContati
  <2>4. CASE /\ Conta("non_serviti", 1) /\ Accade("non_serviti", 1)
             /\ UNCHANGED DaContare
    BY <1>t, <2>1, <2>2, <2>4 DEF UtentiContati, Conta, Accade
  <2>5. CASE /\ Accade("serviti", 1) /\ UNCHANGED stats_giorno
             /\ Cardinality(DaContare') = Cardinality(DaContare) + 1
    BY <1>t, <2>1, <2>2, <2>5 DEF UtentiContati, Accade, S
  <2>6. CASE /\ Conta("serviti", 1) /\ UNCHANGED fatti
             /\ Cardinality(DaContare') = Cardinality(DaContare) - 1
    BY <1>t, <2>1, <2>2, <2>6 DEF UtentiContati, Conta, S
  <2> QED BY <1>1, <2>3, <2>4, <2>5, <2>6
<1> QED
  BY <1>0, <1>4, <1>5, <1>6, <1>7 DEF Invariante, Conti

LEMMA InvarianteOperatore ==
  ASSUME Invariante, NEW o \in Operatori, operator_loop(o)
  PROVE  Invariante'
<1>0. Tipi /\ Tipi' BY TipiOperatore DEF Invariante
<1>1. /\ UNCHANGED <<mensaVars, ut, stats_tot>>
      /\ \A v \in {"serviti", "non_serviti"} :
           fatti'[v] = fatti[v] /\ stats_giorno'[v] = stats_giorno[v]
  BY <1>0, AltroOperatore
<1>2. Aperti' = Aperti /\ DaContare' = DaContare
  BY <1>1 DEF mensaVars, Aperti, DaContare
<1>3. ~Aperti => ~simulation_running
  BY DEF Invariante, NessunoServe, Aperti
<1>4. ~Aperti =>
        /\ op[o] \in {"day_start", "uscito", "pausa"}
        /\ op'[o] \in {"day_start", "uscito", "pausa"}
        /\ UNCHANGED <<stats_giorno, fatti>>
  <2> SUFFICES ASSUME ~Aperti
               PROVE  /\ op[o] \in {"day_start", "uscito", "pausa"}
                      /\ op'[o] \in {"day_start", "uscito", "pausa"}
                      /\ UNCHANGED <<stats_giorno, fatti>>
    OBVIOUS
  <2>1. op \in [Operatori -> LuoghiOperatore] BY <1>0 DEF Tipi, TypeOK
  <2>2. op[o] \in {"day_start", "uscito", "pausa"}
    BY DEF Invariante, NessunoServe
  <2>3. OpEsce(o) \/ TurnoFinito(o)
    BY <1>3, <2>2
    DEF operator_loop, OpInizia, OpRiceve, OpServe, OpEsaurito,
        update_stats_on_service, OpContinua, handle_pause, PausaLegge,
        PausaScrive, OpVai
  <2> QED BY <2>1, <2>2, <2>3 DEF OpEsce, TurnoFinito, OpVai
<1>5. \A p \in Operatori : p # o => op'[p] = op[p]
  BY <1>0
  DEF Tipi, TypeOK, operator_loop, OpInizia, OpEsce, OpRiceve, OpServe,
      OpEsaurito, update_stats_on_service, OpContinua, TurnoFinito, handle_pause,
      PausaLegge, PausaScrive, OpVai
<1>6. NessunoServe'
  BY <1>1, <1>2, <1>4, <1>5 DEF NessunoServe, Invariante, mensaVars
<1>7. ContiEsatti'
  <2> SUFFICES ASSUME NEW v \in Esatte
               PROVE  fatti'[v] = stats_tot'[v]
                        + (IF Aperti' THEN stats_giorno'[v]
                                             + Cardinality(InVolo(v)')
                                      ELSE 0)
    BY DEF ContiEsatti
  <2>1. fatti'[v] - stats_giorno'[v] - Cardinality(InVolo(v)')
          = fatti[v] - stats_giorno[v] - Cardinality(InVolo(v))
    BY <1>0, VoloOperatore
  <2>2. /\ Cardinality(InVolo(v)) \in Nat /\ Cardinality(InVolo(v)') \in Nat
        /\ fatti[v] \in Nat /\ stats_tot[v] \in Nat /\ stats_giorno[v] \in Nat
        /\ fatti'[v] \in Nat /\ stats_giorno'[v] \in Nat
        /\ stats_tot'[v] = stats_tot[v]
    BY <1>0, <1>1, Naturali, VociDistinte, InVoloFinito DEF Tipi, TypeOK
  <2>3. fatti[v] = stats_tot[v]
          + (IF Aperti THEN stats_giorno[v] + Cardinality(InVolo(v)) ELSE 0)
    BY DEF Invariante, Conti, ContiEsatti
  <2>4. CASE Aperti BY <1>2, <2>1, <2>2, <2>3, <2>4
  <2>5. CASE ~Aperti BY <1>2, <1>4, <2>2, <2>3, <2>5
  <2> QED BY <2>4, <2>5
<1>8. PauseContate'
  <2> DEFINE n == Cardinality(InPausaPlus)
  <2>1. n \in Nat /\ n' \in Nat BY InPausaPlusFinito
  <2>2. /\ fatti["pause"] \in Nat /\ stats_tot["pause"] \in Nat
        /\ stats_giorno["pause"] \in Nat /\ fatti'["pause"] \in Nat
        /\ \A p \in Operatori : letto[p] \in Nat /\ letto'[p] \in Nat
        /\ stats_tot' = stats_tot
    BY <1>0, <1>1, Naturali, VociDistinte DEF Tipi, TypeOK
  <2>3. PauseContate BY DEF Invariante, Conti
  <2>4. CASE ~Aperti BY <1>2, <1>4, <2>2, <2>3, <2>4 DEF PauseContate
  <2>5. CASE Aperti
    <3>1. /\ stats_tot["pause"] + stats_giorno["pause"] + n <= fatti["pause"]
          /\ \A p \in Operatori : op[p] = "scrivi" =>
               stats_tot["pause"] + letto[p] + n <= fatti["pause"]
      BY <2>3, <2>5 DEF PauseContate
    <3>2. /\ stats_tot["pause"] + stats_giorno'["pause"] + n' <= fatti'["pause"]
          /\ \A p \in Operatori : op'[p] = "scrivi" =>
               stats_tot["pause"] + letto'[p] + n' <= fatti'["pause"]
      <4>1. CASE /\ fatti'["pause"] = fatti["pause"] + 1
                 /\ n' = n + 1
                 /\ stats_giorno'["pause"] = stats_giorno["pause"]
                 /\ \A p \in Operatori : op'[p] = "scrivi" =>
                      op[p] = "scrivi" /\ letto'[p] = letto[p]
        <5> HIDE DEF n
        <5> QED BY <2>1, <2>2, <3>1, <4>1
      <4>2. CASE /\ fatti'["pause"] = fatti["pause"]
                 /\ n' = n
                 /\ stats_giorno'["pause"] = stats_giorno["pause"]
                 /\ \A p \in Operatori : op'[p] = "scrivi" =>
                      \/ op[p] = "scrivi" /\ letto'[p] = letto[p]
                      \/ letto'[p] = stats_giorno["pause"]
        <5> HIDE DEF n
        <5> QED BY <2>1, <2>2, <3>1, <4>2
      <4>3. CASE /\ fatti'["pause"] = fatti["pause"]
                 /\ n' = n - 1
                 /\ op[o] = "scrivi" /\ stats_giorno'["pause"] = letto[o] + 1
                 /\ \A p \in Operatori : op'[p] = "scrivi" =>
                      op[p] = "scrivi" /\ letto'[p] = letto[p]
        <5> HIDE DEF n
        <5> QED BY <2>1, <2>2, <3>1, <4>3
      <4> QED BY <1>0, PausaOperatore, <4>1, <4>2, <4>3
    <3>3. stats_giorno'["pause"] \in Nat
      BY <1>0, VociDistinte DEF Tipi, TypeOK
    <3>4. stats_tot["pause"] <= fatti'["pause"]
      <4> HIDE DEF n
      <4> QED BY <2>1, <2>2, <3>2, <3>3
    <3> QED BY <2>2, <3>2, <3>4 DEF PauseContate
  <2> QED BY <2>4, <2>5
<1>9. UtentiContati'
  BY <1>1, <1>2 DEF UtentiContati, Invariante, Conti
<1> QED BY <1>0, <1>6, <1>7, <1>8, <1>9 DEF Invariante, Conti

\* Who is still when the accounts are closed.
LEMMA NienteInVolo ==
  ASSUME Fermi
  PROVE  /\ Cardinality(InPausaPlus) = 0 /\ Cardinality(DaContare) = 0
         /\ \A v \in Esatte : Cardinality(InVolo(v)) = 0
<1>1. InPausaPlus = {} /\ DaContare = {} /\ \A v \in Esatte : InVolo(v) = {}
  BY DEF Fermi, InPausaPlus, DaContare, InVolo
<1> QED BY <1>1, FS_EmptySet

\* stats_update_totals finds every service and brings the totals up to them.
LEMMA TotaliEsatti ==
  ASSUME Invariante, stats_update_totals
  PROVE  /\ \A v \in Voci : stats_tot'[v] = stats_tot[v] + stats_giorno[v]
         /\ \A v \in Esatte : stats_tot'[v] = fatti[v]
         /\ \A v \in {"pause", "serviti", "non_serviti"} :
              stats_tot'[v] \in stats_tot[v]..fatti[v]
         /\ Aperti /\ ~Aperti' /\ UNCHANGED <<fatti, stats_giorno, op, ut>>
<1>1. /\ \A v \in Voci : stats_tot'[v] = stats_tot[v] + stats_giorno[v]
      /\ Aperti /\ ~Aperti' /\ UNCHANGED <<fatti, stats_giorno, op, ut>>
  BY DEF stats_update_totals, AggiornaTotali,
         terminate_simulation, MensaVai, Aperti, opVars, utVars
<1>2. \A v \in Voci : /\ fatti[v] \in Nat /\ stats_tot[v] \in Nat
                      /\ stats_giorno[v] \in Nat
  BY Naturali DEF Invariante
<1>3. Fermi BY DEF stats_update_totals
<1>4. \A v \in Esatte : stats_tot'[v] = fatti[v]
  BY <1>1, <1>2, <1>3, NienteInVolo, VociDistinte
  DEF Invariante, Conti, ContiEsatti
<1>5. \A v \in {"pause", "serviti", "non_serviti"} :
        stats_tot[v] + stats_giorno[v] <= fatti[v]
  BY <1>1, <1>2, <1>3, NienteInVolo, VociDistinte
  DEF Invariante, Conti, PauseContate, UtentiContati
<1> QED BY <1>1, <1>2, <1>4, <1>5, VociDistinte

LEMMA InvarianteResponsabile ==
  ASSUME Invariante, simulate_days
  PROVE  Invariante'
<1>0. Tipi /\ Tipi' BY TipiResponsabile DEF Invariante
<1>n. \A v \in Voci : /\ fatti[v] \in Nat /\ stats_tot[v] \in Nat
                      /\ stats_giorno[v] \in Nat
  BY <1>0, Naturali
<1>c. /\ Cardinality(InPausaPlus) \in Nat /\ Cardinality(DaContare) \in Nat
      /\ \A v \in Esatte : Cardinality(InVolo(v)) \in Nat
  BY InPausaPlusFinito, DaContareFinito, InVoloFinito
<1>1. UNCHANGED <<op, preso, letto, ut, fatti>>
  BY DEF simulate_days, start_new_day, ApriGiorno, end_day, FineAttesa,
         stats_update_totals, AggiornaTotali,
         terminate_simulation, opVars, pausaVars, utVars, conti
<1>2. /\ InPausaPlus' = InPausaPlus /\ DaContare' = DaContare
      /\ \A v \in Esatte : InVolo(v)' = InVolo(v)
  BY <1>1 DEF InPausaPlus, DaContare, InVolo, Contati
<1>3. CASE start_new_day
  <2>1. /\ ~Aperti /\ Aperti' /\ stats_tot' = stats_tot
        /\ stats_giorno' = ZeroVoci /\ ~simulation_running'
    BY <1>3
    DEF start_new_day, MensaVai, Aperti, Invariante, NessunoServe
  <2>2. \A o \in Operatori : op[o] \in {"day_start", "uscito", "pausa"}
    BY <2>1 DEF Invariante, NessunoServe
  <2>3. InPausaPlus = {} /\ \A v \in Esatte : InVolo(v) = {}
    BY <2>2 DEF InPausaPlus, InVolo
  <2>4. /\ Cardinality(InPausaPlus) = 0
        /\ \A v \in Esatte : Cardinality(InVolo(v)) = 0
    BY <2>3, FS_EmptySet
  <2>5. \A v \in Voci : stats_giorno'[v] = 0 BY <2>1 DEF ZeroVoci
  <2>6. NessunoServe' BY <2>1 DEF NessunoServe
  <2>7. ContiEsatti'
    BY <1>1, <1>2, <1>n, <2>1, <2>4, <2>5, VociDistinte
    DEF Invariante, Conti, ContiEsatti
  <2>8. PauseContate'
    BY <1>1, <1>2, <1>n, <2>1, <2>2, <2>4, <2>5, VociDistinte
    DEF Invariante, Conti, PauseContate
  <2>9. UtentiContati'
    BY <1>1, <1>2, <1>n, <1>c, <2>1, <2>5, VociDistinte
    DEF Invariante, Conti, UtentiContati
  <2> QED BY <1>0, <2>6, <2>7, <2>8, <2>9 DEF Invariante, Conti
<1>4. CASE ApriGiorno \/ end_day \/ FineAttesa
  <2>1. Aperti /\ Aperti' /\ UNCHANGED <<stats_tot, stats_giorno>>
    BY <1>4 DEF ApriGiorno, end_day, FineAttesa, MensaVai, Aperti, conti
  <2>2. simulation_running' => mensa' = "giorno"
    BY <1>4 DEF ApriGiorno, end_day, FineAttesa, MensaVai, Invariante, NessunoServe
  <2>3. NessunoServe' BY <2>1, <2>2 DEF NessunoServe
  <2>4. ContiEsatti'
    BY <1>1, <1>2, <2>1 DEF Invariante, Conti, ContiEsatti
  <2>5. PauseContate'
    BY <1>1, <1>2, <2>1 DEF Invariante, Conti, PauseContate
  <2>6. UtentiContati'
    BY <1>1, <1>2, <2>1 DEF Invariante, Conti, UtentiContati
  <2> QED BY <1>0, <2>3, <2>4, <2>5, <2>6 DEF Invariante, Conti
<1>5. CASE stats_update_totals
  <2>1. /\ \A v \in Esatte : stats_tot'[v] = fatti[v]
        /\ \A v \in {"pause", "serviti", "non_serviti"} :
             stats_tot'[v] \in stats_tot[v]..fatti[v]
        /\ Aperti /\ ~Aperti'
    BY <1>5, TotaliEsatti
  <2>2. NessunoServe'
    BY <1>5, <1>1
    DEF stats_update_totals, AggiornaTotali,
         terminate_simulation, MensaVai, Fermi, NessunoServe,
        Invariante
  <2>3. ContiEsatti'
    BY <1>1, <1>n, <2>1, VociDistinte DEF ContiEsatti
  <2>4. PauseContate' BY <1>1, <1>n, <2>1, VociDistinte DEF PauseContate
  <2>5. UtentiContati'
    <3>1. Cardinality(DaContare) = 0
      BY <1>5, NienteInVolo DEF stats_update_totals
    <3> QED
      BY <1>1, <1>2, <1>n, <2>1, <3>1, VociDistinte DEF UtentiContati
  <2> QED BY <1>0, <2>2, <2>3, <2>4, <2>5 DEF Invariante, Conti
<1> QED BY <1>3, <1>4, <1>5 DEF simulate_days

LEMMA InvarianteInduttivo == Invariante /\ [Next]_vars => Invariante'
<1> SUFFICES ASSUME Invariante, [Next]_vars PROVE Invariante' OBVIOUS
<1>1. CASE UNCHANGED vars
  BY <1>1, TipiInduttivi
  DEF Invariante, Tipi, TypeOK, PresiVeri, NessunoServe, Conti, ContiEsatti,
      PauseContate, UtentiContati, Aperti, InVolo, Contati, InPausaPlus,
      DaContare, vars, mensaVars, code, utVars, opVars, pausaVars, conti
<1> QED
  BY <1>1, InvarianteUtente, InvarianteOperatore, InvarianteResponsabile DEF Next

-----------------------------------------------------------------------------
(***************************************************************************)
(* The refinement.                                                         *)
(***************************************************************************)
LEMMA PassoUtente ==
  ASSUME Invariante, NEW u \in Utenti, user_loop(u)
  PROVE  Registro!Accade
<1>1. Tipi BY DEF Invariante
<1>2. stats_giorno \in [Voci -> Nat] /\ fatti \in [Voci -> Nat]
  BY <1>1 DEF Tipi, TypeOK
<1>3. UNCHANGED <<mensaVars, opVars, stats_tot>> BY <1>1, EffettoUtente
<1>4. UNCHANGED fatti \/ Accade("serviti", 1) \/ Accade("non_serviti", 1)
  BY <1>1, EffettoUtente
<1>5. \A v \in Voci : IF v \in {"pause", "serviti", "non_serviti"}
                        THEN fatti'[v] >= fatti[v] ELSE fatti'[v] = fatti[v]
  BY <1>2, <1>4 DEF Accade
<1> QED BY <1>2, <1>3, <1>5 DEF Registro!Accade, mensaVars

LEMMA PassoOperatore ==
  ASSUME Invariante, NEW o \in Operatori, operator_loop(o)
  PROVE  Registro!Accade
<1>1. Tipi /\ Tipi' BY TipiOperatore DEF Invariante
<1>2. /\ fatti \in [Voci -> Nat] /\ op \in [Operatori -> LuoghiOperatore]
  BY <1>1 DEF Tipi, TypeOK
<1>3. UNCHANGED <<mensaVars, stats_tot>> BY <1>1, AltroOperatore
<1>4. \/ UNCHANGED fatti
      \/ handle_pause(o)
      \/ OpServe(o)
  BY DEF operator_loop, OpInizia, OpEsce, OpRiceve, OpEsaurito, OpManda,
         update_stats_on_service, OpContinua, TurnoFinito, PausaLegge,
         PausaScrive, conti
<1>5. \A v \in Voci : fatti'[v] >= fatti[v]
  <2>1. CASE UNCHANGED fatti BY <1>2, <2>1
  <2>2. CASE handle_pause(o) BY <1>2, <2>2 DEF handle_pause, Accade
  <2>3. CASE OpServe(o)
    <3> DEFINE w == ServizioDi(o)[1]
               n == ServizioDi(o)[2]
    <3>1. n \in Nat BY <1>1, <2>3, ServizioTipo DEF OpServe, OpVai
    <3>2. fatti' = [fatti EXCEPT ![w] = @ + n] BY <2>3 DEF OpServe, Accade
    <3> HIDE DEF w, n
    <3> QED BY <1>2, <3>1, <3>2
  <2> QED BY <1>4, <2>1, <2>2, <2>3
<1>6. ~Aperti => UNCHANGED fatti
  <2> SUFFICES ASSUME ~Aperti PROVE UNCHANGED fatti OBVIOUS
  <2>1. op[o] \in {"day_start", "uscito", "pausa"}
    BY DEF Invariante, NessunoServe
  <2> QED BY <1>4, <2>1 DEF handle_pause, OpServe, OpVai
<1> QED BY <1>2, <1>3, <1>5, <1>6 DEF Registro!Accade, mensaVars, Aperti

LEMMA PassoResponsabile ==
  ASSUME Invariante, simulate_days
  PROVE  [Registro!Next]_(Registro!rvars)
<1>1. CASE start_new_day
  BY <1>1 DEF start_new_day, MensaVai, Registro!Next, Registro!Riapri
<1>2. CASE ApriGiorno \/ end_day \/ FineAttesa
  BY <1>2 DEF ApriGiorno, end_day, FineAttesa, MensaVai, conti, Registro!rvars
<1>3. CASE stats_update_totals
  <2>1. \A v \in Voci :
          IF v \in {"pause", "serviti", "non_serviti"}
            THEN stats_tot'[v] \in stats_tot[v]..fatti[v]
            ELSE stats_tot'[v] = fatti[v]
    BY <1>3, TotaliEsatti, VociDistinte DEF Esatte
  <2>2. Aperti /\ ~Aperti' /\ UNCHANGED fatti BY <1>3, TotaliEsatti
  <2> QED BY <2>1, <2>2 DEF Aperti, Registro!Next, Registro!Chiudi
<1> QED BY <1>1, <1>2, <1>3 DEF simulate_days

LEMMA PassoRegistrato ==
  Invariante /\ [Next]_vars => [Registro!Next]_(Registro!rvars)
<1> SUFFICES ASSUME Invariante, [Next]_vars
             PROVE  [Registro!Next]_(Registro!rvars)
  OBVIOUS
<1>1. CASE UNCHANGED vars BY <1>1 DEF vars, mensaVars, conti, Registro!rvars
<1> QED
  BY <1>1, PassoUtente, PassoOperatore, PassoResponsabile DEF Next, Registro!Next

\* The accounts are a ledger, for every canteen: every plate served and every
\* plate paid for is in the totals of the day it belongs to, and of the pauses and
\* of the users no total holds more than there were (stats.c:11-31,
\* operatore.c:180 and :273, mensa.c:234-243).
THEOREM ContiTenuti == Spec => ImplementaRegistro
<1>1. Init => Registro!Init
  BY DEF Init, Registro!Init, ZeroVoci
<1> QED
  BY <1>1, InvarianteIniziale, InvarianteInduttivo, PassoRegistrato, PTL
  DEF Spec, ImplementaRegistro, Registro!Spec

=============================================================================
