--------------------------- MODULE BilancioProofs ---------------------------
(***************************************************************************)
(* Theorems about the final statistics, for every number of users and      *)
(* operators, every menu, every number of pauses and of days.  A plate is  *)
(* followed from the station to the till, and a user from the till to the  *)
(* count of the served, over days that close under way.                    *)
(***************************************************************************)
EXTENDS PastoProofs

\* Who may have something in the air at the till: who waits there, and who gave
\* up because the day closed, until the queues are cleared for the next day.
InCassa(u) ==
  \/ ut[u] = "attende" /\ tappa[u] = "cassa"
  \/ /\ mensa \in {"attesa", "chiusura", "reset", "finita"}
     /\ ut[u] \in {"non_servito", "arrivo", "barriera", "day_start", "uscito"}

AllaCassa == {o \in Operatori : StazioneDi[o] = "cassa" /\ op[o] = "risponde"}
Pagato(u) == <<u, 0>> \in risposte["cassa"]

\* A request at the till is the only thing there of its user, and lists the
\* plates that the user has: one at least.
Aspetta(u, h) == InCassa(u) /\ ~Pagato(u) /\ h = ha[u] /\ h # {}

UnoAllaCassa ==
  /\ \A r \in richieste["cassa"] :
       /\ Aspetta(r.utente, r.ha)
       /\ \A o \in AllaCassa : preso[o].utente # r.utente
  /\ \A o \in AllaCassa :
       /\ Aspetta(preso[o].utente, preso[o].ha)
       /\ \A p \in AllaCassa : p # o => preso[p].utente # preso[o].utente
  /\ \A x \in risposte["cassa"] : x[2] = 0 /\ InCassa(x[1])

\* Between the accounts of a day and the next opening nobody is on the way
\* through the stations, and the new day finds the queues empty.
Notte ==
  /\ mensa = "giorno" => simulation_running
  /\ mensa \in {"reset", "finita", "apri"} =>
       /\ \A u \in Utenti : ut[u] \in {"day_start", "uscito", "tavolo", "mangia",
                                       "fatto", "servito", "barriera"}
       /\ \A o \in Operatori : op[o] \in {"day_start", "uscito", "pausa"}
  /\ mensa = "apri" => richieste["cassa"] = {} /\ risposte["cassa"] = {}

\* Past a station, a user has what it still wants of it: nobody reaches the
\* coffee without a first or a second course.
InGiro(u) == ut[u] \in {"sceglie", "attende", "esce"}
Avuto(u, d) == d \in vuole[u] => d \in ha[u]
Vassoio ==
  \A u \in Utenti : InGiro(u) =>
    /\ tappa[u] = "primi" /\ ut[u] = "esce" => Avuto(u, "primi")
    /\ tappa[u] = "secondi" =>
         Avuto(u, "primi") /\ (ut[u] = "esce" => Avuto(u, "secondi"))
    /\ tappa[u] \in {"coffee", "cassa"} => ha[u] \cap Portate # {}

\* Plates answered and not yet taken, plates in the hands of users that have not
\* paid, users that have paid and are not yet counted as served.
DaPagare(u) ==
  \/ InGiro(u) /\ tappa[u] # "cassa"
  \/ ut[u] = "sceglie"
  \/ \E r \in richieste["cassa"] : r.utente = u
  \/ \E o \in AllaCassa : preso[o].utente = u
Servite == {x \in Utenti \X Piatti : <<x[1], 0>> \in risposte[x[2]]}
InMano == {x \in Utenti \X Piatti : DaPagare(x[1]) /\ x[2] \in ha[x[1]]}
Paganti == {u \in Utenti : \/ ut[u] \in {"tavolo", "mangia", "fatto"}
                           \/ ut[u] = "esce" /\ tappa[u] = "cassa"
                           \/ Pagato(u)}

Piatti_fatti == fatti["primi"] + fatti["secondi"] + fatti["coffee"]
PiattiPagati ==
  fatti["ricavo"] + Cardinality(InMano) + Cardinality(Servite) <= Piatti_fatti
ServitiPagati == fatti["serviti"] + Cardinality(Paganti) <= fatti["ricavo"]

Giro == Notte /\ UnoAllaCassa /\ Vassoio
Cibo == Invariante /\ Giro /\ PiattiPagati /\ ServitiPagati

-----------------------------------------------------------------------------
(***************************************************************************)
(* The till, the tray and the night.                                       *)
(***************************************************************************)
LEMMA StazioniDistinte ==
  /\ "cassa" \notin Piatti /\ "cassa" \in Stazioni /\ Piatti \subseteq Stazioni
  /\ Portate \subseteq Piatti /\ "coffee" \notin Portate
BY DEF Piatti, Portate, Stazioni

\* Requests and answers at the till may go, never come; who has one there keeps
\* its place and its plates.
LEMMA CassaCala ==
  ASSUME UnoAllaCassa,
         richieste'["cassa"] \subseteq richieste["cassa"],
         risposte'["cassa"] \subseteq risposte["cassa"],
         AllaCassa' \subseteq AllaCassa,
         \A o \in AllaCassa' : preso'[o] = preso[o],
         \A r \in richieste'["cassa"] :
           InCassa(r.utente)' /\ ha'[r.utente] = ha[r.utente],
         \A o \in AllaCassa' : /\ InCassa(preso[o].utente)'
                               /\ ha'[preso[o].utente] = ha[preso[o].utente],
         \A x \in risposte'["cassa"] : InCassa(x[1])'
  PROVE  UnoAllaCassa'
<1>1. \A w : Pagato(w)' => Pagato(w) BY DEF Pagato
<1>2. \A r \in richieste'["cassa"] :
        /\ Aspetta(r.utente, r.ha)'
        /\ \A o \in AllaCassa' : preso'[o].utente # r.utente
  BY <1>1 DEF UnoAllaCassa, Aspetta
<1>3. \A o \in AllaCassa' :
        /\ Aspetta(preso[o].utente, preso[o].ha)'
        /\ \A p \in AllaCassa' : p # o => preso'[p].utente # preso'[o].utente
  BY <1>1 DEF UnoAllaCassa, Aspetta
<1>4. \A x \in risposte'["cassa"] : x[2] = 0 /\ InCassa(x[1])'
  BY DEF UnoAllaCassa
<1> QED BY <1>2, <1>3, <1>4 DEF UnoAllaCassa, Aspetta

\* A user moves alone.
LEMMA SoloUtente ==
  ASSUME Tipi, NEW u \in Utenti, user_loop(u)
  PROVE  /\ UNCHANGED <<mensaVars, opVars>>
         /\ \A w \in Utenti : w # u =>
              /\ ut'[w] = ut[w] /\ tappa'[w] = tappa[w]
              /\ vuole'[w] = vuole[w] /\ ha'[w] = ha[w]
<1>0. /\ ut \in [Utenti -> LuoghiUtente] /\ tappa \in [Utenti -> Stazioni]
      /\ vuole \in [Utenti -> SUBSET Piatti] /\ ha \in [Utenti -> SUBSET Piatti]
  BY DEF Tipi, TypeOK
<1> QED
  BY <1>0
  DEF user_loop, UtInizia, UtEsce, UtSalta, UtChiede, UtServito, UtRiprova,
      UtSenza, UtInterrotto, UtAvanza, UtTrovaChiuso, UtContaNonServito,
      UtMangia, UtArriva, UtArrivaServito, UtContaServito, UtLasciaBarriera,
      Ricevuta, Arrivato, UtVai, conti

LEMMA NotteUtente ==
  ASSUME Invariante, Giro, NEW u \in Utenti, user_loop(u)
  PROVE  Notte'
<1>0. Tipi BY DEF Invariante
<1>t. ut \in [Utenti -> LuoghiUtente] BY <1>0 DEF Tipi, TypeOK
<1>n. Notte BY DEF Giro
<1>1. UNCHANGED <<mensa, simulation_running, op>>
      /\ \A w \in Utenti : w # u => ut'[w] = ut[w]
  BY <1>0, SoloUtente DEF mensaVars, opVars
<1>2. mensa \in {"reset", "finita", "apri"} =>
        ut'[u] \in {"day_start", "uscito", "tavolo", "mangia", "fatto",
                    "servito", "barriera"}
  <2> SUFFICES ASSUME mensa \in {"reset", "finita", "apri"}
               PROVE  ut'[u] \in {"day_start", "uscito", "tavolo", "mangia",
                                  "fatto", "servito", "barriera"}
    OBVIOUS
  <2>1. /\ ~simulation_running
        /\ ut[u] \in {"day_start", "uscito", "tavolo", "mangia", "fatto",
                      "servito", "barriera"}
    BY <1>n DEF Notte, Invariante, NessunoServe
  <2> QED
    BY <1>t, <2>1
    DEF user_loop, UtInizia, UtEsce, UtSalta, UtChiede, UtServito, UtRiprova,
        UtSenza, UtInterrotto, UtAvanza, UtTrovaChiuso, UtContaNonServito,
        UtMangia, UtArriva, UtArrivaServito, UtContaServito, UtLasciaBarriera,
        UtVai
<1>3. mensa = "apri" => UNCHANGED code
  <2> SUFFICES ASSUME mensa = "apri" PROVE UNCHANGED code OBVIOUS
  <2>1. ut[u] \notin {"sceglie", "attende"} BY <1>n DEF Notte
  <2> QED
    BY <2>1
    DEF user_loop, UtInizia, UtEsce, UtSalta, UtChiede, UtServito, UtRiprova,
        UtSenza, UtInterrotto, UtAvanza, UtTrovaChiuso, UtContaNonServito,
        UtMangia, UtArriva, UtArrivaServito, UtContaServito, UtLasciaBarriera,
        UtVai, Arrivato
<1> QED BY <1>n, <1>1, <1>2, <1>3 DEF Notte, code

LEMMA VassoioUtente ==
  ASSUME Invariante, Giro, NEW u \in Utenti, user_loop(u)
  PROVE  Vassoio'
<1>0. Tipi BY DEF Invariante
<1>t. /\ ut \in [Utenti -> LuoghiUtente] /\ tappa \in [Utenti -> Stazioni]
      /\ vuole \in [Utenti -> SUBSET Piatti] /\ ha \in [Utenti -> SUBSET Piatti]
  BY <1>0 DEF Tipi, TypeOK
<1>v. Vassoio /\ UnoAllaCassa BY DEF Giro
<1>1. \A w \in Utenti : w # u =>
        /\ ut'[w] = ut[w] /\ tappa'[w] = tappa[w]
        /\ vuole'[w] = vuole[w] /\ ha'[w] = ha[w]
  BY <1>0, SoloUtente
<1> DEFINE Suo == InGiro(u) =>
      /\ tappa[u] = "primi" /\ ut[u] = "esce" => Avuto(u, "primi")
      /\ tappa[u] = "secondi" =>
           Avuto(u, "primi") /\ (ut[u] = "esce" => Avuto(u, "secondi"))
      /\ tappa[u] \in {"coffee", "cassa"} => ha[u] \cap Portate # {}
<1>2. Suo'
  <2> USE VociDistinte, StazioniDistinte DEF UtVai, InGiro, Avuto
  <2>0. Suo BY <1>v DEF Vassoio
  <2>1. CASE UtInizia(u) BY <1>t, <2>1 DEF UtInizia
  <2>2. CASE UtSalta(u) BY <1>t, <2>0, <2>2 DEF UtSalta
  <2>3. CASE UtChiede(u) BY <1>t, <2>0, <2>3 DEF UtChiede
  <2>4. CASE UtServito(u) BY <1>t, <2>0, <2>4 DEF UtServito, Ricevuta
  <2>5. CASE UtRiprova(u) BY <1>t, <2>0, <2>5 DEF UtRiprova, Ricevuta
  <2>6. CASE UtSenza(u) BY <1>t, <2>0, <2>6 DEF UtSenza, Ricevuta
  <2>7. CASE UtInterrotto(u) BY <1>t, <2>0, <2>7 DEF UtInterrotto, Portate
  <2>8. CASE UtAvanza(u)
    BY <1>t, <2>0, <2>8 DEF UtAvanza, Prossima, Portate
  <2>9. CASE UtEsce(u) \/ UtTrovaChiuso(u) \/ UtContaNonServito(u) \/ UtMangia(u)
               \/ UtArriva(u) \/ UtArrivaServito(u) \/ UtContaServito(u)
               \/ UtLasciaBarriera(u)
    <3>1. ~InGiro(u)'
      BY <1>t, <2>9
      DEF UtEsce, UtTrovaChiuso, UtContaNonServito, UtMangia, UtArriva,
          UtArrivaServito, UtContaServito, UtLasciaBarriera
    <3> QED BY <3>1
  <2> QED
    BY <2>1, <2>2, <2>3, <2>4, <2>5, <2>6, <2>7, <2>8, <2>9 DEF user_loop
<1> QED BY <1>1, <1>2, <1>v DEF Vassoio, InGiro, Avuto

\* A user that leaves the till with its answer.
UtPagato(u) == UtServito(u) /\ tappa[u] = "cassa"

\* Until it has its answer a user keeps its place at the till, and its plates.
LEMMA RestaInCassa ==
  ASSUME Invariante, Giro, NEW u \in Utenti, user_loop(u), ~UtPagato(u),
         NEW w \in Utenti, InCassa(w)
  PROVE  InCassa(w)' /\ ha'[w] = ha[w]
<1>0. Tipi BY DEF Invariante
<1>t. /\ ut \in [Utenti -> LuoghiUtente] /\ tappa \in [Utenti -> Stazioni]
      /\ ha \in [Utenti -> SUBSET Piatti] /\ mensa \in LuoghiMensa
  BY <1>0 DEF Tipi, TypeOK
<1>1. /\ mensa' = mensa
      /\ w # u => ut'[w] = ut[w] /\ tappa'[w] = tappa[w] /\ ha'[w] = ha[w]
  BY <1>0, SoloUtente DEF mensaVars
<1>2. CASE w # u BY <1>1, <1>2 DEF InCassa
<1>3. CASE w = u
  <2>1. simulation_running => mensa = "giorno" BY DEF Invariante, NessunoServe
  <2>2. ~simulation_running /\ ut[u] = "attende" =>
          mensa \in {"attesa", "chiusura"}
    BY <1>t DEF Giro, Notte, LuoghiMensa
  <2>3. \A x \in risposte["cassa"] : x[2] = 0 BY DEF Giro, UnoAllaCassa
  <2> USE <1>3 DEF InCassa, UtVai
  <2>4. CASE UtInizia(u) BY <2>1, <2>4 DEF UtInizia
  <2>5. CASE UtServito(u)
    <3>1. tappa[u] # "cassa" BY <2>5 DEF UtPagato
    <3> QED BY <2>5, <3>1 DEF UtServito
  <2>6. CASE UtRiprova(u) BY <2>3, <2>6 DEF UtRiprova, Ricevuta
  <2>7. CASE UtSenza(u) BY <2>3, <2>7 DEF UtSenza, Ricevuta
  <2>8. CASE UtInterrotto(u) BY <1>t, <2>2, <2>8, <1>1 DEF UtInterrotto
  <2>9. CASE \/ UtEsce(u) \/ UtSalta(u) \/ UtChiede(u) \/ UtAvanza(u)
             \/ UtTrovaChiuso(u) \/ UtContaNonServito(u) \/ UtMangia(u)
             \/ UtArriva(u) \/ UtArrivaServito(u) \/ UtContaServito(u)
             \/ UtLasciaBarriera(u)
    BY <1>t, <1>1, <2>9
    DEF UtEsce, UtSalta, UtChiede, UtAvanza, UtTrovaChiuso, UtContaNonServito,
        UtMangia, UtArriva, UtArrivaServito, UtContaServito, UtLasciaBarriera,
        Arrivato
  <2> QED BY <2>4, <2>5, <2>6, <2>7, <2>8, <2>9 DEF user_loop
<1> QED BY <1>2, <1>3

LEMMA TipiCassa ==
  ASSUME Tipi
  PROVE  /\ \A r \in richieste["cassa"] : r.utente \in Utenti
         /\ \A o \in AllaCassa : preso[o].utente \in Utenti
         /\ \A x \in risposte["cassa"] :
              x[1] \in Utenti /\ x = <<x[1], x[2]>>
<1>1. /\ richieste["cassa"] \subseteq Richiesta
      /\ risposte["cassa"] \subseteq Utenti \X {0, 1}
  BY StazioniDistinte DEF Tipi, TypeOK
<1>2. \A o \in AllaCassa : preso[o].utente \in Utenti
  BY ServizioTipo DEF AllaCassa
<1> QED BY <1>1, <1>2 DEF Richiesta

LEMMA CassaUtente ==
  ASSUME Invariante, Giro, NEW u \in Utenti, user_loop(u)
  PROVE  UnoAllaCassa'
<1>0. Tipi BY DEF Invariante
<1>c. UnoAllaCassa BY DEF Giro
<1>t. /\ ut \in [Utenti -> LuoghiUtente] /\ tappa \in [Utenti -> Stazioni]
      /\ ha \in [Utenti -> SUBSET Piatti]
      /\ richieste \in [Stazioni -> SUBSET Richiesta]
      /\ risposte \in [Stazioni -> SUBSET (Utenti \X {0, 1})]
  BY <1>0 DEF Tipi, TypeOK
<1>1. /\ UNCHANGED <<mensa, op, preso, AllaCassa>>
      /\ \A w \in Utenti : w # u =>
           ut'[w] = ut[w] /\ tappa'[w] = tappa[w] /\ ha'[w] = ha[w]
  BY <1>0, SoloUtente DEF mensaVars, opVars, AllaCassa
<1>2. CASE UtPagato(u)
  <2>1. /\ ut[u] = "attende" /\ tappa[u] = "cassa" /\ Pagato(u)
        /\ risposte'["cassa"] = risposte["cassa"] \ {<<u, 0>>}
        /\ richieste' = richieste
    BY <1>2, <1>t, StazioniDistinte
    DEF UtPagato, UtServito, Ricevuta, UtVai, Pagato
  <2>2. /\ \A r \in richieste["cassa"] : r.utente # u
        /\ \A o \in AllaCassa : preso[o].utente # u
    BY <1>c, <2>1 DEF UnoAllaCassa, Aspetta
  <2>3. \A x \in risposte'["cassa"] : x[1] # u
    BY <1>0, <1>c, <2>1, TipiCassa DEF UnoAllaCassa
  <2>4. \A w \in Utenti : w # u /\ InCassa(w) =>
          InCassa(w)' /\ ha'[w] = ha[w]
    BY <1>1 DEF InCassa
  <2>5. /\ \A r \in richieste'["cassa"] :
             InCassa(r.utente)' /\ ha'[r.utente] = ha[r.utente]
        /\ \A o \in AllaCassa' : /\ InCassa(preso[o].utente)'
                                /\ ha'[preso[o].utente] = ha[preso[o].utente]
        /\ \A x \in risposte'["cassa"] : InCassa(x[1])'
    BY <1>0, <1>1, <1>c, <2>1, <2>2, <2>3, <2>4, TipiCassa
    DEF UnoAllaCassa, Aspetta
  <2> QED BY <1>1, <1>c, <2>1, <2>5, CassaCala
<1>3. CASE ~UtPagato(u)
  <2>1. \A w \in Utenti : InCassa(w) => InCassa(w)' /\ ha'[w] = ha[w]
    BY <1>3, RestaInCassa
  <2>2. /\ \A r \in richieste["cassa"] :
             InCassa(r.utente)' /\ ha'[r.utente] = ha[r.utente]
        /\ \A o \in AllaCassa' : /\ InCassa(preso[o].utente)'
                                /\ ha'[preso[o].utente] = ha[preso[o].utente]
        /\ \A x \in risposte["cassa"] : InCassa(x[1])'
    BY <1>0, <1>1, <1>c, <2>1, TipiCassa DEF UnoAllaCassa, Aspetta
  <2>3. CASE UtChiede(u) /\ tappa[u] = "cassa"
    <3> DEFINE r == [utente |-> u, ha |-> ha[u]]
    <3>1. /\ ut[u] = "sceglie" /\ ut'[u] = "attende" /\ tappa' = tappa
          /\ richieste'["cassa"] = richieste["cassa"] \cup {r}
          /\ risposte' = risposte /\ ha' = ha
      BY <2>3, <1>t, StazioniDistinte DEF UtChiede, UtVai
    <3>2. InCassa(u)' /\ ~InCassa(u) BY <2>3, <3>1 DEF InCassa
    <3>3. ha[u] # {}
      BY <2>3, <3>1 DEF Giro, Vassoio, InGiro
    <3>4. ~Pagato(u)' /\ \A o \in AllaCassa : preso[o].utente # u
      BY <1>c, <3>1, <3>2 DEF UnoAllaCassa, Pagato, Aspetta
    <3>5. r.utente = u /\ r.ha = ha[u] OBVIOUS
    <3> HIDE DEF r
    <3>6. \A q \in richieste'["cassa"] :
            /\ Aspetta(q.utente, q.ha)'
            /\ \A o \in AllaCassa' : preso'[o].utente # q.utente
      BY <1>1, <1>c, <2>2, <3>1, <3>2, <3>3, <3>4, <3>5
      DEF UnoAllaCassa, Aspetta, Pagato
    <3>7. \A o \in AllaCassa' :
            /\ Aspetta(preso[o].utente, preso[o].ha)'
            /\ \A p \in AllaCassa' : p # o => preso'[p].utente # preso'[o].utente
      BY <1>1, <1>c, <2>2, <3>1 DEF UnoAllaCassa, Aspetta, Pagato
    <3>8. \A x \in risposte'["cassa"] : x[2] = 0 /\ InCassa(x[1])'
      BY <1>c, <2>2, <3>1 DEF UnoAllaCassa
    <3> QED BY <3>6, <3>7, <3>8 DEF UnoAllaCassa, Aspetta
  <2>4. CASE ~(UtChiede(u) /\ tappa[u] = "cassa")
    <3>1. /\ richieste'["cassa"] = richieste["cassa"]
          /\ risposte'["cassa"] \subseteq risposte["cassa"]
      BY <2>4, <1>t, StazioniDistinte
      DEF user_loop, UtInizia, UtEsce, UtSalta, UtChiede, UtServito, UtRiprova,
          UtSenza, UtInterrotto, UtAvanza, UtTrovaChiuso, UtContaNonServito,
          UtMangia, UtArriva, UtArrivaServito, UtContaServito, UtLasciaBarriera,
          Ricevuta, Arrivato, code
    <3> QED BY <1>1, <1>c, <2>2, <3>1, CassaCala
  <2> QED BY <2>3, <2>4
<1> QED BY <1>2, <1>3

LEMMA GiroUtente ==
  ASSUME Invariante, Giro, NEW u \in Utenti, user_loop(u)
  PROVE  Giro'
BY NotteUtente, VassoioUtente, CassaUtente DEF Giro

\* An operator moves alone, and leaves the users where they are.
LEMMA SoloOperatore ==
  ASSUME Tipi, NEW o \in Operatori, operator_loop(o)
  PROVE  /\ UNCHANGED <<mensa, simulation_running, ut, tappa, vuole, ha>>
         /\ \A p \in Operatori : p # o => op'[p] = op[p] /\ preso'[p] = preso[p]
<1>0. /\ op \in [Operatori -> LuoghiOperatore]
      /\ preso \in [Operatori -> Richiesta \cup {Nessuno}]
  BY DEF Tipi, TypeOK
<1> QED
  BY <1>0
  DEF operator_loop, OpInizia, OpEsce, OpRiceve, OpServe, OpEsaurito, OpManda,
      update_stats_on_service, OpContinua, TurnoFinito, handle_pause,
      PausaLegge, PausaScrive, OpVai, FuoriPause, mensaVars, utVars

\* What each step of an operator does to the till: nothing, unless it takes a
\* request there or answers it.
LEMMA PassiAllaCassa ==
  ASSUME Tipi, NEW o \in Operatori, operator_loop(o)
  PROVE  \/ /\ richieste'["cassa"] = richieste["cassa"]
            /\ risposte'["cassa"] = risposte["cassa"]
            /\ AllaCassa' = AllaCassa
            /\ \A p \in AllaCassa' : preso'[p] = preso[p]
         \/ StazioneDi[o] = "cassa" /\ (OpRiceve(o) \/ OpServe(o))
<1>0. /\ op \in [Operatori -> LuoghiOperatore]
      /\ preso \in [Operatori -> Richiesta \cup {Nessuno}]
      /\ richieste \in [Stazioni -> SUBSET Richiesta]
      /\ risposte \in [Stazioni -> SUBSET (Utenti \X {0, 1})]
      /\ StazioneDi[o] \in Stazioni
  BY CostantiPasto DEF Tipi, TypeOK
<1>1. \A p \in Operatori : p # o => op'[p] = op[p] /\ preso'[p] = preso[p]
  BY SoloOperatore
<1>2. CASE StazioneDi[o] # "cassa"
  <2>1. /\ richieste'["cassa"] = richieste["cassa"]
        /\ risposte'["cassa"] = risposte["cassa"]
    BY <1>0, <1>2, StazioniDistinte
    DEF operator_loop, OpInizia, OpEsce, OpRiceve, OpServe, OpEsaurito, OpManda,
        update_stats_on_service, OpContinua, TurnoFinito, handle_pause,
        PausaLegge, PausaScrive, FuoriPause, code
  <2>2. o \notin AllaCassa /\ o \notin AllaCassa'
    BY <1>2 DEF AllaCassa
  <2>3. AllaCassa' = AllaCassa
    BY <1>1, <2>2 DEF AllaCassa
  <2>4. \A p \in AllaCassa' : p \in Operatori /\ p # o BY <2>2 DEF AllaCassa
  <2> QED BY <1>1, <2>1, <2>3, <2>4
<1>3. CASE StazioneDi[o] = "cassa" /\ ~OpRiceve(o) /\ ~OpServe(o)
  <2>1. /\ UNCHANGED code
        /\ op[o] # "risponde" /\ op'[o] # "risponde"
    BY <1>0, <1>3, StazioniDistinte
    DEF operator_loop, OpInizia, OpEsce, OpEsaurito, update_stats_on_service,
        OpContinua, TurnoFinito, handle_pause, PausaLegge, PausaScrive,
        FuoriPause, OpVai
  <2>2. o \notin AllaCassa /\ o \notin AllaCassa'
    BY <2>1 DEF AllaCassa
  <2>3. AllaCassa' = AllaCassa
    BY <1>1, <2>2 DEF AllaCassa
  <2>4. \A p \in AllaCassa' : p \in Operatori /\ p # o BY <2>2 DEF AllaCassa
  <2> QED BY <1>1, <2>1, <2>3, <2>4 DEF code
<1> QED BY <1>2, <1>3

\* The two steps at the till, spelled out.
LEMMA RicevutoAllaCassa ==
  ASSUME Tipi, NEW o \in Operatori, StazioneDi[o] = "cassa", OpRiceve(o)
  PROVE  \E r \in richieste["cassa"] :
           /\ richieste'["cassa"] = richieste["cassa"] \ {r}
           /\ AllaCassa' = AllaCassa \cup {o} /\ o \notin AllaCassa
           /\ preso'[o] = r
           /\ \A p \in AllaCassa : p # o /\ preso'[p] = preso[p]
           /\ UNCHANGED <<risposte, ut, tappa, ha, mensa, fatti>>
<1>0. /\ op \in [Operatori -> LuoghiOperatore]
      /\ preso \in [Operatori -> Richiesta \cup {Nessuno}]
      /\ richieste \in [Stazioni -> SUBSET Richiesta]
  BY DEF Tipi, TypeOK
<1>1. PICK r \in richieste["cassa"] :
        /\ richieste' = [richieste EXCEPT !["cassa"] = @ \ {r}]
        /\ preso' = [preso EXCEPT ![o] = r]
  BY DEF OpRiceve
<1>2. op[o] = "turno" /\ op' = [op EXCEPT ![o] = "risponde"]
      /\ UNCHANGED <<risposte, ut, tappa, ha, mensa, fatti>>
  BY DEF OpRiceve, OpVai, mensaVars, utVars, conti
<1>3. AllaCassa' = AllaCassa \cup {o} /\ o \notin AllaCassa
  BY <1>0, <1>2 DEF AllaCassa
<1>4. \A p \in AllaCassa : p \in Operatori /\ p # o
  BY <1>3 DEF AllaCassa
<1> QED BY <1>0, <1>1, <1>2, <1>3, <1>4, StazioniDistinte

LEMMA ServitoAllaCassa ==
  ASSUME Tipi, NEW o \in Operatori, StazioneDi[o] = "cassa", OpServe(o)
  PROVE  /\ o \in AllaCassa /\ AllaCassa' = AllaCassa \ {o}
         /\ risposte'["cassa"] = risposte["cassa"] \cup {<<preso[o].utente, 0>>}
         /\ \A s \in Piatti : risposte'[s] = risposte[s]
         /\ fatti' = [fatti EXCEPT !["ricavo"] = @ + Cardinality(preso[o].ha)]
         /\ UNCHANGED <<richieste, preso, ut, tappa, ha, mensa>>
<1>0. /\ op \in [Operatori -> LuoghiOperatore]
      /\ risposte \in [Stazioni -> SUBSET (Utenti \X {0, 1})]
  BY DEF Tipi, TypeOK
<1>1. op[o] = "risponde" /\ op' = [op EXCEPT ![o] = "aggiorna"]
  BY DEF OpServe, OpVai
<1>2. o \in AllaCassa /\ AllaCassa' = AllaCassa \ {o}
  BY <1>0, <1>1 DEF AllaCassa
<1>3. fatti' = [fatti EXCEPT !["ricavo"] = @ + Cardinality(preso[o].ha)]
  BY DEF OpServe, Accade, ServizioDi
<1>4. UNCHANGED <<richieste, preso, ut, tappa, ha, mensa>>
  BY DEF OpServe, OpManda, mensaVars, utVars
<1>5. /\ risposte'["cassa"] = risposte["cassa"] \cup {<<preso[o].utente, 0>>}
      /\ \A s \in Piatti : risposte'[s] = risposte[s]
  BY <1>0, StazioniDistinte DEF OpServe, OpManda
<1> QED BY <1>2, <1>3, <1>4, <1>5

LEMMA GiroOperatore ==
  ASSUME Invariante, Giro, NEW o \in Operatori, operator_loop(o)
  PROVE  Giro'
<1>0. Tipi /\ Notte /\ UnoAllaCassa /\ Vassoio BY DEF Giro, Invariante
<1>1. UNCHANGED <<mensa, simulation_running, ut, tappa, vuole, ha>>
      /\ \A p \in Operatori : p # o => op'[p] = op[p] /\ preso'[p] = preso[p]
  BY <1>0, SoloOperatore
<1>2. Vassoio' BY <1>0, <1>1 DEF Vassoio, InGiro, Avuto
<1>3. \A w : InCassa(w)' = InCassa(w) BY <1>1 DEF InCassa
<1>4. Notte'
  <2>1. mensa \in {"reset", "finita", "apri"} =>
          /\ op'[o] \in {"day_start", "uscito", "pausa"}
          /\ UNCHANGED code
    <3> SUFFICES ASSUME mensa \in {"reset", "finita", "apri"}
                 PROVE  /\ op'[o] \in {"day_start", "uscito", "pausa"}
                        /\ UNCHANGED code
      OBVIOUS
    <3>1. op[o] \in {"day_start", "uscito", "pausa"} BY <1>0 DEF Notte
    <3>2. ~simulation_running BY DEF Invariante, NessunoServe
    <3>3. op \in [Operatori -> LuoghiOperatore] BY <1>0 DEF Tipi, TypeOK
    <3> QED
      BY <3>1, <3>2, <3>3
      DEF operator_loop, OpInizia, OpEsce, OpRiceve, OpServe, OpEsaurito,
          update_stats_on_service, OpContinua, TurnoFinito, handle_pause,
          PausaLegge, PausaScrive, OpVai, FuoriPause
  <2> QED BY <1>0, <1>1, <2>1 DEF Notte, code
<1>5. UnoAllaCassa'
  <2>1. CASE /\ richieste'["cassa"] = richieste["cassa"]
             /\ risposte'["cassa"] = risposte["cassa"]
             /\ AllaCassa' = AllaCassa
             /\ \A p \in AllaCassa' : preso'[p] = preso[p]
    BY <2>1, <1>0, <1>1, <1>3 DEF UnoAllaCassa, Aspetta, Pagato
  <2>2. CASE StazioneDi[o] = "cassa" /\ OpRiceve(o)
    <3>1. PICK r \in richieste["cassa"] :
            /\ richieste'["cassa"] = richieste["cassa"] \ {r}
            /\ AllaCassa' = AllaCassa \cup {o} /\ o \notin AllaCassa
            /\ preso'[o] = r
            /\ \A p \in AllaCassa : p # o /\ preso'[p] = preso[p]
            /\ UNCHANGED <<risposte, ut, tappa, ha, mensa, fatti>>
      BY <1>0, <2>2, RicevutoAllaCassa
    <3>2. \A w, h : Aspetta(w, h)' = Aspetta(w, h)
      BY <1>3, <3>1 DEF Aspetta, Pagato
    <3>3. \A q \in richieste["cassa"] : q.utente = r.utente => q = r
      <4> SUFFICES ASSUME NEW q \in richieste["cassa"], q.utente = r.utente
                   PROVE  q = r
        OBVIOUS
      <4>1. q.ha = r.ha BY <1>0 DEF UnoAllaCassa, Aspetta
      <4>2. q \in Richiesta /\ r \in Richiesta
        BY <1>0, StazioniDistinte DEF Tipi, TypeOK
      <4> QED BY <4>1, <4>2 DEF Richiesta
    <3>4. \A q \in richieste'["cassa"] :
            /\ Aspetta(q.utente, q.ha)'
            /\ \A p \in AllaCassa' : preso'[p].utente # q.utente
      BY <1>0, <3>1, <3>2, <3>3 DEF UnoAllaCassa
    <3>5. \A p \in AllaCassa' :
            /\ Aspetta(preso[p].utente, preso[p].ha)'
            /\ \A q \in AllaCassa' : q # p => preso'[q].utente # preso'[p].utente
      <4>1. \A p \in AllaCassa : /\ Aspetta(preso[p].utente, preso[p].ha)
                                /\ preso[p].utente # r.utente
        BY <1>0 DEF UnoAllaCassa
      <4>2. Aspetta(r.utente, r.ha) BY <1>0 DEF UnoAllaCassa
      <4>3. \A p \in AllaCassa' :
              Aspetta(preso'[p].utente, preso'[p].ha)
        BY <3>1, <4>1, <4>2
      <4>4. \A p \in AllaCassa' : Aspetta(preso[p].utente, preso[p].ha)'
        BY <1>1, <1>3, <3>1, <4>3 DEF Aspetta, Pagato
      <4>5. \A p \in AllaCassa' : \A q \in AllaCassa' :
              q # p => preso'[q].utente # preso'[p].utente
        BY <1>0, <3>1, <4>1 DEF UnoAllaCassa
      <4> QED BY <4>4, <4>5
    <3>6. \A x \in risposte'["cassa"] : x[2] = 0 /\ InCassa(x[1])'
      BY <1>0, <1>3, <3>1 DEF UnoAllaCassa
    <3> QED BY <3>4, <3>5, <3>6 DEF UnoAllaCassa, Aspetta
  <2>3. CASE StazioneDi[o] = "cassa" /\ OpServe(o)
    <3> DEFINE u == preso[o].utente
    <3>1. /\ o \in AllaCassa /\ AllaCassa' = AllaCassa \ {o}
          /\ risposte'["cassa"] = risposte["cassa"] \cup {<<u, 0>>}
          /\ UNCHANGED <<richieste, preso, ha>>
      BY <1>0, <2>3, ServitoAllaCassa
    <3>2. /\ InCassa(u)
          /\ \A r \in richieste["cassa"] : r.utente # u
          /\ \A p \in AllaCassa' : preso[p].utente # u
      BY <1>0, <3>1 DEF UnoAllaCassa, Aspetta
    <3> HIDE DEF u
    <3>3. \A w, h : w # u => Aspetta(w, h)' = Aspetta(w, h)
      BY <1>3, <3>1 DEF Aspetta, Pagato
    <3>4. \A r \in richieste'["cassa"] :
            /\ Aspetta(r.utente, r.ha)'
            /\ \A p \in AllaCassa' : preso'[p].utente # r.utente
      BY <1>0, <3>1, <3>2, <3>3 DEF UnoAllaCassa
    <3>5. \A p \in AllaCassa' :
            /\ Aspetta(preso[p].utente, preso[p].ha)'
            /\ \A q \in AllaCassa' : q # p => preso'[q].utente # preso'[p].utente
      <4>1. \A p \in AllaCassa' : Aspetta(preso[p].utente, preso[p].ha)
                                 /\ preso[p].utente # u
        BY <1>0, <3>1, <3>2 DEF UnoAllaCassa
      <4>2. \A p \in AllaCassa' : Aspetta(preso[p].utente, preso[p].ha)'
        BY <1>1, <1>3, <3>1, <4>1 DEF Aspetta, Pagato
      <4> QED BY <1>0, <3>1, <4>2 DEF UnoAllaCassa
    <3>6. \A x \in risposte'["cassa"] : x[2] = 0 /\ InCassa(x[1])'
      BY <1>0, <1>3, <3>1, <3>2 DEF UnoAllaCassa
    <3> QED BY <3>4, <3>5, <3>6 DEF UnoAllaCassa, Aspetta
  <2> QED BY <1>0, <2>1, <2>2, <2>3, PassiAllaCassa
<1> QED BY <1>2, <1>4, <1>5 DEF Giro

LEMMA GiroResponsabile ==
  ASSUME Invariante, Giro, simulate_days
  PROVE  Giro'
<1>0. Tipi /\ Notte /\ UnoAllaCassa /\ Vassoio BY DEF Giro, Invariante
<1>1. UNCHANGED <<ut, tappa, vuole, ha, op, preso>> /\ AllaCassa' = AllaCassa
  BY DEF simulate_days, start_new_day, ApriGiorno, end_day, FineAttesa,
         stats_update_totals, AggiornaTotali,
         terminate_simulation, opVars, utVars, AllaCassa
<1>2. Vassoio' BY <1>0, <1>1 DEF Vassoio, InGiro, Avuto
<1>3. CASE start_new_day
  <2>1. mensa = "reset" /\ mensa' = "apri"
        /\ richieste'["cassa"] = {} /\ risposte'["cassa"] = {}
    BY <1>3, StazioniDistinte DEF start_new_day, MensaVai, CodeVuote
  <2>2. Notte' BY <1>0, <1>1, <2>1 DEF Notte
  <2>3. AllaCassa = {} BY <1>0, <2>1 DEF Notte, AllaCassa
  <2>4. UnoAllaCassa' BY <1>1, <2>1, <2>3 DEF UnoAllaCassa
  <2> QED BY <1>2, <2>2, <2>4 DEF Giro
<1>4. CASE ApriGiorno
  <2>1. mensa = "apri" /\ mensa' = "giorno" /\ simulation_running'
        /\ richieste'["cassa"] = {} /\ risposte'["cassa"] = {}
    BY <1>0, <1>4 DEF ApriGiorno, MensaVai, Notte, code
  <2>2. Notte' BY <2>1 DEF Notte
  <2>3. AllaCassa = {} BY <1>0, <2>1 DEF Notte, AllaCassa
  <2>4. UnoAllaCassa' BY <1>1, <2>1, <2>3 DEF UnoAllaCassa
  <2> QED BY <1>2, <2>2, <2>4 DEF Giro
<1>5. CASE end_day \/ FineAttesa \/ stats_update_totals
  <2>1. /\ mensa \in {"giorno", "attesa", "chiusura"}
        /\ mensa' \in {"attesa", "chiusura", "reset", "finita"}
        /\ UNCHANGED code
    BY <1>5
    DEF end_day, FineAttesa, stats_update_totals, AggiornaTotali,
         terminate_simulation, MensaVai
  <2>2. mensa' \in {"reset", "finita"} => Fermi
    BY <1>5
    DEF end_day, FineAttesa, stats_update_totals, AggiornaTotali,
         terminate_simulation, MensaVai
  <2>3. Notte' BY <1>1, <2>1, <2>2 DEF Notte, Fermi
  <2>4. \A w : InCassa(w) => InCassa(w)' BY <1>1, <2>1 DEF InCassa
  <2>5. UnoAllaCassa'
    <3>1. /\ \A r \in richieste["cassa"] : InCassa(r.utente)'
          /\ \A o \in AllaCassa : InCassa(preso[o].utente)'
          /\ \A x \in risposte["cassa"] : InCassa(x[1])'
      BY <1>0, <1>1, <2>4 DEF UnoAllaCassa, Aspetta
    <3> QED BY <1>0, <1>1, <2>1, <3>1, CassaCala DEF code
  <2> QED BY <1>2, <2>3, <2>5 DEF Giro
<1> QED BY <1>3, <1>4, <1>5 DEF simulate_days

LEMMA GiroInduttivo == Invariante /\ Giro /\ [Next]_vars => Giro'
<1> SUFFICES ASSUME Invariante, Giro, [Next]_vars PROVE Giro' OBVIOUS
<1>1. CASE UNCHANGED vars
  <2>1. /\ UNCHANGED <<ut, tappa, vuole, ha, op, preso, mensa, richieste,
                       risposte, simulation_running, AllaCassa>>
    BY <1>1 DEF vars, mensaVars, code, utVars, opVars, AllaCassa
  <2>2. Notte' /\ Vassoio'
    BY <2>1 DEF Giro, Notte, Vassoio, InGiro, Avuto
  <2>3. \A w : InCassa(w) => InCassa(w)' BY <2>1 DEF InCassa
  <2>4. UnoAllaCassa'
    <3>1. /\ \A r \in richieste["cassa"] : InCassa(r.utente)'
          /\ \A o \in AllaCassa : InCassa(preso[o].utente)'
          /\ \A x \in risposte["cassa"] : InCassa(x[1])'
      BY <2>1, <2>3 DEF Giro, UnoAllaCassa, Aspetta
    <3> QED BY <2>1, <3>1, CassaCala DEF Giro
  <2> QED BY <2>2, <2>4 DEF Giro
<1> QED BY <1>1, GiroUtente, GiroOperatore, GiroResponsabile DEF Next

LEMMA GiroIniziale == Init => Giro
<1> SUFFICES ASSUME Init PROVE Giro OBVIOUS
<1>1. Notte BY StazioniDistinte DEF Init, Notte
<1>2. Vassoio BY DEF Init, Vassoio, InGiro
<1>3. UnoAllaCassa
  <2>1. richieste["cassa"] = {} /\ risposte["cassa"] = {}
    BY StazioniDistinte DEF Init
  <2>2. AllaCassa = {} BY DEF Init, AllaCassa
  <2> QED BY <2>1, <2>2 DEF UnoAllaCassa
<1> QED BY <1>1, <1>2, <1>3 DEF Giro

-----------------------------------------------------------------------------
(***************************************************************************)
(* The plates and the users that are counted.                              *)
(***************************************************************************)
LEMMA Cala ==
  ASSUME NEW S, NEW T, IsFiniteSet(S), T \subseteq S
  PROVE  /\ Cardinality(S) \in Nat /\ Cardinality(T) \in Nat
         /\ Cardinality(T) <= Cardinality(S)
BY FS_Subset, FS_CardinalityType

LEMMA CresceDiUno ==
  ASSUME NEW S, NEW T, NEW x, IsFiniteSet(S), T \subseteq S \cup {x}
  PROVE  /\ Cardinality(S) \in Nat /\ Cardinality(T) \in Nat
         /\ Cardinality(T) <= Cardinality(S) + 1
<1>1. /\ IsFiniteSet(S \cup {x}) /\ Cardinality(S) \in Nat
      /\ Cardinality(S \cup {x}) <= Cardinality(S) + 1
      /\ Cardinality(S \cup {x}) \in Nat
  BY FS_AddElement, FS_CardinalityType
<1>2. /\ Cardinality(T) <= Cardinality(S \cup {x}) /\ Cardinality(T) \in Nat
  BY <1>1, Cala
<1> QED BY <1>1, <1>2

LEMMA PerdeTanti ==
  ASSUME NEW S, NEW R, NEW T, IsFiniteSet(S), R \subseteq S, T \subseteq S \ R
  PROVE  /\ Cardinality(S) \in Nat /\ Cardinality(T) \in Nat
         /\ Cardinality(R) \in Nat
         /\ Cardinality(T) + Cardinality(R) <= Cardinality(S)
<1>1. IsFiniteSet(R) /\ S \cap R = R BY FS_Subset
<1>2. /\ IsFiniteSet(S \ R) /\ Cardinality(S) \in Nat /\ Cardinality(R) \in Nat
      /\ Cardinality(S \ R) = Cardinality(S) - Cardinality(R)
  BY <1>1, FS_Difference, FS_CardinalityType
<1>3. Cardinality(T) <= Cardinality(S \ R) /\ Cardinality(T) \in Nat
  BY <1>2, Cala
<1> QED BY <1>2, <1>3

LEMMA PerdeUno ==
  ASSUME NEW S, NEW T, NEW x \in S, IsFiniteSet(S), T \subseteq S \ {x}
  PROVE  /\ Cardinality(S) \in Nat /\ Cardinality(T) \in Nat
         /\ Cardinality(T) + 1 <= Cardinality(S)
BY PerdeTanti, FS_Singleton

LEMMA CiboFinito ==
  /\ IsFiniteSet(InMano) /\ IsFiniteSet(Servite) /\ IsFiniteSet(Paganti)
<1>1. /\ InMano \subseteq Utenti \X Piatti /\ Servite \subseteq Utenti \X Piatti
      /\ Paganti \subseteq Utenti
  BY DEF InMano, Servite, Paganti
<1>2. IsFiniteSet(Utenti \X Piatti)
  BY CostantiPasto, PiattiFiniti, FS_Product
<1> QED BY <1>1, <1>2, CostantiPasto, FS_Subset

LEMMA VociNumeri ==
  ASSUME Tipi
  PROVE  /\ fatti["primi"] \in Nat /\ fatti["secondi"] \in Nat
         /\ fatti["coffee"] \in Nat /\ fatti["ricavo"] \in Nat
         /\ fatti["serviti"] \in Nat
BY Naturali, VociDistinte

\* The books stay balanced when nothing is counted and nothing appears: ...
LEMMA BilancioFermo ==
  ASSUME Tipi, Tipi', PiattiPagati, ServitiPagati,
         \A v \in Esatte \cup {"serviti"} : fatti'[v] = fatti[v],
         InMano' \subseteq InMano, Servite' \subseteq Servite,
         Paganti' \subseteq Paganti
  PROVE  PiattiPagati' /\ ServitiPagati'
<1> DEFINE m == Cardinality(InMano)
           s == Cardinality(Servite)
           p == Cardinality(Paganti)
<1>1. /\ m \in Nat /\ s \in Nat /\ p \in Nat
      /\ m' \in Nat /\ s' \in Nat /\ p' \in Nat
      /\ m' <= m /\ s' <= s /\ p' <= p
  BY CiboFinito, Cala
<1>2. /\ fatti'["primi"] = fatti["primi"] /\ fatti'["secondi"] = fatti["secondi"]
      /\ fatti'["coffee"] = fatti["coffee"] /\ fatti'["ricavo"] = fatti["ricavo"]
      /\ fatti'["serviti"] = fatti["serviti"]
  BY VociDistinte DEF Esatte
<1>3. /\ fatti["ricavo"] + m + s
           <= fatti["primi"] + fatti["secondi"] + fatti["coffee"]
      /\ fatti["serviti"] + p <= fatti["ricavo"]
  BY DEF PiattiPagati, ServitiPagati, Piatti_fatti
<1> HIDE DEF m, s, p
<1>4. /\ fatti'["ricavo"] + m' + s'
           <= fatti'["primi"] + fatti'["secondi"] + fatti'["coffee"]
      /\ fatti'["serviti"] + p' <= fatti'["ricavo"]
  BY <1>1, <1>2, <1>3, VociNumeri
<1> QED BY <1>4 DEF m, s, p, PiattiPagati, ServitiPagati, Piatti_fatti

\* ... no user makes a plate or a payment, ...
LEMMA NienteDalNulla ==
  ASSUME Invariante, Giro, NEW u \in Utenti, user_loop(u),
         ~(UtServito(u) /\ tappa[u] # "cassa")
  PROVE  InMano' \subseteq InMano /\ Servite' \subseteq Servite
<1>0. Tipi BY DEF Invariante
<1>t. /\ ut \in [Utenti -> LuoghiUtente] /\ tappa \in [Utenti -> Stazioni]
      /\ ha \in [Utenti -> SUBSET Piatti]
      /\ richieste \in [Stazioni -> SUBSET Richiesta]
      /\ risposte \in [Stazioni -> SUBSET (Utenti \X {0, 1})]
  BY <1>0 DEF Tipi, TypeOK
<1>1. /\ UNCHANGED <<preso, AllaCassa>>
      /\ \A w \in Utenti : w # u =>
           ut'[w] = ut[w] /\ tappa'[w] = tappa[w] /\ ha'[w] = ha[w]
  BY <1>0, SoloUtente DEF opVars, AllaCassa
<1>2. \A s \in Stazioni : risposte'[s] \subseteq risposte[s]
  BY <1>t
  DEF user_loop, UtInizia, UtEsce, UtSalta, UtChiede, UtServito, UtRiprova,
      UtSenza, UtInterrotto, UtAvanza, UtTrovaChiuso, UtContaNonServito,
      UtMangia, UtArriva, UtArrivaServito, UtContaServito, UtLasciaBarriera,
      Ricevuta, Arrivato, code
<1>3. Servite' \subseteq Servite BY <1>2, StazioniDistinte DEF Servite
<1>4. \A r \in richieste'["cassa"] : r.utente # u => r \in richieste["cassa"]
  BY <1>t, StazioniDistinte
  DEF user_loop, UtInizia, UtEsce, UtSalta, UtChiede, UtServito, UtRiprova,
      UtSenza, UtInterrotto, UtAvanza, UtTrovaChiuso, UtContaNonServito,
      UtMangia, UtArriva, UtArrivaServito, UtContaServito, UtLasciaBarriera,
      Ricevuta, Arrivato, code
<1>5. \A w \in Utenti : w # u /\ DaPagare(w)' => DaPagare(w)
  BY <1>1, <1>4 DEF DaPagare, InGiro
<1>6. ha'[u] = {} \/ (ha'[u] = ha[u] /\ (DaPagare(u)' => DaPagare(u)))
  <2> DEFINE Carico == (InGiro(u) /\ tappa[u] # "cassa") \/ ut[u] = "sceglie"
  <2>0. \A x \in risposte["cassa"] : x[2] = 0 BY DEF Giro, UnoAllaCassa
  <2>1. richieste'["cassa"] = richieste["cassa"] /\ (Carico' => Carico)
          => (DaPagare(u)' => DaPagare(u))
    BY <1>1 DEF DaPagare
  <2> USE <1>t, StazioniDistinte DEF UtVai, InGiro
  <2>2. CASE UtInizia(u) BY <2>2 DEF UtInizia
  <2>3. CASE UtChiede(u)
    BY <2>3 DEF UtChiede, DaPagare
  <2>4. CASE UtServito(u)
    <3>1. tappa[u] = "cassa" /\ tappa' = tappa BY <2>4 DEF UtServito, Ricevuta
    <3> QED BY <2>1, <2>4, <3>1 DEF UtServito, Ricevuta
  <2>5. CASE UtRiprova(u)
    <3>1. tappa[u] # "cassa" BY <2>0, <2>5 DEF UtRiprova, Ricevuta
    <3> QED BY <2>1, <2>5, <3>1 DEF UtRiprova, Ricevuta
  <2>6. CASE UtSenza(u)
    <3>1. tappa[u] # "cassa" BY <2>0, <2>6 DEF UtSenza, Ricevuta
    <3> QED BY <2>1, <2>6, <3>1 DEF UtSenza, Ricevuta
  <2>7. CASE UtSalta(u) BY <2>1, <2>7 DEF UtSalta, code
  <2>8. CASE UtInterrotto(u) BY <2>1, <2>8 DEF UtInterrotto, code, Portate
  <2>9. CASE UtAvanza(u) BY <2>1, <2>9 DEF UtAvanza, code, Prossima
  <2>10. CASE \/ UtEsce(u) \/ UtTrovaChiuso(u) \/ UtContaNonServito(u)
              \/ UtMangia(u) \/ UtArriva(u) \/ UtArrivaServito(u)
              \/ UtContaServito(u) \/ UtLasciaBarriera(u)
    <3>1. ~Carico'
      BY <2>10
      DEF UtEsce, UtTrovaChiuso, UtContaNonServito, UtMangia, UtArriva,
          UtArrivaServito, UtContaServito, UtLasciaBarriera
    <3>2. richieste' = richieste /\ ha' = ha
      BY <2>10
      DEF UtEsce, UtTrovaChiuso, UtContaNonServito, UtMangia, UtArriva,
          UtArrivaServito, UtContaServito, UtLasciaBarriera, Arrivato, code
    <3> QED BY <2>1, <3>1, <3>2
  <2> QED
    BY <2>2, <2>3, <2>4, <2>5, <2>6, <2>7, <2>8, <2>9, <2>10 DEF user_loop
<1>7. InMano' \subseteq InMano
  <2> SUFFICES ASSUME NEW x \in Utenti \X Piatti, DaPagare(x[1])',
                      x[2] \in ha'[x[1]]
               PROVE  DaPagare(x[1]) /\ x[2] \in ha[x[1]]
    BY DEF InMano
  <2>1. x[1] \in Utenti OBVIOUS
  <2>2. CASE x[1] = u BY <1>6, <2>2
  <2>3. CASE x[1] # u BY <1>1, <1>5, <2>1, <2>3
  <2> QED BY <2>2, <2>3
<1> QED BY <1>3, <1>7

LEMMA NessunoPagaDaSe ==
  ASSUME Invariante, Giro, NEW u \in Utenti, user_loop(u)
  PROVE  /\ Paganti' \subseteq Paganti
         /\ UtArrivaServito(u) => u \in Paganti /\ u \notin Paganti'
<1>0. Tipi BY DEF Invariante
<1>t. /\ ut \in [Utenti -> LuoghiUtente] /\ tappa \in [Utenti -> Stazioni]
      /\ risposte \in [Stazioni -> SUBSET (Utenti \X {0, 1})]
  BY <1>0 DEF Tipi, TypeOK
<1>1. \A w \in Utenti : w # u => ut'[w] = ut[w] /\ tappa'[w] = tappa[w]
  BY <1>0, SoloUtente
<1>2. \A s \in Stazioni : risposte'[s] \subseteq risposte[s]
  BY <1>t
  DEF user_loop, UtInizia, UtEsce, UtSalta, UtChiede, UtServito, UtRiprova,
      UtSenza, UtInterrotto, UtAvanza, UtTrovaChiuso, UtContaNonServito,
      UtMangia, UtArriva, UtArrivaServito, UtContaServito, UtLasciaBarriera,
      Ricevuta, Arrivato, code
<1>3. \A w : Pagato(w)' => Pagato(w) BY <1>2, StazioniDistinte DEF Pagato
<1>4. \A w \in Utenti : w # u /\ w \in Paganti' => w \in Paganti
  BY <1>1, <1>3 DEF Paganti
<1> DEFINE Tavola == \/ ut[u] \in {"tavolo", "mangia", "fatto"}
                     \/ ut[u] = "esce" /\ tappa[u] = "cassa"
<1>5. Tavola' => Tavola \/ Pagato(u)
  <2>0. \A x \in risposte["cassa"] : x[2] = 0 BY DEF Giro, UnoAllaCassa
  <2> USE <1>t, StazioniDistinte DEF UtVai
  <2>1. CASE UtInizia(u) BY <2>1 DEF UtInizia
  <2>2. CASE UtServito(u) BY <2>2 DEF UtServito, Ricevuta, Pagato
  <2>3. CASE UtRiprova(u) BY <2>3 DEF UtRiprova
  <2>4. CASE UtSenza(u) BY <2>0, <2>4 DEF UtSenza, Ricevuta
  <2>5. CASE UtInterrotto(u) BY <2>5 DEF UtInterrotto, Portate
  <2>6. CASE UtAvanza(u) BY <2>6 DEF UtAvanza
  <2>7. CASE \/ UtEsce(u) \/ UtSalta(u) \/ UtChiede(u) \/ UtTrovaChiuso(u)
             \/ UtContaNonServito(u) \/ UtMangia(u) \/ UtArriva(u)
             \/ UtArrivaServito(u) \/ UtContaServito(u) \/ UtLasciaBarriera(u)
    BY <2>7
    DEF UtEsce, UtSalta, UtChiede, UtTrovaChiuso, UtContaNonServito, UtMangia,
        UtArriva, UtArrivaServito, UtContaServito, UtLasciaBarriera, Arrivato
  <2> QED BY <2>1, <2>2, <2>3, <2>4, <2>5, <2>6, <2>7 DEF user_loop
<1>6. Paganti' \subseteq Paganti
  BY <1>3, <1>4, <1>5 DEF Paganti
<1>7. ASSUME UtArrivaServito(u)
      PROVE  u \in Paganti /\ u \notin Paganti'
  <2>1. ut[u] = "fatto" /\ ut'[u] = "servito"
    BY <1>7, <1>t DEF UtArrivaServito, UtVai
  <2>2. ~InCassa(u) BY <2>1 DEF InCassa
  <2>3. ~Pagato(u) BY <2>2 DEF Giro, UnoAllaCassa, Pagato
  <2> QED BY <1>3, <2>1, <2>3 DEF Paganti
<1> QED BY <1>6, <1>7

\* The sums of the two inequalities, when a plate changes place, ...
LEMMA SommaPassa ==
  ASSUME NEW r \in Nat, NEW m \in Nat, NEW m1 \in Nat, NEW s \in Nat,
         NEW s1 \in Nat, NEW f \in Nat,
         m1 <= m + 1, s1 + 1 <= s, r + m + s <= f
  PROVE  r + m1 + s1 <= f
OBVIOUS

\* ... and when a user is counted.
LEMMA SommaConta ==
  ASSUME NEW n \in Nat, NEW p \in Nat, NEW p1 \in Nat, NEW r \in Nat,
         p1 + 1 <= p, n + p <= r
  PROVE  n + 1 + p1 <= r
OBVIOUS

LEMMA SommaCala ==
  ASSUME NEW r \in Nat, NEW m \in Nat, NEW m1 \in Nat, NEW s \in Nat,
         NEW s1 \in Nat, NEW f \in Nat, m1 <= m, s1 <= s, r + m + s <= f
  PROVE  r + m1 + s1 <= f
OBVIOUS

LEMMA SommaServe ==
  ASSUME NEW r \in Nat, NEW m \in Nat, NEW s \in Nat, NEW s1 \in Nat,
         NEW f \in Nat, s1 <= s + 1, r + m + s <= f
  PROVE  r + m + s1 <= f + 1
OBVIOUS

LEMMA SommaPaga ==
  ASSUME NEW r \in Nat, NEW n \in Nat, NEW m \in Nat, NEW m1 \in Nat,
         NEW s \in Nat, NEW s1 \in Nat, NEW f \in Nat,
         m1 + n <= m, s1 <= s, r + m + s <= f
  PROVE  r + n + m1 + s1 <= f
OBVIOUS

LEMMA SommaPagante ==
  ASSUME NEW t \in Nat, NEW p \in Nat, NEW p1 \in Nat, NEW r \in Nat,
         NEW n \in Nat, n >= 1, p1 <= p + 1, t + p <= r
  PROVE  t + p1 <= r + n
OBVIOUS

LEMMA BilancioUtente ==
  ASSUME Invariante, Giro, PiattiPagati, ServitiPagati,
         NEW u \in Utenti, user_loop(u)
  PROVE  PiattiPagati' /\ ServitiPagati'
<1>0. Tipi /\ Tipi' BY TipiUtente DEF Invariante
<1>p. /\ Paganti' \subseteq Paganti
      /\ UtArrivaServito(u) => u \in Paganti /\ u \notin Paganti'
  BY NessunoPagaDaSe
<1>n. /\ fatti["primi"] \in Nat /\ fatti["secondi"] \in Nat
      /\ fatti["coffee"] \in Nat /\ fatti["ricavo"] \in Nat
      /\ fatti["serviti"] \in Nat
  BY <1>0, VociNumeri
<1>f. fatti \in [Voci -> Nat] BY <1>0 DEF Tipi, TypeOK
<1>1. CASE UtServito(u) /\ tappa[u] # "cassa"
  <2> DEFINE x == <<u, tappa[u]>>
             m == Cardinality(InMano)
             s == Cardinality(Servite)
             p == Cardinality(Paganti)
  <2>t. /\ ut \in [Utenti -> LuoghiUtente] /\ tappa \in [Utenti -> Stazioni]
        /\ ha \in [Utenti -> SUBSET Piatti]
        /\ risposte \in [Stazioni -> SUBSET (Utenti \X {0, 1})]
    BY <1>0 DEF Tipi, TypeOK
  <2>1. tappa[u] \in Piatti BY <1>1, <2>t DEF Stazioni
  <2>2. /\ <<u, 0>> \in risposte[tappa[u]]
        /\ risposte' = [risposte EXCEPT ![tappa[u]] = @ \ {<<u, 0>>}]
        /\ UNCHANGED <<richieste, tappa, op, preso, fatti>>
        /\ ut[u] = "attende" /\ ut' = [ut EXCEPT ![u] = "esce"]
        /\ ha' = [ha EXCEPT ![u] = @ \cup {tappa[u]}]
    BY <1>1, <2>1, <2>t, StazioniDistinte
    DEF UtServito, Ricevuta, UtVai, opVars, conti
  <2>3. x \in Servite BY <2>1, <2>2 DEF Servite
  <2>4. Servite' \subseteq Servite \ {x}
    <3> SUFFICES ASSUME NEW y \in Utenti \X Piatti,
                        <<y[1], 0>> \in risposte'[y[2]]
                 PROVE  <<y[1], 0>> \in risposte[y[2]] /\ y # x
      BY DEF Servite
    <3>1. y[2] \in Stazioni BY StazioniDistinte
    <3> QED BY <2>2, <2>t, <3>1
  <2>5. InMano' \subseteq InMano \cup {x}
    <3> SUFFICES ASSUME NEW y \in Utenti \X Piatti, y # x,
                        DaPagare(y[1])', y[2] \in ha'[y[1]]
                 PROVE  DaPagare(y[1]) /\ y[2] \in ha[y[1]]
      BY DEF InMano
    <3>1. y[1] \in Utenti /\ y[2] \in Piatti /\ y = <<y[1], y[2]>> OBVIOUS
    <3>2. y[2] \in ha[y[1]] BY <2>2, <2>t, <3>1
    <3>3. CASE y[1] = u BY <1>1, <2>2, <3>2, <3>3 DEF DaPagare, InGiro
    <3>4. CASE y[1] # u
      BY <2>2, <2>t, <3>1, <3>2, <3>4 DEF DaPagare, InGiro, AllaCassa
    <3> QED BY <3>3, <3>4
  <2>6. /\ m \in Nat /\ s \in Nat /\ p \in Nat
        /\ m' \in Nat /\ s' \in Nat /\ p' \in Nat
        /\ m' <= m + 1 /\ s' + 1 <= s /\ p' <= p
    <3> HIDE DEF x
    <3>1. m \in Nat /\ m' \in Nat /\ m' <= m + 1
      BY <2>5, CiboFinito, CresceDiUno
    <3>2. s \in Nat /\ s' \in Nat /\ s' + 1 <= s
      BY <2>3, <2>4, CiboFinito, PerdeUno
    <3>3. p \in Nat /\ p' \in Nat /\ p' <= p
      BY <1>p, CiboFinito, Cala
    <3> QED BY <3>1, <3>2, <3>3
  <2>7. /\ fatti["ricavo"] + m + s
             <= fatti["primi"] + fatti["secondi"] + fatti["coffee"]
        /\ fatti["serviti"] + p <= fatti["ricavo"]
    BY DEF PiattiPagati, ServitiPagati, Piatti_fatti
  <2> HIDE DEF m, s, p
  <2>8. fatti["ricavo"] + m' + s'
          <= fatti["primi"] + fatti["secondi"] + fatti["coffee"]
    <3>1. fatti["primi"] + fatti["secondi"] + fatti["coffee"] \in Nat BY <1>n
    <3> DEFINE r == fatti["ricavo"]
               f == fatti["primi"] + fatti["secondi"] + fatti["coffee"]
    <3>2. /\ r \in Nat /\ f \in Nat /\ r + m + s <= f
          /\ m \in Nat /\ m' \in Nat /\ s \in Nat /\ s' \in Nat
          /\ m' <= m + 1 /\ s' + 1 <= s
      BY <1>n, <2>6, <2>7, <3>1
    <3> HIDE DEF r, f
    <3>3. r + m' + s' <= f BY <3>2, SommaPassa
    <3> QED BY <3>3 DEF r, f
  <2>9. fatti["serviti"] + p' <= fatti["ricavo"] BY <1>n, <2>6, <2>7
  <2> QED BY <2>2, <2>8, <2>9 DEF m, s, p, PiattiPagati, ServitiPagati, Piatti_fatti
<1>2. CASE UtArrivaServito(u)
  <2> DEFINE m == Cardinality(InMano)
             s == Cardinality(Servite)
             p == Cardinality(Paganti)
  <2>0. UtVai(u, "fatto", "servito") BY <1>2 DEF UtArrivaServito
  <2>1. InMano' \subseteq InMano /\ Servite' \subseteq Servite
    BY <1>2, <2>0, NienteDalNulla DEF UtServito, UtVai
  <2>2. u \in Paganti /\ Paganti' \subseteq Paganti \ {u} BY <1>2, <1>p
  <2>3. /\ m \in Nat /\ s \in Nat /\ p \in Nat
        /\ m' \in Nat /\ s' \in Nat /\ p' \in Nat
        /\ m' <= m /\ s' <= s /\ p' + 1 <= p
    <3>1. /\ m \in Nat /\ m' \in Nat /\ m' <= m
          /\ s \in Nat /\ s' \in Nat /\ s' <= s
      BY <2>1, CiboFinito, Cala
    <3>2. p \in Nat /\ p' \in Nat /\ p' + 1 <= p
      BY <2>2, CiboFinito, PerdeUno
    <3> QED BY <3>1, <3>2
  <2>4. /\ fatti'["serviti"] = fatti["serviti"] + 1
        /\ fatti'["primi"] = fatti["primi"]
        /\ fatti'["secondi"] = fatti["secondi"]
        /\ fatti'["coffee"] = fatti["coffee"]
        /\ fatti'["ricavo"] = fatti["ricavo"]
    BY <1>2, <1>f, VociDistinte DEF UtArrivaServito, Accade
  <2>5. /\ fatti["ricavo"] + m + s
             <= fatti["primi"] + fatti["secondi"] + fatti["coffee"]
        /\ fatti["serviti"] + p <= fatti["ricavo"]
    BY DEF PiattiPagati, ServitiPagati, Piatti_fatti
  <2> HIDE DEF m, s, p
  <2>6. fatti["ricavo"] + m' + s'
          <= fatti["primi"] + fatti["secondi"] + fatti["coffee"]
    <3>1. fatti["primi"] + fatti["secondi"] + fatti["coffee"] \in Nat BY <1>n
    <3> QED BY <1>n, <2>3, <2>5, <3>1, SommaCala
  <2>7. fatti["serviti"] + 1 + p' <= fatti["ricavo"]
    BY <1>n, <2>3, <2>5, SommaConta
  <2> QED BY <2>4, <2>6, <2>7 DEF m, s, p, PiattiPagati, ServitiPagati, Piatti_fatti
<1>3. CASE ~(UtServito(u) /\ tappa[u] # "cassa") /\ ~UtArrivaServito(u)
  <2>1. InMano' \subseteq InMano /\ Servite' \subseteq Servite
    BY <1>3, NienteDalNulla
  <2>2. UNCHANGED fatti \/ Accade("non_serviti", 1)
    BY <1>3
    DEF user_loop, UtInizia, UtEsce, UtSalta, UtChiede, UtServito, UtRiprova,
        UtSenza, UtInterrotto, UtAvanza, UtTrovaChiuso, UtContaNonServito,
        UtMangia, UtArriva, UtContaServito, UtLasciaBarriera, Ricevuta, conti
  <2>3. \A v \in Esatte \cup {"serviti"} : fatti'[v] = fatti[v]
    BY <1>f, <2>2, VociDistinte DEF Accade
  <2> QED BY <1>0, <1>p, <2>1, <2>3, BilancioFermo
<1> QED BY <1>1, <1>2, <1>3

\* At the dishes an operator adds a plate to the answers at most.
LEMMA ServiteOperatore ==
  ASSUME Tipi, NEW o \in Operatori, operator_loop(o)
  PROVE  IF OpServe(o) /\ StazioneDi[o] \in Piatti
           THEN Servite' \subseteq Servite \cup {<<preso[o].utente, StazioneDi[o]>>}
           ELSE Servite' \subseteq Servite
<1>0. /\ risposte \in [Stazioni -> SUBSET (Utenti \X {0, 1})]
      /\ StazioneDi[o] \in Stazioni
  BY CostantiPasto DEF Tipi, TypeOK
<1>1. CASE OpServe(o) /\ StazioneDi[o] \in Piatti
  <2> DEFINE x == <<preso[o].utente, StazioneDi[o]>>
  <2>1. SUFFICES ASSUME NEW y \in Utenti \X Piatti, y # x,
                        <<y[1], 0>> \in risposte'[y[2]]
                 PROVE  <<y[1], 0>> \in risposte[y[2]]
    BY <1>1 DEF Servite
  <2>2. y[2] \in Stazioni /\ y = <<y[1], y[2]>> BY StazioniDistinte
  <2>3. risposte' = [risposte EXCEPT ![StazioneDi[o]] =
                       @ \cup {<<preso[o].utente, 0>>}]
    BY <1>1 DEF OpServe, OpManda
  <2>4. CASE y[2] = StazioneDi[o]
    <3>1. y[1] # preso[o].utente BY <2>1, <2>2, <2>4
    <3> QED BY <1>0, <2>1, <2>2, <2>3, <2>4, <3>1
  <2>5. CASE y[2] # StazioneDi[o] BY <1>0, <2>1, <2>2, <2>3, <2>5
  <2> QED BY <2>4, <2>5
<1>2. CASE ~(OpServe(o) /\ StazioneDi[o] \in Piatti)
  <2>1. SUFFICES ASSUME NEW s \in Piatti, NEW u \in Utenti,
                        <<u, 0>> \in risposte'[s]
                 PROVE  <<u, 0>> \in risposte[s]
    BY <1>2 DEF Servite
  <2>2. s \in Stazioni /\ s # "cassa" BY StazioniDistinte
  <2>3. CASE OpServe(o)
    BY <1>0, <1>2, <2>1, <2>2, <2>3, ServitoAllaCassa DEF Stazioni
  <2>4. CASE OpEsaurito(o)
    <3>1. risposte' = [risposte EXCEPT ![StazioneDi[o]] =
                         @ \cup {<<preso[o].utente, 1>>}]
      BY <2>4 DEF OpEsaurito, OpManda
    <3> QED BY <1>0, <2>1, <2>2, <3>1
  <2>5. CASE ~OpServe(o) /\ ~OpEsaurito(o)
    <3>1. risposte' = risposte
      BY <2>5
      DEF operator_loop, OpInizia, OpEsce, OpRiceve, update_stats_on_service,
          OpContinua, TurnoFinito, handle_pause, PausaLegge, PausaScrive,
          FuoriPause, code
    <3> QED BY <2>1, <3>1
  <2> QED BY <2>3, <2>4, <2>5
<1> QED BY <1>1, <1>2

LEMMA BilancioOperatore ==
  ASSUME Invariante, Giro, PiattiPagati, ServitiPagati,
         NEW o \in Operatori, operator_loop(o)
  PROVE  PiattiPagati' /\ ServitiPagati'
<1>0. Tipi /\ Tipi' /\ UnoAllaCassa BY TipiOperatore DEF Invariante, Giro
<1>f. fatti \in [Voci -> Nat] BY <1>0 DEF Tipi, TypeOK
<1>n. /\ fatti["primi"] \in Nat /\ fatti["secondi"] \in Nat
      /\ fatti["coffee"] \in Nat /\ fatti["ricavo"] \in Nat
      /\ fatti["serviti"] \in Nat
  BY <1>0, VociNumeri
<1>1. UNCHANGED <<ut, tappa, ha>> BY <1>0, SoloOperatore
<1> DEFINE m == Cardinality(InMano)
           s == Cardinality(Servite)
           p == Cardinality(Paganti)
<1>c. /\ fatti["ricavo"] + m + s
           <= fatti["primi"] + fatti["secondi"] + fatti["coffee"]
      /\ fatti["serviti"] + p <= fatti["ricavo"]
  BY DEF PiattiPagati, ServitiPagati, Piatti_fatti
<1>2. CASE OpServe(o) /\ StazioneDi[o] \in Piatti
  <2>1. /\ richieste'["cassa"] = richieste["cassa"]
        /\ risposte'["cassa"] = risposte["cassa"]
        /\ AllaCassa' = AllaCassa
        /\ \A q \in AllaCassa' : preso'[q] = preso[q]
    BY <1>0, <1>2, StazioniDistinte, PassiAllaCassa
  <2>2. InMano' = InMano /\ Paganti' = Paganti
    BY <1>1, <2>1 DEF InMano, DaPagare, InGiro, Paganti, Pagato
  <2>3. Servite' \subseteq Servite \cup {<<preso[o].utente, StazioneDi[o]>>}
    BY <1>0, <1>2, ServiteOperatore
  <2>4. s \in Nat /\ s' \in Nat /\ s' <= s + 1
    BY <2>3, CiboFinito, CresceDiUno
  <2>5. m \in Nat /\ p \in Nat /\ m' = m /\ p' = p
    BY <2>2, CiboFinito, FS_CardinalityType
  <2>6. fatti' = [fatti EXCEPT ![StazioneDi[o]] = @ + 1]
    BY <1>2, StazioniDistinte DEF OpServe, Accade, ServizioDi
  <2>7. /\ fatti'["primi"] + fatti'["secondi"] + fatti'["coffee"]
             = fatti["primi"] + fatti["secondi"] + fatti["coffee"] + 1
        /\ fatti'["ricavo"] = fatti["ricavo"]
        /\ fatti'["serviti"] = fatti["serviti"]
    BY <1>2, <1>f, <1>n, <2>6, VociDistinte
  <2>8. fatti["ricavo"] + m + s'
          <= fatti["primi"] + fatti["secondi"] + fatti["coffee"] + 1
    <3> DEFINE r == fatti["ricavo"]
               f == fatti["primi"] + fatti["secondi"] + fatti["coffee"]
    <3>1. /\ r \in Nat /\ f \in Nat /\ r + m + s <= f
          /\ m \in Nat /\ s \in Nat /\ s' \in Nat /\ s' <= s + 1
      BY <1>n, <1>c, <2>4, <2>5
    <3> HIDE DEF r, f, m, s
    <3>2. r + m + s' <= f + 1 BY <3>1, SommaServe
    <3> QED BY <3>2 DEF r, f
  <2> QED
    BY <1>c, <2>5, <2>7, <2>8 DEF PiattiPagati, ServitiPagati, Piatti_fatti
<1>3. CASE OpServe(o) /\ StazioneDi[o] \notin Piatti
  <2>0. StazioneDi[o] = "cassa" BY <1>3, CostantiPasto DEF Stazioni
  <2> DEFINE u == preso[o].utente
             R == {u} \X ha[u]
             n == Cardinality(ha[u])
  <2>1. /\ o \in AllaCassa /\ AllaCassa' = AllaCassa \ {o}
        /\ risposte'["cassa"] = risposte["cassa"] \cup {<<u, 0>>}
        /\ fatti' = [fatti EXCEPT !["ricavo"] = @ + Cardinality(preso[o].ha)]
        /\ UNCHANGED <<richieste, preso>>
    BY <1>0, <1>3, <2>0, ServitoAllaCassa
  <2>2. /\ InCassa(u) /\ preso[o].ha = ha[u] /\ ha[u] # {}
        /\ \A r \in richieste["cassa"] : r.utente # u
        /\ \A q \in AllaCassa' : preso[q].utente # u
    BY <1>0, <2>1 DEF UnoAllaCassa, Aspetta
  <2>3. u \in Utenti /\ ha[u] \in SUBSET Piatti
    BY <1>0, <2>1, TipiCassa DEF Tipi, TypeOK
  <2>4. R \subseteq InMano BY <2>1, <2>3 DEF InMano, DaPagare
  <2>5. InMano' \subseteq InMano \ R
    <3>1. \A w \in Utenti : DaPagare(w)' => DaPagare(w) /\ w # u
      BY <1>1, <2>1, <2>2 DEF DaPagare, InGiro, InCassa
    <3> QED BY <1>1, <3>1 DEF InMano
  <2>6. Paganti' \subseteq Paganti \cup {u}
    BY <1>1, <2>1 DEF Paganti, Pagato
  <2>7. Servite' \subseteq Servite BY <1>0, <1>3, ServiteOperatore
  <2>8. n \in Nat /\ n >= 1 /\ Cardinality(R) = n
    <3>1. IsFiniteSet(ha[u]) /\ n \in Nat BY <2>3, PiattiFiniti
    <3>2. n # 0 BY <2>2, <3>1, FS_EmptySet
    <3>3. IsFiniteSet({u}) /\ Cardinality({u}) = 1 BY FS_Singleton
    <3>4. Cardinality(R) = 1 * n BY <3>1, <3>3, FS_Product
    <3> QED BY <3>1, <3>2, <3>4
  <2>9. /\ m \in Nat /\ s \in Nat /\ p \in Nat
        /\ m' \in Nat /\ s' \in Nat /\ p' \in Nat
        /\ m' + n <= m /\ s' <= s /\ p' <= p + 1
    <3>1. m \in Nat /\ m' \in Nat /\ m' + Cardinality(R) <= m
      BY <2>4, <2>5, CiboFinito, PerdeTanti
    <3>2. s \in Nat /\ s' \in Nat /\ s' <= s BY <2>7, CiboFinito, Cala
    <3>3. p \in Nat /\ p' \in Nat /\ p' <= p + 1
      BY <2>6, CiboFinito, CresceDiUno
    <3> QED BY <2>8, <3>1, <3>2, <3>3
  <2>10. /\ fatti'["ricavo"] = fatti["ricavo"] + n
         /\ fatti'["primi"] = fatti["primi"]
         /\ fatti'["secondi"] = fatti["secondi"]
         /\ fatti'["coffee"] = fatti["coffee"]
         /\ fatti'["serviti"] = fatti["serviti"]
    BY <1>f, <2>1, <2>2, VociDistinte
  <2>11. /\ fatti["ricavo"] + n + m' + s'
              <= fatti["primi"] + fatti["secondi"] + fatti["coffee"]
         /\ fatti["serviti"] + p' <= fatti["ricavo"] + n
    <3> DEFINE r == fatti["ricavo"]
               f == fatti["primi"] + fatti["secondi"] + fatti["coffee"]
               t == fatti["serviti"]
    <3>1. /\ r \in Nat /\ f \in Nat /\ t \in Nat
          /\ r + m + s <= f /\ t + p <= r
      BY <1>n, <1>c
    <3>n. /\ n \in Nat /\ m \in Nat /\ m' \in Nat /\ s \in Nat /\ s' \in Nat
          /\ m' + n <= m /\ s' <= s
      BY <2>8, <2>9
    <3> HIDE DEF r, f, t, m, s, p, n
    <3>2. r + n + m' + s' <= f BY <3>1, <3>n, SommaPaga
    <3>3. t + p' <= r + n BY <2>8, <2>9, <3>1, SommaPagante
    <3> QED BY <3>2, <3>3 DEF r, f, t
  <2> QED
    BY <2>10, <2>11 DEF PiattiPagati, ServitiPagati, Piatti_fatti
<1>4. CASE ~OpServe(o)
  <2>1. Servite' \subseteq Servite BY <1>0, <1>4, ServiteOperatore
  <2>2. UNCHANGED fatti \/ Accade("pause", 1)
    BY <1>4
    DEF operator_loop, OpInizia, OpEsce, OpRiceve, OpEsaurito, OpManda,
        update_stats_on_service, OpContinua, TurnoFinito, handle_pause,
        PausaLegge, PausaScrive, conti
  <2>3. \A v \in Esatte \cup {"serviti"} : fatti'[v] = fatti[v]
    BY <1>f, <2>2, VociDistinte DEF Accade
  <2>4. InMano' \subseteq InMano /\ Paganti' \subseteq Paganti
    <3>1. CASE /\ richieste'["cassa"] = richieste["cassa"]
               /\ risposte'["cassa"] = risposte["cassa"]
               /\ AllaCassa' = AllaCassa
               /\ \A q \in AllaCassa' : preso'[q] = preso[q]
      BY <1>1, <3>1 DEF InMano, DaPagare, InGiro, Paganti, Pagato
    <3>2. CASE StazioneDi[o] = "cassa" /\ OpRiceve(o)
      <4>1. PICK r \in richieste["cassa"] :
              /\ richieste'["cassa"] = richieste["cassa"] \ {r}
              /\ AllaCassa' = AllaCassa \cup {o} /\ o \notin AllaCassa
              /\ preso'[o] = r
              /\ \A q \in AllaCassa : q # o /\ preso'[q] = preso[q]
              /\ UNCHANGED <<risposte, ut, tappa, ha, mensa, fatti>>
        BY <1>0, <3>2, RicevutoAllaCassa
      <4>2. \A w : DaPagare(w)' => DaPagare(w)
        BY <4>1 DEF DaPagare, InGiro
      <4> QED BY <4>1, <4>2 DEF InMano, Paganti, Pagato
    <3> QED BY <1>0, <1>4, <3>1, <3>2, PassiAllaCassa
  <2> QED BY <1>0, <2>1, <2>3, <2>4, BilancioFermo
<1> QED BY <1>2, <1>3, <1>4

\* The manager clears answers nobody will take, and counts nothing.
LEMMA BilancioResponsabile ==
  ASSUME Invariante, Giro, PiattiPagati, ServitiPagati, simulate_days
  PROVE  PiattiPagati' /\ ServitiPagati'
<1>0. Tipi /\ Tipi' BY TipiResponsabile DEF Invariante
<1>1. UNCHANGED <<ut, tappa, ha, op, preso, fatti>> /\ AllaCassa' = AllaCassa
  BY DEF simulate_days, start_new_day, ApriGiorno, end_day, FineAttesa,
         stats_update_totals, AggiornaTotali,
         terminate_simulation, opVars, utVars, conti, AllaCassa
<1>2. \A s \in Stazioni : /\ richieste'[s] \subseteq richieste[s]
                          /\ risposte'[s] \subseteq risposte[s]
  BY DEF simulate_days, start_new_day, ApriGiorno, end_day, FineAttesa,
         stats_update_totals, AggiornaTotali,
         terminate_simulation, code, CodeVuote
<1>3. Servite' \subseteq Servite BY <1>2, StazioniDistinte DEF Servite
<1>4. InMano' \subseteq InMano
  BY <1>1, <1>2, StazioniDistinte DEF InMano, DaPagare, InGiro
<1>5. Paganti' \subseteq Paganti
  BY <1>1, <1>2, StazioniDistinte DEF Paganti, Pagato
<1> QED BY <1>0, <1>1, <1>3, <1>4, <1>5, BilancioFermo

LEMMA CiboIniziale == Init => Cibo
<1> SUFFICES ASSUME Init PROVE Cibo OBVIOUS
<1>1. Invariante /\ Giro BY InvarianteIniziale, GiroIniziale
<1>2. InMano = {} BY DEF Init, InMano
<1>3. Servite = {} BY StazioniDistinte DEF Init, Servite
<1>4. Paganti = {} BY StazioniDistinte DEF Init, Paganti, Pagato
<1>5. \A v \in Voci : fatti[v] = 0 BY DEF Init, ZeroVoci
<1>6. PiattiPagati /\ ServitiPagati
  BY <1>2, <1>3, <1>4, <1>5, FS_EmptySet, VociDistinte
  DEF PiattiPagati, ServitiPagati, Piatti_fatti
<1> QED BY <1>1, <1>6 DEF Cibo

LEMMA CiboInduttivo == Cibo /\ [Next]_vars => Cibo'
<1> SUFFICES ASSUME Cibo, [Next]_vars PROVE Cibo' OBVIOUS
<1>1. Invariante /\ Giro /\ PiattiPagati /\ ServitiPagati BY DEF Cibo
<1>2. Invariante' /\ Giro' BY <1>1, InvarianteInduttivo, GiroInduttivo
<1>3. CASE UNCHANGED vars
  <2>1. UNCHANGED <<ut, tappa, ha, op, preso, fatti, richieste, risposte>>
    BY <1>3 DEF vars, code, utVars, opVars, conti
  <2>2. InMano' = InMano /\ Servite' = Servite /\ Paganti' = Paganti
    BY <2>1 DEF InMano, DaPagare, InGiro, AllaCassa, Servite, Paganti, Pagato
  <2>3. PiattiPagati' /\ ServitiPagati'
    BY <1>1, <2>1, <2>2 DEF PiattiPagati, ServitiPagati, Piatti_fatti
  <2> QED BY <1>2, <2>3 DEF Cibo
<1>4. CASE Next
  <2>1. PiattiPagati' /\ ServitiPagati'
    BY <1>1, <1>4, BilancioUtente, BilancioOperatore, BilancioResponsabile
    DEF Next
  <2> QED BY <1>2, <2>1 DEF Cibo
<1> QED BY <1>3, <1>4

-----------------------------------------------------------------------------
(***************************************************************************)
(* The final statistics.                                                   *)
(***************************************************************************)
\* The totals change when a day is closed, and then they are what was served,
\* paid for and - at most - the users that came back from the table.
LEMMA BilancioPasso ==
  Cibo /\ BilancioTotali /\ [Next]_vars => BilancioTotali'
<1> SUFFICES ASSUME Cibo, BilancioTotali, [Next]_vars PROVE BilancioTotali'
  OBVIOUS
<1>0. Invariante /\ Tipi /\ PiattiPagati /\ ServitiPagati
  BY DEF Cibo, Invariante
<1>1. CASE stats_tot' = stats_tot
  BY <1>1 DEF BilancioTotali, Piatti_tot
<1>2. CASE stats_update_totals
  <2>1. /\ \A v \in Esatte : stats_tot'[v] = fatti[v]
        /\ stats_tot'["serviti"] \in stats_tot["serviti"]..fatti["serviti"]
    BY <1>0, <1>2, TotaliEsatti
  <2>2. /\ stats_tot'["primi"] = fatti["primi"]
        /\ stats_tot'["secondi"] = fatti["secondi"]
        /\ stats_tot'["coffee"] = fatti["coffee"]
        /\ stats_tot'["ricavo"] = fatti["ricavo"]
    BY <2>1, VociDistinte DEF Esatte
  <2>3. /\ fatti["primi"] \in Nat /\ fatti["secondi"] \in Nat
        /\ fatti["coffee"] \in Nat /\ fatti["ricavo"] \in Nat
        /\ fatti["serviti"] \in Nat /\ stats_tot["serviti"] \in Nat
    BY <1>0, VociNumeri, Naturali, VociDistinte
  <2>4. /\ Cardinality(InMano) \in Nat /\ Cardinality(Servite) \in Nat
        /\ Cardinality(Paganti) \in Nat
    BY CiboFinito, FS_CardinalityType
  <2>5. fatti["ricavo"] <= fatti["primi"] + fatti["secondi"] + fatti["coffee"]
    BY <1>0, <2>3, <2>4 DEF PiattiPagati, Piatti_fatti
  <2>6. fatti["serviti"] <= fatti["ricavo"]
    BY <1>0, <2>3, <2>4 DEF ServitiPagati
  <2>7. stats_tot'["serviti"] <= fatti["ricavo"]
    BY <2>1, <2>3, <2>6
  <2> QED BY <2>2, <2>5, <2>7 DEF BilancioTotali, Piatti_tot
<1>3. stats_tot' = stats_tot \/ stats_update_totals
  <2>1. CASE UNCHANGED vars BY <2>1 DEF vars, conti
  <2>2. CASE simulate_days
    BY <2>2 DEF simulate_days, start_new_day, ApriGiorno, end_day, FineAttesa,
                conti
  <2>3. ASSUME NEW u \in Utenti, user_loop(u) PROVE stats_tot' = stats_tot
    BY <1>0, <2>3, EffettoUtente
  <2>4. ASSUME NEW o \in Operatori, operator_loop(o) PROVE stats_tot' = stats_tot
    BY <1>0, <2>4, AltroOperatore
  <2> QED BY <2>1, <2>2, <2>3, <2>4 DEF Next
<1> QED BY <1>1, <1>2, <1>3

\* The final statistics agree with each other, for every canteen: no plate is
\* paid for that was not served at a station, and nobody is counted as served
\* who has not paid for a plate (operatore.c:339-349, stats.c:70) - however the
\* days close on users between the station, the till and the table, and although
\* the totals of a day may miss users that are still eating (mensa.c:234).
THEOREM TotaliSempreInPari == Spec => []BilancioTotali
<1>1. Init => BilancioTotali
  BY VociDistinte DEF Init, ZeroVoci, BilancioTotali, Piatti_tot
<1> QED BY <1>1, CiboIniziale, CiboInduttivo, BilancioPasso, PTL DEF Spec

=============================================================================
