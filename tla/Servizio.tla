------------------------------ MODULE Servizio ------------------------------
(***************************************************************************)
(* One station that distributes dishes (first or second courses), seen     *)
(* through the messages and the portions: serve_user (src/operatore.c),    *)
(* try_all_dishes_of_type and go_to_station (src/utente.c), the refills    *)
(* (src/stations.c) and clear_message_queues (src/mensa.c).  Requests and  *)
(* answers travel on one System V queue: requests have mtype 1 and are     *)
(* taken in order, the answers to user u have mtype u + 10000 and are      *)
(* taken in order by u.  Of the day only simulation_running is kept: a     *)
(* process is "fuori" when it is not between its sem_day_start and the end *)
(* of its day, which Giornata models.                                      *)
(***************************************************************************)
EXTENDS Integers, FiniteSets, Sequences

CONSTANTS
  Utenti, Operatori, Piatti,
  AVGREFILL,     \* portions of each dish when the day begins
  MAXPORZIONI,   \* the periodic refill stops there
  Rifornimenti,  \* bound: periodic refills in a day
  Giorni,        \* bound: days
  Capacita,      \* messages that fit in the queue
  Nessuna,       \* no request
  Puntuale       \* TRUE: a day is opened when everybody has left the last

ASSUME CostantiServizio ==
  /\ IsFiniteSet(Utenti) /\ IsFiniteSet(Operatori)
  /\ AVGREFILL \in Nat \ {0} /\ MAXPORZIONI \in Nat
  /\ Rifornimenti \in Nat /\ Giorni \in Nat \ {0}
  /\ Capacita \in Nat \ {0}
  /\ Puntuale \in BOOLEAN

\* No message of the code carries its day: "giorno" is history.
Richiesta == [utente : Utenti, piatto : Piatti, giorno : 1..Giorni]

\* esito 0: the dish; 1: "piatto terminato"; 2, "nessun piatto disponibile" of
\* shared_structs.h:27, is never sent.  piatto and giorno are history.
Risposta == [esito : {0, 1}, piatto : Piatti, giorno : 1..Giorni]

ASSUME NessunaNonRichiesta == Nessuna \notin Richiesta

VARIABLES
  simulation_running,
  giorno,
  mensa,        \* where the manager stands
  da_rifornire, \* dishes the current refill has still to look at
  in_refill,    \* the dish it is looking at
  letto_refill, \* the register of its porzioni[i]++
  rifornimenti, \* refills of the day
  richieste,    \* messages of mtype 1, in order
  risposte,     \* for each user, messages of mtype user + 10000, in order
  porzioni,     \* st->porzioni
  op,           \* where each operator stands in serve_user
  req,          \* the request it has received
  letto,        \* the register of its porzioni[...]--
  ut,           \* where each user stands
  piatto,       \* the dish it is asking for
  provati,      \* the dishes it has asked for today
  conto         \* history: portions put in less portions given, per dish

mensaVars == <<simulation_running, giorno, mensa, da_rifornire, in_refill,
               letto_refill, rifornimenti>>
codaVars  == <<richieste, risposte>>
opVars    == <<op, req, letto>>
utVars    == <<ut, piatto, provati>>
cibo      == <<porzioni, conto>>
vars      == <<mensaVars, codaVars, opVars, utVars, cibo>>

LuoghiMensa == {"apre", "giorno", "controlla", "leggi", "scrivi", "chiuso",
                "riempi"}
LuoghiOperatore == {"fuori", "turno", "riceve", "lock", "leggi", "scrivi",
                    "serve", "esaurito"}
LuoghiUtente == {"fuori", "prova", "invia", "attende", "riceve", "servito",
                 "senza"}

Init ==
  /\ simulation_running = FALSE
  /\ giorno = 1
  /\ mensa = "apre"
  /\ da_rifornire = {}
  /\ in_refill \in Piatti
  /\ letto_refill = 0
  /\ rifornimenti = 0
  /\ richieste = <<>>
  /\ risposte = [u \in Utenti |-> <<>>]
  /\ porzioni = [p \in Piatti |-> AVGREFILL]
  /\ op = [o \in Operatori |-> "fuori"]
  /\ req = [o \in Operatori |-> Nessuna]
  /\ letto = [o \in Operatori |-> 0]
  /\ ut = [u \in Utenti |-> "fuori"]
  /\ piatto \in [Utenti -> Piatti]
  /\ provati = [u \in Utenti |-> {}]
  /\ conto = [p \in Piatti |-> AVGREFILL]

-----------------------------------------------------------------------------
(***************************************************************************)
(* The queue.                                                              *)
(***************************************************************************)
InCoda == Len(richieste)
            + Cardinality(UNION {{u} \X (1..Len(risposte[u])) : u \in Utenti})

\* msgsnd blocks while the queue is full
SpazioInCoda == InCoda < Capacita

-----------------------------------------------------------------------------
(***************************************************************************)
(* The manager.                                                            *)
(***************************************************************************)
Fermi == /\ \A o \in Operatori : op[o] = "fuori"
         /\ \A u \in Utenti : ut[u] = "fuori"

ApriGiorno ==
  /\ mensa = "apre"
  /\ simulation_running' = TRUE
  /\ mensa' = "giorno"
  /\ UNCHANGED <<giorno, da_rifornire, in_refill, letto_refill, rifornimenti,
                 codaVars, opVars, utVars, cibo>>

\* stations_refill_periodic: a loop over the dishes, without the mutex of the
\* station; "porzioni[i]++" is a load and a store
RefillInizia ==
  /\ mensa = "giorno"
  /\ rifornimenti < Rifornimenti
  /\ rifornimenti' = rifornimenti + 1
  /\ da_rifornire' = Piatti
  /\ mensa' = "controlla"
  /\ UNCHANGED <<simulation_running, giorno, in_refill, letto_refill, codaVars,
                 opVars, utVars, cibo>>

RefillControlla(p) ==
  /\ mensa = "controlla"
  /\ p \in da_rifornire
  /\ in_refill' = p
  /\ da_rifornire' = da_rifornire \ {p}
  /\ mensa' = IF porzioni[p] < MAXPORZIONI THEN "leggi" ELSE "controlla"
  /\ UNCHANGED <<simulation_running, giorno, letto_refill, rifornimenti,
                 codaVars, opVars, utVars, cibo>>

RefillLegge ==
  /\ mensa = "leggi"
  /\ letto_refill' = porzioni[in_refill]
  /\ mensa' = "scrivi"
  /\ UNCHANGED <<simulation_running, giorno, da_rifornire, in_refill,
                 rifornimenti, codaVars, opVars, utVars, cibo>>

RefillScrive ==
  /\ mensa = "scrivi"
  /\ porzioni' = [porzioni EXCEPT ![in_refill] = letto_refill + 1]
  /\ conto' = [conto EXCEPT ![in_refill] = @ + 1]
  /\ mensa' = "controlla"
  /\ UNCHANGED <<simulation_running, giorno, da_rifornire, in_refill,
                 letto_refill, rifornimenti, codaVars, opVars, utVars>>

RefillFinisce ==
  /\ mensa = "controlla"
  /\ da_rifornire = {}
  /\ mensa' = "giorno"
  /\ UNCHANGED <<simulation_running, giorno, da_rifornire, in_refill,
                 letto_refill, rifornimenti, codaVars, opVars, utVars, cibo>>

end_day ==
  /\ mensa = "giorno"
  /\ giorno < Giorni
  /\ simulation_running' = FALSE
  /\ mensa' = "chiuso"
  /\ UNCHANGED <<giorno, da_rifornire, in_refill, letto_refill, rifornimenti,
                 codaVars, opVars, utVars, cibo>>

\* variant: the queue is left as it is
SvuotaCode_No ==
  /\ mensa = "chiuso"
  /\ Puntuale => Fermi
  /\ mensa' = "riempi"
  /\ giorno' = giorno + 1
  /\ UNCHANGED <<simulation_running, da_rifornire, in_refill, letto_refill,
                 rifornimenti, codaVars, opVars, utVars, cibo>>

\* start_new_day: clear_message_queues and the number of the day ...
clear_message_queues ==
  /\ mensa = "chiuso"
  /\ Puntuale => Fermi
  /\ richieste' = <<>>
  /\ risposte' = [u \in Utenti |-> <<>>]
  /\ mensa' = "riempi"
  /\ giorno' = giorno + 1
  /\ UNCHANGED <<simulation_running, da_rifornire, in_refill, letto_refill,
                 rifornimenti, opVars, utVars, cibo>>

\* ... and the portions of the new day, without the mutex of the station
stations_refill_day ==
  /\ mensa = "riempi"
  /\ porzioni' = [p \in Piatti |-> AVGREFILL]
  /\ conto' = [p \in Piatti |-> AVGREFILL]
  /\ rifornimenti' = 0
  /\ mensa' = "apre"
  /\ UNCHANGED <<simulation_running, giorno, da_rifornire, in_refill,
                 letto_refill, codaVars, opVars, utVars>>

Responsabile ==
  \/ ApriGiorno \/ RefillInizia \/ (\E p \in Piatti : RefillControlla(p))
  \/ RefillLegge \/ RefillScrive \/ RefillFinisce
  \/ end_day \/ clear_message_queues \/ stations_refill_day

-----------------------------------------------------------------------------
(***************************************************************************)
(* The operator: serve_user.                                               *)
(***************************************************************************)
OpVai(o, da, a) ==
  /\ op[o] = da
  /\ op' = [op EXCEPT ![o] = a]

\* the operator has its post, or goes back to its loop
OpInizia(o) ==
  /\ OpVai(o, "fuori", "turno")
  /\ simulation_running
  /\ UNCHANGED <<mensaVars, codaVars, req, letto, utVars, cibo>>

OpTurno(o) ==
  /\ \/ simulation_running /\ OpVai(o, "turno", "riceve")
     \/ ~simulation_running /\ OpVai(o, "turno", "fuori")
  /\ UNCHANGED <<mensaVars, codaVars, req, letto, utVars, cibo>>

\* msgrcv(msgid, &req, ..., 1, IPC_NOWAIT): the first request
OpRiceve(o) ==
  /\ OpVai(o, "riceve", "lock")
  /\ richieste # <<>>
  /\ req' = [req EXCEPT ![o] = Head(richieste)]
  /\ richieste' = Tail(richieste)
  /\ UNCHANGED <<mensaVars, risposte, letto, utVars, cibo>>

\* ENOMSG
OpNessuna(o) ==
  /\ OpVai(o, "riceve", "turno")
  /\ richieste = <<>>
  /\ UNCHANGED <<mensaVars, codaVars, req, letto, utVars, cibo>>

\* nobody holds st->mutex
MutexLibero == \A o \in Operatori : op[o] \notin {"leggi", "scrivi"}

\* variant: the check is made before the mutex is taken
OpControlla_SenzaMutex(o) ==
  /\ op[o] = "lock"
  /\ op' = [op EXCEPT ![o] = IF porzioni[req[o].piatto] <= 0
                             THEN "esaurito" ELSE "leggi"]
  /\ UNCHANGED <<mensaVars, codaVars, req, letto, utVars, cibo>>

\* sem_wait(&st->mutex) and the check of the portions
OpControlla(o) ==
  /\ op[o] = "lock"
  /\ MutexLibero
  /\ op' = [op EXCEPT ![o] = IF porzioni[req[o].piatto] <= 0
                             THEN "esaurito" ELSE "leggi"]
  /\ UNCHANGED <<mensaVars, codaVars, req, letto, utVars, cibo>>

\* "porzioni[req.piatto_scelto]--" under the mutex, a load and a store
OpLegge(o) ==
  /\ OpVai(o, "leggi", "scrivi")
  /\ letto' = [letto EXCEPT ![o] = porzioni[req[o].piatto]]
  /\ UNCHANGED <<mensaVars, codaVars, req, utVars, cibo>>

OpScrive(o) ==
  /\ OpVai(o, "scrivi", "serve")
  /\ porzioni' = [porzioni EXCEPT ![req[o].piatto] = letto[o] - 1]
  /\ conto' = [conto EXCEPT ![req[o].piatto] = @ - 1]
  /\ UNCHANGED <<mensaVars, codaVars, req, letto, utVars>>

\* msgsnd of the answer, after the time of the service or at once
Rispondi(o, esito) ==
  LET u == req[o].utente IN
  /\ SpazioInCoda
  /\ risposte' = [risposte EXCEPT ![u] =
       Append(@, [esito |-> esito, piatto |-> req[o].piatto,
                  giorno |-> req[o].giorno])]
  /\ req' = [req EXCEPT ![o] = Nessuna]
  /\ UNCHANGED <<mensaVars, richieste, letto, utVars, cibo>>

OpServe(o) == OpVai(o, "serve", "turno") /\ Rispondi(o, 0)

\* variant: the early return sends nothing
OpEsaurito_Muto(o) ==
  /\ OpVai(o, "esaurito", "turno")
  /\ req' = [req EXCEPT ![o] = Nessuna]
  /\ UNCHANGED <<mensaVars, codaVars, letto, utVars, cibo>>

\* variant: every refusal is the esito 2 that the protocol reserves
OpEsaurito_Due(o) == OpVai(o, "esaurito", "turno") /\ Rispondi(o, 2)

OpEsaurito(o) == OpVai(o, "esaurito", "turno") /\ Rispondi(o, 1)

serve_user(o) ==
  \/ OpRiceve(o) \/ OpNessuna(o) \/ OpControlla(o) \/ OpLegge(o)
  \/ OpScrive(o) \/ OpServe(o) \/ OpEsaurito(o)

Operatore(o) == OpInizia(o) \/ OpTurno(o) \/ serve_user(o)

-----------------------------------------------------------------------------
(***************************************************************************)
(* The user: try_all_dishes_of_type and, for each dish, go_to_station.     *)
(***************************************************************************)
UtVai(u, da, a) ==
  /\ ut[u] = da
  /\ ut' = [ut EXCEPT ![u] = a]

UtInizia(u) ==
  /\ UtVai(u, "fuori", "prova")
  /\ simulation_running
  /\ provati' = [provati EXCEPT ![u] = {}]
  /\ UNCHANGED <<mensaVars, codaVars, opVars, piatto, cibo>>

\* the next dish of the shuffled order
UtSceglie(u, p) ==
  /\ UtVai(u, "prova", "invia")
  /\ simulation_running
  /\ p \notin provati[u]
  /\ piatto' = [piatto EXCEPT ![u] = p]
  /\ provati' = [provati EXCEPT ![u] = @ \cup {p}]
  /\ UNCHANGED <<mensaVars, codaVars, opVars, cibo>>

\* every dish was asked for: try_all_dishes_of_type returns 0
UtSenza(u) ==
  /\ UtVai(u, "prova", "senza")
  /\ provati[u] = Piatti
  /\ UNCHANGED <<mensaVars, codaVars, opVars, piatto, provati, cibo>>

UtInvia(u) ==
  /\ UtVai(u, "invia", "attende")
  /\ SpazioInCoda
  /\ richieste' = Append(richieste, [utente |-> u, piatto |-> piatto[u],
                                     giorno |-> giorno])
  /\ UNCHANGED <<mensaVars, risposte, opVars, piatto, provati, cibo>>

\* each round of the loop reads simulation_running and then looks in the queue
UtAttende(u) ==
  /\ \/ simulation_running /\ UtVai(u, "attende", "riceve")
     \/ ~simulation_running /\ UtVai(u, "attende", "prova")
  /\ UNCHANGED <<mensaVars, codaVars, opVars, piatto, provati, cibo>>

\* variant: the esito of the answer is not looked at
UtRiceve_SenzaEsito(u) ==
  /\ risposte[u] # <<>>
  /\ UtVai(u, "riceve", "servito")
  /\ risposte' = [risposte EXCEPT ![u] = Tail(@)]
  /\ UNCHANGED <<mensaVars, richieste, opVars, piatto, provati, cibo>>

UtRiceve(u) ==
  /\ risposte[u] # <<>>
  /\ UtVai(u, "riceve", IF Head(risposte[u]).esito = 0 THEN "servito"
                                                       ELSE "prova")
  /\ risposte' = [risposte EXCEPT ![u] = Tail(@)]
  /\ UNCHANGED <<mensaVars, richieste, opVars, piatto, provati, cibo>>

UtNessuna(u) ==
  /\ UtVai(u, "riceve", "attende")
  /\ risposte[u] = <<>>
  /\ UNCHANGED <<mensaVars, codaVars, opVars, piatto, provati, cibo>>

\* the check of the loop over the dishes, or the rest of the user's day, finds
\* the day closed.  Bound of the model: one pass of a user through each day.  In
\* the code one that has finished may go through an open day again, on a token
\* that a pausing operator left (utente.c:60); Pasto follows that.
UtFineGiorno(u) ==
  /\ \/ UtVai(u, "prova", "fuori")
     \/ UtVai(u, "servito", "fuori")
     \/ UtVai(u, "senza", "fuori")
  /\ ~simulation_running
  /\ UNCHANGED <<mensaVars, codaVars, opVars, piatto, provati, cibo>>

Utente(u) ==
  \/ UtInizia(u) \/ (\E p \in Piatti : UtSceglie(u, p)) \/ UtSenza(u)
  \/ UtInvia(u) \/ UtAttende(u) \/ UtRiceve(u) \/ UtNessuna(u)
  \/ UtFineGiorno(u)

-----------------------------------------------------------------------------
Next ==
  \/ Responsabile
  \/ \E o \in Operatori : Operatore(o)
  \/ \E u \in Utenti : Utente(u)

Spec == Init /\ [][Next]_vars

(***************************************************************************)
(* Fairness: operators and users are scheduled.  Nothing is assumed of the *)
(* manager: a refill may take for ever and the day may never end.          *)
(***************************************************************************)
FairSpec ==
  /\ Spec
  /\ \A o \in Operatori : WF_vars(Operatore(o))
  /\ \A u \in Utenti : WF_vars(Utente(u))

-----------------------------------------------------------------------------
TypeOK ==
  /\ simulation_running \in BOOLEAN
  /\ giorno \in 1..Giorni
  /\ mensa \in LuoghiMensa
  /\ da_rifornire \subseteq Piatti
  /\ in_refill \in Piatti
  /\ letto_refill \in Int
  /\ rifornimenti \in 0..Rifornimenti
  /\ richieste \in Seq(Richiesta)
  /\ risposte \in [Utenti -> Seq(Risposta)]
  /\ porzioni \in [Piatti -> Int]
  /\ op \in [Operatori -> LuoghiOperatore]
  /\ req \in [Operatori -> Richiesta \cup {Nessuna}]
  /\ letto \in [Operatori -> Int]
  /\ ut \in [Utenti -> LuoghiUtente]
  /\ piatto \in [Utenti -> Piatti]
  /\ provati \in [Utenti -> SUBSET Piatti]
  /\ conto \in [Piatti -> Int]

Tetto == IF AVGREFILL > MAXPORZIONI THEN AVGREFILL ELSE MAXPORZIONI

\* Any timing, with the refills racing the operators: porzioni stays between 0
\* ("<= 0" of operatore.c:231 is never late) and the cap of the refill or of
\* the first filling (stations.c:57 "fino a MAX_PORZIONI").
PorzioniLimitate == \A p \in Piatti : porzioni[p] \in 0..Tetto

\* What keeps it so: the register of an operator was at least one when it was
\* loaded, the register of the refill was below the cap, and no two operators
\* are between the check and the store.
PorzioniInduttivo ==
  /\ PorzioniLimitate
  /\ \A o \in Operatori :
       /\ op[o] \in {"lock", "leggi", "scrivi", "serve", "esaurito"}
            => req[o] \in Richiesta
       /\ op[o] = "leggi" => porzioni[req[o].piatto] >= 1
       /\ op[o] = "scrivi" => letto[o] \in 1..Tetto
       /\ \A altro \in Operatori \ {o} :
            op[o] \in {"leggi", "scrivi"} => op[altro] \notin {"leggi", "scrivi"}
  /\ mensa = "leggi" => porzioni[in_refill] < Tetto
  /\ mensa = "scrivi" => letto_refill \in 0..(Tetto - 1)
  /\ mensa = "chiuso" => giorno < Giorni

\* No portion appears or vanishes: porzioni is what was put in (a refill
\* "incrementa di 1 porzione", stations.c:57) less what was given.
PorzioniConservate == \A p \in Piatti : porzioni[p] = conto[p]

RichiesteDi(u) == {i \in 1..Len(richieste) : richieste[i].utente = u}
ServitoriDi(u) == {o \in Operatori : req[o] # Nessuna /\ req[o].utente = u}
InVolo(u) == Cardinality(RichiesteDi(u)) + Cardinality(ServitoriDi(u))
               + Len(risposte[u])

\* A user has one question at a time in the air, and has it for as long as it
\* waits in an open day: in the queue, with one operator, or answered.  So a
\* queue with room for one message per user never blocks anybody.
UnaDomanda ==
  simulation_running =>
    \A u \in Utenti :
      InVolo(u) = IF ut[u] \in {"attende", "riceve"} THEN 1 ELSE 0

\* The answer a user finds (utente.c:205 filters on the user only) is for the
\* dish it is asking for, today.
RispostaAllaDomanda ==
  simulation_running =>
    \A u \in Utenti : ut[u] \in {"attende", "riceve"} =>
      \A i \in 1..Len(risposte[u]) :
        /\ risposte[u][i].piatto = piatto[u]
        /\ risposte[u][i].giorno = giorno

\* A user that queues at a station is answered or the day is closed, also when
\* it joins a queue with no room to spare.
OgniDomandaHaRisposta ==
  \A u \in Utenti :
    (ut[u] \in {"invia", "attende"})
      ~> (ut[u] \in {"servito", "prova"} \/ ~simulation_running)

\* To its users the station is a counter (Sportello): with naps long enough and
\* no refill that races an operator, "piatto terminato" is only ever said of a
\* dish that has no portion left when it is decided, a portion leaves the counter
\* for a question that is answered "ok", and a user is served when it was
\* (operatore.c:231-248, utente.c:196-220) - with any number of operators, through
\* one queue.  Domanda(u) is the decision taken on the question of u.
Domanda(u) ==
  LET mano(luoghi) == \E o \in ServitoriDi(u) : op[o] \in luoghi
      finita(e) == risposte[u] # <<>> /\ Head(risposte[u]).esito = e
  IN
  IF RichiesteDi(u) # {} \/ mano({"lock", "leggi", "scrivi"})
    THEN <<"fatta", piatto[u]>>
  ELSE IF mano({"serve"}) \/ finita(0) THEN <<"accolta", piatto[u]>>
  ELSE IF mano({"esaurito"}) \/ finita(1) THEN <<"respinta", piatto[u]>>
  ELSE <<"nulla">>

Sportello == INSTANCE Sportello WITH
  aperto <- simulation_running, banco <- porzioni,
  domanda <- [u \in Utenti |-> Domanda(u)],
  serviti <- {u \in Utenti : ut[u] = "servito"}
ImplementaSportello == Sportello!Spec
=============================================================================
