-------------------------- MODULE SportelloProofs --------------------------
(***************************************************************************)
(* The station implements the counter of Sportello: any number of          *)
(* operators, one queue for requests and answers, and a mutex around a     *)
(* load and a store look to the users like one decision per question, and  *)
(* the refill like one more portion at a time, as long as the days open    *)
(* when everybody has left and no store of a refill races one of an        *)
(* operator on the same dish (the run "refill" shows what it does).        *)
(***************************************************************************)
EXTENDS ServizioProofs

\* The counter is full from the filling of the day to its opening.
BancoPieno == mensa = "apre" => porzioni = [p \in Piatti |-> AVGREFILL]

Pronto == Bilancio /\ BancoPieno

\* An operator that stands in one of these places has the request of u.
Mano(u, luoghi) ==
  \E o \in Operatori :
    req[o] # Nessuna /\ req[o].utente = u /\ op[o] \in luoghi

\* The decision taken on the question of each user can be read off the place of
\* its only message.
DomandeChiare ==
  \A u \in Utenti :
    /\ Accodata(u) => Domanda(u) = <<"fatta", piatto[u]>>
    /\ \A o \in Operatori : req[o] # Nessuna /\ req[o].utente = u =>
         /\ op[o] \in {"lock", "leggi", "scrivi"}
              => Domanda(u) = <<"fatta", piatto[u]>>
         /\ op[o] = "serve" => Domanda(u) = <<"accolta", piatto[u]>>
         /\ op[o] = "esaurito" => Domanda(u) = <<"respinta", piatto[u]>>
    /\ Risposto(u) =>
         Domanda(u) = IF Head(risposte[u]).esito = 0
                      THEN <<"accolta", piatto[u]>> ELSE <<"respinta", piatto[u]>>
    /\ ~Accodata(u) /\ ~Presa(u) /\ ~Risposto(u) => Domanda(u) = <<"nulla">>

\* The definition of the mapping in the terms of the proofs: in whose hands the
\* message is, and the dish d and the answers r of the user.
Decisa(attesa, servizio, rifiuto, d, r) ==
  IF attesa THEN <<"fatta", d>>
  ELSE IF servizio \/ (r # <<>> /\ Head(r).esito = 0) THEN <<"accolta", d>>
  ELSE IF rifiuto \/ (r # <<>> /\ Head(r).esito = 1) THEN <<"respinta", d>>
  ELSE <<"nulla">>

DomandaDecisa ==
  \A u : Domanda(u) =
    Decisa(Accodata(u) \/ Mano(u, {"lock", "leggi", "scrivi"}),
           Mano(u, {"serve"}), Mano(u, {"esaurito"}), piatto[u], risposte[u])

LEMMA DomandaCome == DomandaDecisa
<1> SUFFICES ASSUME NEW u PROVE DomandaDecisa!(u) BY DEF DomandaDecisa
<1>1. RichiesteDi(u) # {} <=> Accodata(u) BY DEF RichiesteDi, Accodata
<1>2. \A luoghi : (\E o \in ServitoriDi(u) : op[o] \in luoghi) <=> Mano(u, luoghi)
  BY DEF ServitoriDi, Mano
<1> QED BY <1>1, <1>2, Zenon DEF Domanda, Decisa

LEMMA DomandaComeDopo == DomandaDecisa'
BY DomandaCome, PTL

LEMMA DomandeSonoChiare == Dialogo => DomandeChiare
<1> SUFFICES ASSUME Dialogo, NEW u \in Utenti
             PROVE  DomandeChiare!(u)
  BY DEF DomandeChiare
<1>1. /\ Accodata(u) => ~Presa(u) /\ ~Risposto(u)
      /\ Presa(u) => ~Risposto(u)
  BY DEF Dialogo, UnSoloPosto
<1>2. \A luoghi : Mano(u, luoghi) => Presa(u) BY DEF Mano, Presa
<1>3. CASE Accodata(u)
  BY <1>1, <1>3, DomandaCome DEF DomandaDecisa, Decisa, Presa
<1>4. ASSUME NEW o \in Operatori, req[o] # Nessuna, req[o].utente = u
      PROVE  /\ op[o] \in {"lock", "leggi", "scrivi"}
                  => Domanda(u) = <<"fatta", piatto[u]>>
             /\ op[o] = "serve" => Domanda(u) = <<"accolta", piatto[u]>>
             /\ op[o] = "esaurito" => Domanda(u) = <<"respinta", piatto[u]>>
  <2>1. Presa(u) /\ ~Accodata(u) /\ ~Risposto(u) BY <1>1, <1>4 DEF Presa
  <2>2. \A luoghi : Mano(u, luoghi) <=> op[o] \in luoghi
    BY <1>4 DEF Mano, Dialogo, Distinte
  <2> QED
    BY <2>1, <2>2, DomandaCome DEF DomandaDecisa, Decisa, Risposto
<1>5. ASSUME Risposto(u)
      PROVE  Domanda(u) = IF Head(risposte[u]).esito = 0
                          THEN <<"accolta", piatto[u]>>
                          ELSE <<"respinta", piatto[u]>>
  <2>1. risposte[u] \in Seq(Risposta) /\ risposte[u] # <<>>
    BY <1>5 DEF Dialogo, Invariante, TypeOK, Risposto
  <2>2. Head(risposte[u]) \in Risposta BY <2>1, HeadTailProperties
  <2>3. Head(risposte[u]).esito \in {0, 1} BY <2>2 DEF Risposta
  <2> QED
    BY <1>1, <1>2, <1>5, <2>3, DomandaCome
    DEF DomandaDecisa, Decisa, Risposto
<1>6. ~Accodata(u) /\ ~Presa(u) /\ ~Risposto(u) => Domanda(u) = <<"nulla">>
  BY <1>2, DomandaCome DEF DomandaDecisa, Decisa, Risposto
<1> QED BY <1>3, <1>4, <1>5, <1>6

LEMMA DomandeChiareDopo == Dialogo' => DomandeChiare'
BY DomandeSonoChiare, PTL

\* A step that touches no message of u leaves its question as it was.
LEMMA Altrui ==
  ASSUME NEW u \in Utenti,
         Accodata(u)' <=> Accodata(u),
         \A o \in Operatori :
           \/ req'[o] = req[o] /\ op'[o] = op[o]
           \/ /\ ~(req[o] # Nessuna /\ req[o].utente = u)
              /\ ~(req'[o] # Nessuna /\ req'[o].utente = u),
         risposte'[u] = risposte[u],
         piatto'[u] = piatto[u]
  PROVE  Domanda(u)' = Domanda(u)
<1>1. \A luoghi : Mano(u, luoghi)' <=> Mano(u, luoghi) BY DEF Mano
<1>2. /\ Domanda(u) = Decisa(Accodata(u) \/ Mano(u, {"lock", "leggi", "scrivi"}),
                             Mano(u, {"serve"}), Mano(u, {"esaurito"}),
                             piatto[u], risposte[u])
      /\ Domanda(u)' = Decisa(Accodata(u)' \/ Mano(u, {"lock", "leggi", "scrivi"})',
                              Mano(u, {"serve"})', Mano(u, {"esaurito"})',
                              piatto'[u], risposte'[u])
  BY DomandaCome, DomandaComeDopo DEF DomandaDecisa
<1> QED BY <1>1, <1>2 DEF Decisa

-----------------------------------------------------------------------------
(* The invariant.                                                           *)

LEMMA ProntoIniziale == Init => Pronto
BY DialogoIniziale, CostantiServizio
DEF Init, Pronto, Bilancio, Registri, PorzioniConservate, BancoPieno

LEMMA ProntoInduttivo ==
  ASSUME Puntuale, NessunaCorsa, Pronto, [Next]_vars
  PROVE  Pronto'
<1> USE DEF mensaVars, codaVars, opVars, utVars, cibo
<1>1. Bilancio' BY BilancioInduttivo DEF Pronto
<1>2. CASE Responsabile
  BY <1>1, <1>2
  DEF Responsabile, ApriGiorno, RefillInizia, RefillControlla, RefillLegge,
      RefillScrive, RefillFinisce, end_day, clear_message_queues,
      stations_refill_day, Pronto, BancoPieno
<1>3. ASSUME NEW o \in Operatori, Operatore(o) PROVE Pronto'
  <2>1. mensa' = mensa /\ (porzioni' = porzioni \/ op[o] = "scrivi")
    BY <1>3
    DEF Operatore, serve_user, OpInizia, OpTurno, OpRiceve, OpNessuna,
        OpControlla, OpLegge, OpScrive, OpServe, OpEsaurito, Rispondi, OpVai
  <2>2. mensa = "apre" => op[o] = "fuori"
    BY DEF Pronto, Bilancio, Dialogo, Chiusura, Fermi
  <2> QED BY <1>1, <2>1, <2>2 DEF Pronto, BancoPieno
<1>4. ASSUME NEW u \in Utenti, Utente(u) PROVE Pronto'
  <2>1. UNCHANGED <<mensa, porzioni>>
    BY <1>4
    DEF Utente, UtInizia, UtSceglie, UtSenza, UtInvia, UtAttende, UtRiceve,
        UtNessuna, UtFineGiorno
  <2> QED BY <1>1, <2>1 DEF Pronto, BancoPieno
<1>5. CASE UNCHANGED vars BY <1>1, <1>5 DEF vars, Pronto, BancoPieno
<1> QED BY <1>2, <1>3, <1>4, <1>5 DEF Next

-----------------------------------------------------------------------------
(* The steps.                                                               *)

\* The questions and the served users of the counter, and one question that
\* goes on while the others stay as they are.
Domande == [u \in Utenti |-> Domanda(u)]
Serviti == {u \in Utenti : ut[u] = "servito"}

LEMMA UnaSola ==
  ASSUME NEW u \in Utenti, \A w \in Utenti \ {u} : Domanda(w)' = Domanda(w)
  PROVE  Domande' = [Domande EXCEPT ![u] = Domanda(u)']
BY DEF Domande

LEMMA NessunaDomanda ==
  ASSUME \A u \in Utenti : Domanda(u)' = Domanda(u)
  PROVE  Domande' = Domande
BY DEF Domande

\* Nobody has a question outside an open day, once the queue is clear.
LEMMA TuttoFermo ==
  ASSUME Dialogo, Fermi, richieste = <<>>, \A u \in Utenti : risposte[u] = <<>>
  PROVE  /\ Domande = [u \in Utenti |-> <<"nulla">>]
         /\ Serviti = {}
<1>1. ASSUME NEW u \in Utenti
      PROVE  ~Accodata(u) /\ ~Presa(u) /\ ~Risposto(u) /\ ut[u] # "servito"
  BY DEF Fermi, Dialogo, ConRichiesta, Accodata, Presa, Risposto
<1> QED BY <1>1, DomandeSonoChiare DEF DomandeChiare, Domande, Serviti

LEMMA TuttoFermoDopo ==
  (/\ Dialogo /\ Fermi /\ richieste = <<>>
   /\ \A u \in Utenti : risposte[u] = <<>>)'
    => (Domande = [u \in Utenti |-> <<"nulla">>] /\ Serviti = {})'
BY TuttoFermo, PTL

\* A step of the manager opens, closes, clears or fills the counter, adds a
\* portion to it, or shows nothing.
LEMMA SportelloResponsabile ==
  ASSUME Puntuale, Pronto, Pronto', Responsabile
  PROVE  [Sportello!Next]_(Sportello!svars)
<1> USE DEF mensaVars, codaVars, opVars, utVars, cibo
<1>1. Dialogo /\ Dialogo' BY DEF Pronto, Bilancio
<1>3. ASSUME UNCHANGED <<richieste, risposte, op, req, ut, piatto>>
      PROVE  Domande' = Domande /\ Serviti' = Serviti
  BY <1>3, StessiMessaggi, Altrui, NessunaDomanda DEF Serviti
<1>4. CASE ApriGiorno
  <2>1. Domande = [u \in Utenti |-> <<"nulla">>] /\ Serviti = {}
    BY <1>1, <1>4, TuttoFermo DEF ApriGiorno, Dialogo, Chiusura
  <2>2. ~simulation_running /\ porzioni = [p \in Piatti |-> AVGREFILL]
    BY <1>1, <1>4 DEF ApriGiorno, Pronto, BancoPieno, Dialogo, Chiusura
  <2>3. Sportello!Apri
    BY <1>3, <1>4, <2>1, <2>2
    DEF ApriGiorno, Sportello!Apri, Sportello!Nulla, Domande, Serviti
  <2> QED BY <2>3 DEF Sportello!Next
<1>5. CASE end_day
  <2>1. simulation_running BY <1>1, <1>5 DEF end_day, Dialogo, Chiusura
  <2>2. Sportello!Chiudi
    BY <1>3, <1>5, <2>1 DEF end_day, Sportello!Chiudi, Domande, Serviti
  <2> QED BY <2>2 DEF Sportello!Next
<1>6. CASE clear_message_queues
  <2>1. ~simulation_running /\ ~simulation_running'
    BY <1>1, <1>6 DEF clear_message_queues, Dialogo, Chiusura
  <2>2. Serviti = {} BY <1>6 DEF clear_message_queues, Fermi, Serviti
  <2>3. Domande' = [u \in Utenti |-> <<"nulla">>] /\ Serviti' = {}
    BY <1>1, <1>6, TuttoFermoDopo DEF clear_message_queues, Fermi
  <2>4. Sportello!Sgombera
    BY <1>6, <2>1, <2>2, <2>3
    DEF clear_message_queues, Sportello!Sgombera, Sportello!Nulla, Domande,
        Serviti
  <2> QED BY <2>4 DEF Sportello!Next
<1>7. CASE stations_refill_day
  <2>1. Domande = [u \in Utenti |-> <<"nulla">>] /\ Serviti = {}
    BY <1>1, <1>7, TuttoFermo DEF stations_refill_day, Dialogo, Chiusura
  <2>2. ~simulation_running
    BY <1>1, <1>7 DEF stations_refill_day, Dialogo, Chiusura
  <2>3. Sportello!Riempi
    BY <1>3, <1>7, <2>1, <2>2
    DEF stations_refill_day, Sportello!Riempi, Sportello!Nulla, Domande, Serviti
  <2> QED BY <2>3 DEF Sportello!Next
<1>8. CASE RefillScrive
  <2>1. PICK p \in Piatti : p = in_refill
    BY DEF Pronto, Bilancio, Dialogo, Invariante, TypeOK
  <2>2. simulation_running /\ letto_refill = porzioni[p] /\ porzioni[p] < MAXPORZIONI
    BY <1>1, <1>8, <2>1
    DEF RefillScrive, Pronto, Bilancio, Registri, Dialogo, Chiusura
  <2>3. porzioni' = [porzioni EXCEPT ![p] = @ + 1]
    BY <1>8, <2>1, <2>2 DEF RefillScrive, Dialogo, Invariante, TypeOK
  <2>4. Sportello!Rifornisci(p)
    BY <1>3, <1>8, <2>2, <2>3
    DEF RefillScrive, Sportello!Rifornisci, Domande, Serviti
  <2> QED BY <2>4 DEF Sportello!Next
<1>9. CASE \/ RefillInizia \/ (\E p \in Piatti : RefillControlla(p))
           \/ RefillLegge \/ RefillFinisce
  <2>1. UNCHANGED <<simulation_running, porzioni, codaVars, opVars, utVars>>
    BY <1>9 DEF RefillInizia, RefillControlla, RefillLegge, RefillFinisce
  <2> QED BY <1>3, <2>1 DEF Sportello!svars, Domande, Serviti
<1> QED
  BY <1>4, <1>5, <1>6, <1>7, <1>8, <1>9 DEF Responsabile

\* A step of an operator concerns the user whose request it holds, if any.
LEMMA AltruiOperatore ==
  ASSUME Dialogo, NEW o \in Operatori, Operatore(o), NEW u \in Utenti,
         ~(req[o] # Nessuna /\ req[o].utente = u),
         ~(req'[o] # Nessuna /\ req'[o].utente = u)
  PROVE  Domanda(u)' = Domanda(u)
<1> USE DEF mensaVars, codaVars, utVars, OpVai
<1>1. /\ op \in [Operatori -> LuoghiOperatore]
      /\ req \in [Operatori -> Richiesta \cup {Nessuna}]
      /\ richieste \in Seq(Richiesta)
      /\ risposte \in [Utenti -> Seq(Risposta)]
  BY DEF Dialogo, Invariante, TypeOK
<1>2. /\ piatto' = piatto
      /\ \A altro \in Operatori \ {o} : req'[altro] = req[altro] /\ op'[altro] = op[altro]
  BY <1>1
  DEF Operatore, serve_user, OpInizia, OpTurno, OpRiceve, OpNessuna,
      OpControlla, OpLegge, OpScrive, OpServe, OpEsaurito, Rispondi
<1>3. CASE OpRiceve(o)
  <2>1. /\ richieste # <<>> /\ richieste' = Tail(richieste)
        /\ req'[o] = Head(richieste) /\ risposte' = risposte
    BY <1>1, <1>3 DEF OpRiceve
  <2>2. Head(richieste) \in Richiesta BY <1>1, <2>1, HeadTailProperties
  <2>3. Head(richieste).utente # u BY <2>1, <2>2, NessunaNonRichiesta
  <2>4. Accodata(u)' <=> Accodata(u)
    BY <1>1, <2>1, <2>3, CodaAvanza DEF Dialogo
  <2> QED BY <1>2, <2>1, <2>4, Altrui
<1>4. CASE ~OpRiceve(o)
  <2>1. richieste' = richieste
    BY <1>4
    DEF Operatore, serve_user, OpInizia, OpTurno, OpNessuna, OpControlla,
        OpLegge, OpScrive, OpServe, OpEsaurito, Rispondi
  <2>2. risposte'[u] = risposte[u]
    <3>1. CASE OpServe(o) \/ OpEsaurito(o)
      <4>1. PICK e \in {0, 1} : Rispondi(o, e)
        BY <3>1 DEF OpServe, OpEsaurito
      <4>2. req[o] # Nessuna
        BY <3>1 DEF OpServe, OpEsaurito, Dialogo, ConRichiesta
      <4> QED BY <1>1, <4>1, <4>2 DEF Rispondi
    <3>2. CASE ~OpServe(o) /\ ~OpEsaurito(o)
      BY <1>4, <3>2
      DEF Operatore, serve_user, OpInizia, OpTurno, OpNessuna, OpControlla,
          OpLegge, OpScrive
    <3> QED BY <3>1, <3>2
  <2>3. Accodata(u)' <=> Accodata(u) BY <2>1 DEF Accodata
  <2> QED BY <1>2, <2>2, <2>3, Altrui
<1> QED BY <1>3, <1>4

\* A step of an operator decides the question it holds, or shows nothing.
LEMMA SportelloOperatore ==
  ASSUME Pronto, Pronto', NEW o \in Operatori, Operatore(o)
  PROVE  [Sportello!Next]_(Sportello!svars)
<1> USE DEF mensaVars, codaVars, utVars, cibo, OpVai
<1>1. /\ op \in [Operatori -> LuoghiOperatore]
      /\ req \in [Operatori -> Richiesta \cup {Nessuna}]
      /\ richieste \in Seq(Richiesta)
      /\ porzioni \in [Piatti -> Int] /\ PorzioniLimitate
      /\ Dialogo /\ Dialogo' /\ DomandeChiare /\ DomandeChiare'
  BY DomandeSonoChiare, DomandeChiareDopo
  DEF Pronto, Bilancio, Dialogo, Invariante, TypeOK, PorzioniInduttivo
<1>2. Serviti' = Serviti /\ simulation_running' = simulation_running
  BY DEF Operatore, serve_user, OpInizia, OpTurno, OpRiceve, OpNessuna,
         OpControlla, OpLegge, OpScrive, OpServe, OpEsaurito, Rispondi, Serviti
\* a step that leaves the questions and the portions as they are stutters
<1>3. ASSUME porzioni' = porzioni, \A u \in Utenti : Domanda(u)' = Domanda(u)
      PROVE  UNCHANGED Sportello!svars
  BY <1>2, <1>3, NessunaDomanda DEF Sportello!svars, Domande, Serviti
<1>4. CASE OpInizia(o) \/ OpTurno(o) \/ OpNessuna(o)
  <2>1. req[o] = Nessuna /\ req'[o] = Nessuna /\ porzioni' = porzioni
    BY <1>1, <1>4 DEF OpInizia, OpTurno, OpNessuna, Dialogo, ConRichiesta
  <2> QED BY <1>1, <1>3, <2>1, AltruiOperatore
<1>5. CASE OpRiceve(o)
  <2>1. /\ richieste # <<>> /\ req'[o] = Head(richieste) /\ op'[o] = "lock"
        /\ req[o] = Nessuna /\ porzioni' = porzioni /\ piatto' = piatto
    BY <1>1, <1>5 DEF OpRiceve, Dialogo, ConRichiesta
  <2>2. Head(richieste) \in Richiesta BY <1>1, <2>1, HeadTailProperties
  <2>3. PICK u \in Utenti : u = Head(richieste).utente /\ Head(richieste) # Nessuna
    BY <2>2, NessunaNonRichiesta DEF Richiesta
  <2>4. Accodata(u)
    <3>1. 1 \in 1..Len(richieste) /\ Head(richieste) = richieste[1]
      BY <1>1, <2>1
    <3> QED BY <2>3, <3>1 DEF Accodata
  <2>5. Domanda(u) = <<"fatta", piatto[u]>> BY <1>1, <2>3, <2>4 DEF DomandeChiare
  <2>6. Domanda(u)' = <<"fatta", piatto[u]>>
    BY <1>1, <2>1, <2>3 DEF DomandeChiare
  <2>7. \A w \in Utenti \ {u} : Domanda(w)' = Domanda(w)
    BY <1>1, <2>1, <2>3, AltruiOperatore
  <2> QED BY <1>3, <2>1, <2>5, <2>6, <2>7
\* the steps of an operator that holds a request
<1>6. ASSUME op[o] \in {"lock", "leggi", "scrivi", "serve", "esaurito"}
      PROVE  /\ req[o] # Nessuna /\ req[o] \in Richiesta
             /\ req[o].utente \in Utenti /\ req[o].piatto \in Piatti
             /\ req[o].piatto = piatto[req[o].utente]
  BY <1>1, <1>6 DEF Dialogo, ConRichiesta, Fresche, DiOggi, Richiesta
<1>7. ASSUME op[o] \in {"lock", "leggi", "scrivi", "serve", "esaurito"},
             req' = req
      PROVE  \A w \in Utenti \ {req[o].utente} : Domanda(w)' = Domanda(w)
  BY <1>1, <1>7, AltruiOperatore
<1>8. CASE OpControlla(o)
  <2>0. PICK u \in Utenti, p \in Piatti : u = req[o].utente /\ p = req[o].piatto
    BY <1>6, <1>8 DEF OpControlla
  <2>1. /\ op[o] = "lock" /\ req' = req /\ piatto' = piatto /\ porzioni' = porzioni
        /\ op'[o] = IF porzioni[p] <= 0 THEN "esaurito" ELSE "leggi"
    BY <1>1, <1>8, <2>0 DEF OpControlla
  <2>2. /\ p = piatto[u] /\ req[o] # Nessuna /\ req[o].utente = u
        /\ \A w \in Utenti \ {u} : Domanda(w)' = Domanda(w)
    BY <1>6, <1>7, <2>0, <2>1
  <2>3. Domanda(u) = <<"fatta", p>> BY <1>1, <2>1, <2>2 DEF DomandeChiare
  <2>4. porzioni[p] \in 0..Tetto BY <1>1, <2>2 DEF PorzioniLimitate
  <2>5. CASE porzioni[p] <= 0
    <3>1. porzioni[p] = 0 /\ op'[o] = "esaurito" BY <2>1, <2>4, <2>5, TettoPositivo
    <3>2. Domanda(u)' = <<"respinta", p>>
      BY <1>1, <2>1, <2>2, <3>1 DEF DomandeChiare
    <3>3. Domande' = [Domande EXCEPT ![u] = <<"respinta", p>>]
      BY <2>2, <3>2, UnaSola
    <3>4. Sportello!Respingi(u, p)
      BY <1>2, <2>1, <2>2, <2>3, <3>1, <3>3
      DEF Sportello!Respingi, Sportello!Passa, Domande, Serviti
    <3> QED BY <2>2, <3>4 DEF Sportello!Next
  <2>6. CASE ~(porzioni[p] <= 0)
    <3>1. op'[o] = "leggi" BY <2>1, <2>6
    <3>2. Domanda(u)' = <<"fatta", p>>
      BY <1>1, <2>1, <2>2, <3>1 DEF DomandeChiare
    <3> QED BY <1>3, <2>1, <2>2, <2>3, <3>2
  <2> QED BY <2>5, <2>6
<1>9. CASE OpLegge(o)
  <2>0. PICK u \in Utenti : u = req[o].utente BY <1>6, <1>9 DEF OpLegge
  <2>1. /\ op[o] = "leggi" /\ op'[o] = "scrivi" /\ req' = req /\ piatto' = piatto
        /\ porzioni' = porzioni
    BY <1>1, <1>9 DEF OpLegge
  <2>2. /\ req[o] # Nessuna /\ req[o].utente = u
        /\ \A w \in Utenti \ {u} : Domanda(w)' = Domanda(w)
    BY <1>6, <1>7, <2>0, <2>1
  <2>3. Domanda(u) = <<"fatta", piatto[u]>> BY <1>1, <2>1, <2>2 DEF DomandeChiare
  <2>4. Domanda(u)' = <<"fatta", piatto[u]>> BY <1>1, <2>1, <2>2 DEF DomandeChiare
  <2> QED BY <1>3, <2>1, <2>2, <2>3, <2>4
<1>10. CASE OpScrive(o)
  <2>0. PICK u \in Utenti, p \in Piatti : u = req[o].utente /\ p = req[o].piatto
    BY <1>6, <1>10 DEF OpScrive
  <2>1. /\ op[o] = "scrivi" /\ op'[o] = "serve" /\ req' = req /\ piatto' = piatto
        /\ porzioni' = [porzioni EXCEPT ![p] = letto[o] - 1]
    BY <1>1, <1>10, <2>0 DEF OpScrive
  <2>2. /\ p = piatto[u] /\ req[o] # Nessuna /\ req[o].utente = u
        /\ \A w \in Utenti \ {u} : Domanda(w)' = Domanda(w)
    BY <1>6, <1>7, <2>0, <2>1
  <2>3. letto[o] = porzioni[p] /\ letto[o] \in 1..Tetto
    BY <2>0, <2>1
    DEF Pronto, Bilancio, Registri, Dialogo, Invariante, PorzioniInduttivo
  <2>4. Domanda(u) = <<"fatta", p>> BY <1>1, <2>1, <2>2 DEF DomandeChiare
  <2>5. Domanda(u)' = <<"accolta", p>> BY <1>1, <2>1, <2>2 DEF DomandeChiare
  <2>6. Domande' = [Domande EXCEPT ![u] = <<"accolta", p>>]
    BY <2>2, <2>5, UnaSola
  <2>7. porzioni[p] > 0 /\ porzioni' = [porzioni EXCEPT ![p] = @ - 1]
    BY <1>1, <2>1, <2>2, <2>3, TettoPositivo
  <2>8. Sportello!Accogli(u, p)
    BY <1>2, <2>2, <2>4, <2>6, <2>7
    DEF Sportello!Accogli, Sportello!Passa, Domande, Serviti
  <2> QED BY <2>2, <2>8 DEF Sportello!Next
<1>11. ASSUME NEW esito \in {0, 1}, Rispondi(o, esito),
              op[o] = IF esito = 0 THEN "serve" ELSE "esaurito"
       PROVE  UNCHANGED Sportello!svars
  <2>0. PICK u \in Utenti : u = req[o].utente BY <1>6, <1>11
  <2> DEFINE r == [esito |-> esito, piatto |-> req[o].piatto,
                   giorno |-> req[o].giorno]
             una == Append(<<>>, r)
  <2>1. /\ req[o] # Nessuna /\ req[o] \in Richiesta /\ req[o].utente = u
        /\ req[o].piatto \in Piatti
    BY <1>6, <1>11, <2>0
  <2>2. /\ risposte' = [risposte EXCEPT ![u] = Append(@, r)]
        /\ req' = [req EXCEPT ![o] = Nessuna]
        /\ piatto' = piatto /\ porzioni' = porzioni
    BY <1>11, <2>0 DEF Rispondi
  <2>3. r \in Risposta BY <2>1 DEF Risposta, Richiesta
  <2>4. risposte[u] = <<>>
    BY <1>1, <2>1 DEF Dialogo, UnSoloPosto, Presa, Risposto
  <2>5. risposte'[u] = una
    BY <2>1, <2>2, <2>4 DEF Pronto, Bilancio, Dialogo, Invariante, TypeOK
  <2>6. una # <<>> /\ Head(una) = r BY <2>3
  <2>7. Risposto(u)' /\ Head(risposte'[u]).esito = esito
    BY <2>5, <2>6 DEF Risposto
  <2>8. Domanda(u) = IF esito = 0 THEN <<"accolta", piatto[u]>>
                     ELSE <<"respinta", piatto[u]>>
    BY <1>1, <1>11, <2>1 DEF DomandeChiare
  <2>9. Domanda(u)' = IF esito = 0 THEN <<"accolta", piatto[u]>>
                      ELSE <<"respinta", piatto[u]>>
    BY <1>1, <2>1, <2>2, <2>7 DEF DomandeChiare
  <2>10. \A w \in Utenti \ {u} : Domanda(w)' = Domanda(w)
    BY <1>1, <2>1, <2>2, AltruiOperatore
  <2> QED BY <1>3, <2>2, <2>8, <2>9, <2>10
<1>12. CASE OpServe(o) BY <1>11, <1>12 DEF OpServe
<1>13. CASE OpEsaurito(o) BY <1>11, <1>13 DEF OpEsaurito
<1> QED
  BY <1>4, <1>5, <1>8, <1>9, <1>10, <1>12, <1>13 DEF Operatore, serve_user

\* A step of a user concerns its own question.
LEMMA AltruiUtente ==
  ASSUME Dialogo, NEW u \in Utenti, Utente(u), NEW w \in Utenti \ {u}
  PROVE  Domanda(w)' = Domanda(w)
<1> USE DEF mensaVars, codaVars, opVars
<1>1. /\ richieste \in Seq(Richiesta)
      /\ risposte \in [Utenti -> Seq(Risposta)]
      /\ piatto \in [Utenti -> Piatti] /\ giorno \in 1..Giorni
  BY DEF Dialogo, Invariante, TypeOK
<1>2. /\ UNCHANGED <<op, req>> /\ piatto'[w] = piatto[w]
      /\ risposte'[w] = risposte[w]
  BY <1>1
  DEF Utente, UtInizia, UtSceglie, UtSenza, UtInvia, UtAttende, UtRiceve,
      UtNessuna, UtFineGiorno
<1>3. Accodata(w)' <=> Accodata(w)
  <2>1. CASE UtInvia(u)
    <3> DEFINE m == [utente |-> u, piatto |-> piatto[u], giorno |-> giorno]
    <3>1. m \in Richiesta /\ richieste' = Append(richieste, m) /\ m.utente = u
      BY <1>1, <2>1 DEF UtInvia, Richiesta
    <3> HIDE DEF m
    <3> QED BY <1>1, <3>1, CodaCresce
  <2>2. CASE ~UtInvia(u)
    <3>1. richieste' = richieste
      BY <2>2
      DEF Utente, UtInizia, UtSceglie, UtSenza, UtAttende, UtRiceve, UtNessuna,
          UtFineGiorno
    <3> QED BY <3>1 DEF Accodata
  <2> QED BY <2>1, <2>2
<1> QED BY <1>2, <1>3, Altrui

\* A user asks, takes its answer, goes home, or shows nothing.
LEMMA SportelloUtente ==
  ASSUME Pronto, Pronto', NEW u \in Utenti, Utente(u)
  PROVE  [Sportello!Next]_(Sportello!svars)
<1> USE DEF mensaVars, codaVars, opVars, cibo, UtVai
<1>1. /\ ut \in [Utenti -> LuoghiUtente] /\ piatto \in [Utenti -> Piatti]
      /\ richieste \in Seq(Richiesta)
      /\ risposte \in [Utenti -> Seq(Risposta)]
      /\ giorno \in 1..Giorni
      /\ Dialogo /\ Dialogo' /\ DomandeChiare /\ DomandeChiare'
  BY DomandeSonoChiare, DomandeChiareDopo
  DEF Pronto, Bilancio, Dialogo, Invariante, TypeOK
<1>2. UNCHANGED <<simulation_running, porzioni>>
  BY DEF Utente, UtInizia, UtSceglie, UtSenza, UtInvia, UtAttende, UtRiceve,
         UtNessuna, UtFineGiorno
<1>3. \A w \in Utenti \ {u} : Domanda(w)' = Domanda(w) BY <1>1, AltruiUtente
<1>4. CASE UtInvia(u)
  <2>1. /\ ut[u] = "invia" /\ ut' = [ut EXCEPT ![u] = "attende"]
        /\ piatto' = piatto /\ piatto[u] \in Piatti
    BY <1>1, <1>4 DEF UtInvia
  <2>2. ~Accodata(u) /\ ~Presa(u) /\ ~Risposto(u)
    BY <1>1, <2>1 DEF Dialogo, DomandaDiChiAttende
  <2>3. Accodata(u)'
    <3> DEFINE m == [utente |-> u, piatto |-> piatto[u], giorno |-> giorno]
    <3>1. m \in Richiesta /\ richieste' = Append(richieste, m) /\ m.utente = u
      BY <1>1, <1>4 DEF UtInvia, Richiesta
    <3> HIDE DEF m
    <3> QED BY <1>1, <3>1, CodaCresce
  <2>4. Domanda(u) = <<"nulla">> BY <1>1, <2>2 DEF DomandeChiare
  <2>5. PICK p \in Piatti : p = piatto[u] BY <2>1
  <2>6. Domanda(u)' = <<"fatta", p>> BY <1>1, <2>1, <2>3, <2>5 DEF DomandeChiare
  <2>7. Domande' = [Domande EXCEPT ![u] = <<"fatta", p>>]
    BY <1>3, <2>6, UnaSola
  <2>8. Serviti' = Serviti BY <1>1, <2>1 DEF Serviti
  <2>9. Sportello!Chiedi(u, p)
    BY <1>2, <2>4, <2>7, <2>8
    DEF Sportello!Chiedi, Sportello!Passa, Sportello!Nulla, Domande, Serviti
  <2> QED BY <2>5, <2>9 DEF Sportello!Next
<1>5. CASE UtRiceve(u)
  <2> DEFINE esito == Head(risposte[u]).esito
  <2>1. /\ risposte[u] # <<>> /\ ut[u] = "riceve"
        /\ ut' = [ut EXCEPT ![u] = IF esito = 0 THEN "servito" ELSE "prova"]
        /\ risposte' = [risposte EXCEPT ![u] = Tail(@)]
        /\ UNCHANGED <<richieste, req>> /\ piatto[u] \in Piatti
    BY <1>1, <1>5 DEF UtRiceve
  <2>2. PICK p \in Piatti : p = piatto[u] BY <2>1
  <2>3. Domanda(u) = IF esito = 0 THEN <<"accolta", p>> ELSE <<"respinta", p>>
    BY <1>1, <2>1, <2>2 DEF DomandeChiare, Risposto
  <2>4. ~Accodata(u)' /\ ~Presa(u)' /\ ~Risposto(u)'
    <3>1. ~Accodata(u) /\ ~Presa(u)
      BY <1>1, <2>1 DEF Dialogo, UnSoloPosto, Risposto
    <3>2. risposte[u] \in Seq(Risposta) /\ Len(risposte[u]) <= 1
      BY <1>1 DEF Dialogo, Distinte
    <3>3. risposte'[u] = <<>> BY <1>1, <2>1, <3>2, UnaETutte
    <3> QED BY <2>1, <3>1, <3>3 DEF Accodata, Presa, Risposto
  <2>5. Domanda(u)' = <<"nulla">> BY <1>1, <2>4 DEF DomandeChiare
  <2>6. Domande' = [Domande EXCEPT ![u] = <<"nulla">>] BY <1>3, <2>5, UnaSola
  <2>7. Serviti' = IF esito = 0 THEN Serviti \cup {u} ELSE Serviti
    BY <1>1, <2>1 DEF Serviti
  <2>8. Sportello!Ritira(u, p)
    BY <1>2, <2>3, <2>6, <2>7
    DEF Sportello!Ritira, Sportello!Passa, Sportello!Nulla, Domande, Serviti
  <2> QED BY <2>2, <2>8 DEF Sportello!Next
\* the other steps leave the question of u alone
<1>6. CASE ~UtInvia(u) /\ ~UtRiceve(u)
  <2>1. Domanda(u)' = Domanda(u)
    <3>1. CASE \E p \in Piatti : UtSceglie(u, p)
      <4>1. UNCHANGED <<richieste, risposte, req>> BY <3>1 DEF UtSceglie
      <4>2. ~Accodata(u) /\ ~Presa(u) /\ ~Risposto(u)
        BY <1>1, <3>1 DEF UtSceglie, Dialogo, DomandaDiChiAttende
      <4>3. ~Accodata(u)' /\ ~Presa(u)' /\ ~Risposto(u)'
        BY <4>1, <4>2, StessiMessaggi
      <4> QED BY <1>1, <4>2, <4>3 DEF DomandeChiare
    <3>2. CASE ~(\E p \in Piatti : UtSceglie(u, p))
      <4>1. UNCHANGED <<richieste, risposte, op, req, piatto>>
        BY <1>6, <3>2
        DEF Utente, UtInizia, UtSenza, UtAttende, UtNessuna, UtFineGiorno
      <4> QED BY <4>1, StessiMessaggi, Altrui
    <3> QED BY <3>1, <3>2
  <2>2. Domande' = Domande BY <1>3, <2>1, NessunaDomanda
  <2>3. CASE ut[u] = "servito"
    <3>1. ~simulation_running /\ ut' = [ut EXCEPT ![u] = "fuori"]
      BY <1>6, <2>3
      DEF Utente, UtInizia, UtSceglie, UtSenza, UtAttende, UtNessuna,
          UtFineGiorno
    <3>2. u \in Serviti /\ Serviti' = Serviti \ {u}
      BY <1>1, <2>3, <3>1 DEF Serviti
    <3>3. Sportello!Esci(u)
      BY <1>2, <2>2, <3>1, <3>2 DEF Sportello!Esci, Domande, Serviti
    <3> QED BY <3>3 DEF Sportello!Next
  <2>4. CASE ut[u] # "servito"
    <3>1. Serviti' = Serviti
      BY <1>1, <1>6, <2>4
      DEF Utente, UtInizia, UtSceglie, UtSenza, UtAttende, UtNessuna,
          UtFineGiorno, Serviti
    <3> QED BY <1>2, <2>2, <3>1 DEF Sportello!svars, Domande, Serviti
  <2> QED BY <2>3, <2>4
<1> QED BY <1>4, <1>5, <1>6

\* The station implements the counter: a question is decided once, "piatto
\* terminato" is said of a dish when no portion of it is left, each portion that
\* leaves goes to a question that is answered "ok", a user has a dish only with
\* such an answer (operatore.c:231-248, utente.c:196-220), and a refill adds to a
\* dish below the cap (stations.c:61) - as long as no refill races an operator on
\* the same dish.
THEOREM StazioneImplementaSportello ==
  ASSUME Puntuale PROVE Spec /\ []NessunaCorsa => ImplementaSportello
<1>1. Init => Sportello!Init
  <2> SUFFICES ASSUME Init PROVE Sportello!Init OBVIOUS
  <2>1. Dialogo /\ Fermi BY DialogoIniziale DEF Init, Fermi
  <2>2. Domande = [u \in Utenti |-> <<"nulla">>] /\ Serviti = {}
    BY <2>1, TuttoFermo DEF Init
  <2> QED BY <2>2 DEF Init, Sportello!Init, Sportello!Nulla, Domande, Serviti
<1>2. ASSUME Pronto, Pronto', [Next]_vars
      PROVE  [Sportello!Next]_(Sportello!svars)
  <2>1. CASE UNCHANGED vars
    <3>1. \A u \in Utenti : Domanda(u)' = Domanda(u)
      BY <2>1, StessiMessaggi, Altrui DEF vars, codaVars, opVars, utVars
    <3>2. Domande' = Domande BY <3>1, NessunaDomanda
    <3> QED
      BY <2>1, <3>2
      DEF vars, mensaVars, utVars, cibo, Sportello!svars, Domande
  <2> QED
    BY <1>2, <2>1, SportelloResponsabile, SportelloOperatore, SportelloUtente
    DEF Next
<1>3. Pronto /\ NessunaCorsa /\ [Next]_vars => Pronto' BY ProntoInduttivo
<1> QED
  BY <1>1, <1>2, <1>3, ProntoIniziale, PTL
  DEF Spec, ImplementaSportello, Sportello!Spec

\* ... which operators alone never violate.
THEOREM SoliOperatoriImplementano ==
  ASSUME Puntuale, Rifornimenti = 0 PROVE Spec => ImplementaSportello
BY SenzaRifornimenti, StazioneImplementaSportello, PTL
=============================================================================
