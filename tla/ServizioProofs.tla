--------------------------- MODULE ServizioProofs ---------------------------
(***************************************************************************)
(* Theorems about a station, for every number of users, operators, dishes  *)
(* and portions, every capacity of the queue and every timing.             *)
(***************************************************************************)
EXTENDS Servizio, FiniteSetTheorems, SequenceTheorems, TLAPS

Invariante == TypeOK /\ PorzioniInduttivo

\* The refill never has to fit a portion over the cap, and a day begins with one.
LEMMA TettoPositivo ==
  /\ Tetto \in Nat \ {0}
  /\ AVGREFILL \in 1..Tetto
  /\ MAXPORZIONI \in 0..Tetto
BY CostantiServizio DEF Tetto

LEMMA InvarianteIniziale == Init => Invariante
<1> SUFFICES ASSUME Init PROVE Invariante OBVIOUS
<1>1. /\ porzioni \in [Piatti -> Int] /\ conto \in [Piatti -> Int]
      /\ PorzioniLimitate
  BY TettoPositivo, CostantiServizio DEF Init, PorzioniLimitate
<1>2. /\ richieste \in Seq(Richiesta)
      /\ risposte \in [Utenti -> Seq(Risposta)]
  BY DEF Init
<1>3. /\ op \in [Operatori -> LuoghiOperatore]
      /\ req \in [Operatori -> Richiesta \cup {Nessuna}]
      /\ letto \in [Operatori -> Int]
  BY DEF Init, LuoghiOperatore
<1>4. /\ ut \in [Utenti -> LuoghiUtente]
      /\ piatto \in [Utenti -> Piatti]
      /\ provati \in [Utenti -> SUBSET Piatti]
  BY DEF Init, LuoghiUtente
<1>5. /\ giorno \in 1..Giorni /\ rifornimenti \in 0..Rifornimenti
      /\ letto_refill \in Int
  BY CostantiServizio DEF Init
<1>6. /\ mensa \in LuoghiMensa /\ da_rifornire \subseteq Piatti
      /\ in_refill \in Piatti /\ simulation_running \in BOOLEAN
  BY DEF Init, LuoghiMensa
<1>7. TypeOK BY <1>1, <1>2, <1>3, <1>4, <1>5, <1>6 DEF TypeOK
<1> QED BY <1>1, <1>7 DEF Invariante, PorzioniInduttivo, Init

LEMMA InvarianteResponsabile ==
  ASSUME Invariante, Responsabile
  PROVE  Invariante'
<1> USE TettoPositivo, CostantiServizio
    DEF Invariante, TypeOK, PorzioniInduttivo, PorzioniLimitate, LuoghiMensa,
        codaVars, opVars, utVars, cibo
<1>1. CASE ApriGiorno BY <1>1 DEF ApriGiorno
<1>2. CASE RefillInizia BY <1>2 DEF RefillInizia
<1>3. ASSUME NEW p \in Piatti, RefillControlla(p) PROVE Invariante'
  BY <1>3 DEF RefillControlla
<1>4. CASE RefillLegge BY <1>4 DEF RefillLegge
<1>5. CASE RefillScrive
  <2>1. letto_refill + 1 \in 1..Tetto BY <1>5 DEF RefillScrive
  <2>2. /\ porzioni' \in [Piatti -> Int] /\ conto' \in [Piatti -> Int]
        /\ PorzioniLimitate'
    BY <1>5, <2>1 DEF RefillScrive
  <2>3. \A o \in Operatori : op[o] = "leggi" => porzioni'[req[o].piatto] >= 1
    BY <1>5, <2>1 DEF RefillScrive, Richiesta
  <2> QED BY <1>5, <2>2, <2>3 DEF RefillScrive
<1>6. CASE RefillFinisce BY <1>6 DEF RefillFinisce
<1>7. CASE end_day BY <1>7 DEF end_day
<1>8. CASE clear_message_queues
  <2>1. richieste' \in Seq(Richiesta) /\ risposte' \in [Utenti -> Seq(Risposta)]
    BY <1>8 DEF clear_message_queues
  <2> QED BY <1>8, <2>1 DEF clear_message_queues
<1>9. CASE stations_refill_day
  <2>1. /\ porzioni' \in [Piatti -> Int] /\ conto' \in [Piatti -> Int]
        /\ PorzioniLimitate'
    BY <1>9 DEF stations_refill_day
  <2>2. \A o \in Operatori : op[o] = "leggi" => porzioni'[req[o].piatto] >= 1
    BY <1>9 DEF stations_refill_day, Richiesta
  <2>3. rifornimenti' \in 0..Rifornimenti BY <1>9 DEF stations_refill_day
  <2>4. /\ mensa' = "apre"
        /\ UNCHANGED <<simulation_running, giorno, da_rifornire, in_refill,
                       letto_refill, codaVars, opVars, utVars>>
    BY <1>9 DEF stations_refill_day
  <2>5. TypeOK' BY <2>1, <2>3, <2>4
  <2>6. PorzioniInduttivo' BY <2>1, <2>2, <2>4
  <2> QED BY <2>5, <2>6
<1> QED
  BY <1>1, <1>2, <1>3, <1>4, <1>5, <1>6, <1>7, <1>8, <1>9 DEF Responsabile

LEMMA InvarianteOperatore ==
  ASSUME Invariante, NEW o \in Operatori, Operatore(o)
  PROVE  Invariante'
<1> USE TettoPositivo, CostantiServizio
    DEF Invariante, TypeOK, PorzioniInduttivo, PorzioniLimitate,
        LuoghiOperatore, mensaVars, codaVars, utVars, cibo, OpVai
<1>1. CASE OpInizia(o) BY <1>1 DEF OpInizia
<1>2. CASE OpTurno(o)
  <2>1. PICK a \in {"riceve", "fuori"} : OpVai(o, "turno", a)
    BY <1>2 DEF OpTurno
  <2> QED BY <1>2, <2>1 DEF OpTurno
<1>3. CASE OpRiceve(o)
  <2>1. Head(richieste) \in Richiesta /\ Tail(richieste) \in Seq(Richiesta)
    BY <1>3 DEF OpRiceve
  <2> QED BY <1>3, <2>1 DEF OpRiceve
<1>4. CASE OpNessuna(o) BY <1>4 DEF OpNessuna
<1>5. CASE OpControlla(o) BY <1>5 DEF OpControlla, MutexLibero, Richiesta
<1>6. CASE OpLegge(o)
  <2>1. porzioni[req[o].piatto] \in 1..Tetto BY <1>6 DEF OpLegge, Richiesta
  <2> QED BY <1>6, <2>1 DEF OpLegge
<1>7. CASE OpScrive(o)
  <2>1. letto[o] - 1 \in 0..(Tetto - 1) BY <1>7 DEF OpScrive
  <2>2. req[o] \in Richiesta BY <1>7 DEF OpScrive
  <2>3. req[o].piatto \in Piatti BY <2>2 DEF Richiesta
  <2>4. porzioni' = [porzioni EXCEPT ![req[o].piatto] = letto[o] - 1]
    BY <1>7 DEF OpScrive
  <2>5. porzioni' \in [Piatti -> Int] BY <2>1, <2>3, <2>4
  <2>6. conto' \in [Piatti -> Int] BY <1>7, <2>3 DEF OpScrive
  <2>7. PorzioniLimitate' BY <2>1, <2>3, <2>4
  <2>8. mensa = "leggi" => porzioni'[in_refill] < Tetto
    BY <2>1, <2>3, <2>4
  <2>9. \A altro \in Operatori : op'[altro] # "leggi" BY <1>7 DEF OpScrive
  <2> QED BY <1>7, <2>5, <2>6, <2>7, <2>8, <2>9 DEF OpScrive
<1>8. ASSUME NEW esito \in {0, 1}, Rispondi(o, esito),
             op[o] \in {"serve", "esaurito"}, OpVai(o, op[o], "turno")
      PROVE  Invariante'
  <2> DEFINE r == [esito |-> esito, piatto |-> req[o].piatto,
                   giorno |-> req[o].giorno]
             u == req[o].utente
  <2>1. r \in Risposta /\ u \in Utenti BY <1>8 DEF Richiesta, Risposta
  <2>2. Append(risposte[u], r) \in Seq(Risposta) BY <2>1
  <2>3. risposte' \in [Utenti -> Seq(Risposta)]
    BY <1>8, <2>2 DEF Rispondi
  <2>4. UNCHANGED <<mensaVars, richieste, letto, utVars, cibo>>
    BY <1>8 DEF Rispondi
  <2>5. req' = [req EXCEPT ![o] = Nessuna] /\ op' = [op EXCEPT ![o] = "turno"]
    BY <1>8 DEF Rispondi
  <2>6. TypeOK' BY <2>3, <2>4, <2>5
  <2>7. PorzioniInduttivo' BY <2>4, <2>5
  <2> QED BY <2>6, <2>7
<1>9. CASE OpServe(o) BY <1>8, <1>9 DEF OpServe
<1>10. CASE OpEsaurito(o) BY <1>8, <1>10 DEF OpEsaurito
<1> QED
  BY <1>1, <1>2, <1>3, <1>4, <1>5, <1>6, <1>7, <1>9, <1>10
  DEF Operatore, serve_user

LEMMA InvarianteUtente ==
  ASSUME Invariante, NEW u \in Utenti, Utente(u)
  PROVE  Invariante'
<1> USE DEF Invariante, TypeOK, PorzioniInduttivo, PorzioniLimitate,
            LuoghiUtente, mensaVars, codaVars, opVars, cibo, UtVai
<1>1. CASE UtInizia(u) BY <1>1 DEF UtInizia
<1>2. ASSUME NEW p \in Piatti, UtSceglie(u, p) PROVE Invariante'
  BY <1>2 DEF UtSceglie
<1>3. CASE UtSenza(u) BY <1>3 DEF UtSenza
<1>4. CASE UtInvia(u)
  <2>1. [utente |-> u, piatto |-> piatto[u], giorno |-> giorno] \in Richiesta
    BY DEF Richiesta
  <2>2. richieste' \in Seq(Richiesta) BY <1>4, <2>1 DEF UtInvia
  <2> QED BY <1>4, <2>2 DEF UtInvia
<1>5. CASE UtAttende(u) BY <1>5 DEF UtAttende
<1>6. CASE UtRiceve(u)
  <2>1. Tail(risposte[u]) \in Seq(Risposta) BY <1>6 DEF UtRiceve
  <2> QED BY <1>6, <2>1 DEF UtRiceve
<1>7. CASE UtNessuna(u) BY <1>7 DEF UtNessuna
<1>8. CASE UtFineGiorno(u) BY <1>8 DEF UtFineGiorno
<1> QED BY <1>1, <1>2, <1>3, <1>4, <1>5, <1>6, <1>7, <1>8 DEF Utente

LEMMA InvarianteInduttivo == Invariante /\ [Next]_vars => Invariante'
<1>1. Invariante /\ UNCHANGED vars => Invariante'
  BY DEF Invariante, TypeOK, PorzioniInduttivo, PorzioniLimitate, vars,
         mensaVars, codaVars, opVars, utVars, cibo
<1> QED
  BY <1>1, InvarianteResponsabile, InvarianteOperatore, InvarianteUtente
  DEF Next

\* Every variable keeps its type, the messages in the queue included.
THEOREM TypeCorrect == Spec => []TypeOK
<1>1. Invariante => TypeOK BY DEF Invariante
<1> QED BY <1>1, InvarianteIniziale, InvarianteInduttivo, PTL DEF Spec

\* The portions stay between zero and the cap (operatore.c:231, stations.c:61)
\* however the unlocked refill interleaves with any number of operators.
THEOREM PorzioniSempreLimitate == Spec => []PorzioniLimitate
<1>1. Invariante => PorzioniLimitate BY DEF Invariante, PorzioniInduttivo
<1> QED BY <1>1, InvarianteIniziale, InvarianteInduttivo, PTL DEF Spec

LEMMA InvarianteSempre == Spec => []Invariante
BY InvarianteIniziale, InvarianteInduttivo, PTL DEF Spec

-----------------------------------------------------------------------------
(* One question at a time: what each user has in the air, when every day is *)
(* opened after everybody has left the last one.                            *)

\* the request of u is in the queue, with an operator, or answered
Accodata(u) == \E i \in 1..Len(richieste) : richieste[i].utente = u
Presa(u)    == \E o \in Operatori : req[o] # Nessuna /\ req[o].utente = u
Risposto(u) == risposte[u] # <<>>

\* the manager prepares a day in an empty canteen, and nothing in the queue
\* survives from the last one
Chiusura ==
  /\ simulation_running <=> mensa \notin {"chiuso", "riempi", "apre"}
  /\ mensa \in {"riempi", "apre"} =>
       Fermi /\ richieste = <<>> /\ \A u \in Utenti : risposte[u] = <<>>

\* an operator holds a request exactly while it serves it
ConRichiesta ==
  \A o \in Operatori :
    req[o] # Nessuna <=> op[o] \in {"lock", "leggi", "scrivi", "serve", "esaurito"}

\* no user is twice anywhere
Distinte ==
  /\ \A i, j \in 1..Len(richieste) :
       richieste[i].utente = richieste[j].utente => i = j
  /\ \A o, altro \in Operatori :
       req[o] # Nessuna /\ req[altro] # Nessuna
         /\ req[o].utente = req[altro].utente => o = altro
  /\ \A u \in Utenti : Len(risposte[u]) <= 1

\* ... nor in two places
UnSoloPosto ==
  \A u \in Utenti :
    /\ Accodata(u) => ~Presa(u) /\ ~Risposto(u)
    /\ Presa(u) => ~Risposto(u)

\* a user that waits has a question, and one that may ask has none
DomandaDiChiAttende ==
  \A u \in Utenti :
    /\ ut[u] \in {"attende", "riceve"} => Accodata(u) \/ Presa(u) \/ Risposto(u)
    /\ (ut[u] = "invia" \/ (simulation_running /\ ut[u] \notin {"attende", "riceve"}))
         => ~Accodata(u) /\ ~Presa(u) /\ ~Risposto(u)

\* every message is of today and for the dish its user has in mind
DiOggi(m, u) == m.piatto = piatto[u] /\ m.giorno = giorno
Fresche ==
  /\ \A i \in 1..Len(richieste) : DiOggi(richieste[i], richieste[i].utente)
  /\ \A o \in Operatori : req[o] # Nessuna => DiOggi(req[o], req[o].utente)
  /\ \A u \in Utenti : \A i \in 1..Len(risposte[u]) : DiOggi(risposte[u][i], u)

Dialogo ==
  /\ Invariante /\ Chiusura /\ ConRichiesta /\ Distinte /\ UnSoloPosto
  /\ DomandaDiChiAttende /\ Fresche

\* Taking the only element leaves nothing.
LEMMA UnaETutte ==
  ASSUME NEW S, NEW s \in Seq(S), s # <<>>, Len(s) <= 1
  PROVE  Tail(s) = <<>>
<1>1. Len(s) \in Nat /\ Len(s) # 0 BY EmptySeq
<1>2. Len(s) = 1 BY <1>1
<1>3. Tail(s) \in Seq(S) /\ Len(Tail(s)) = 0 BY <1>2
<1> QED BY <1>3, EmptySeq

LEMMA DialogoIniziale == Init => Dialogo
<1> SUFFICES ASSUME Init PROVE Dialogo OBVIOUS
<1>1. Invariante BY InvarianteIniziale
<1>2. \A u \in Utenti : ~Accodata(u) /\ ~Presa(u) /\ ~Risposto(u)
  BY DEF Init, Accodata, Presa, Risposto
<1>3. Len(richieste) = 0 /\ \A u \in Utenti : Len(risposte[u]) = 0
  BY DEF Init
<1> QED
  BY <1>1, <1>2, <1>3
  DEF Dialogo, Init, Chiusura, Fermi, ConRichiesta, Distinte, UnSoloPosto,
      DomandaDiChiAttende, Fresche

\* Who has a message where depends on the queue and on the requests held.
LEMMA StessiMessaggi ==
  ASSUME UNCHANGED <<richieste, risposte, req>>, NEW u \in Utenti
  PROVE  /\ Accodata(u)' <=> Accodata(u)
         /\ Presa(u)' <=> Presa(u)
         /\ Risposto(u)' <=> Risposto(u)
BY DEF Accodata, Presa, Risposto

\* The steps that move no message and no user and close no day.
LEMMA DialogoFermo ==
  ASSUME Dialogo, Invariante', Puntuale,
         UNCHANGED <<richieste, risposte, req, giorno, piatto, ut>>,
         ConRichiesta', Chiusura', simulation_running' => simulation_running
  PROVE  Dialogo'
<1> USE StessiMessaggi DEF Dialogo
<1>1. Distinte' BY DEF Distinte
<1>2. UnSoloPosto' BY DEF UnSoloPosto
<1>3. DomandaDiChiAttende' BY DEF DomandaDiChiAttende
<1>4. Fresche' BY DEF Fresche, DiOggi
<1> QED BY <1>1, <1>2, <1>3, <1>4

LEMMA DialogoResponsabile ==
  ASSUME Dialogo, Invariante', Puntuale, Responsabile
  PROVE  Dialogo'
<1> USE DEF mensaVars, codaVars, opVars, utVars, cibo
<1>1. CASE ApriGiorno
  <2>1. /\ UNCHANGED <<richieste, risposte, op, req, giorno, piatto, ut>>
        /\ mensa' = "giorno" /\ simulation_running'
    BY <1>1 DEF ApriGiorno
  <2>2. /\ richieste = <<>>
        /\ \A u \in Utenti : risposte[u] = <<>> /\ ut[u] = "fuori"
        /\ \A o \in Operatori : op[o] = "fuori" /\ req[o] = Nessuna
    BY <1>1 DEF ApriGiorno, Dialogo, Chiusura, Fermi, ConRichiesta
  <2>3. \A u \in Utenti : ~Accodata(u)' /\ ~Presa(u)' /\ ~Risposto(u)'
    BY <2>1, <2>2 DEF Accodata, Presa, Risposto
  <2>4. Chiusura' /\ ConRichiesta'
    BY <2>1, <2>2 DEF Chiusura, ConRichiesta, Dialogo
  <2>5. Distinte' /\ UnSoloPosto' /\ DomandaDiChiAttende'
    BY <2>1, <2>2, <2>3
    DEF Dialogo, Distinte, UnSoloPosto, DomandaDiChiAttende
  <2>6. Fresche' BY <2>1 DEF Dialogo, Fresche, DiOggi
  <2> QED BY <2>4, <2>5, <2>6 DEF Dialogo
<1>2. CASE RefillInizia
  BY <1>2, DialogoFermo DEF RefillInizia, Dialogo, Chiusura, ConRichiesta
<1>3. ASSUME NEW p \in Piatti, RefillControlla(p) PROVE Dialogo'
  BY <1>3, DialogoFermo DEF RefillControlla, Dialogo, Chiusura, ConRichiesta
<1>4. CASE RefillLegge
  BY <1>4, DialogoFermo DEF RefillLegge, Dialogo, Chiusura, ConRichiesta
<1>5. CASE RefillScrive
  BY <1>5, DialogoFermo DEF RefillScrive, Dialogo, Chiusura, ConRichiesta
<1>6. CASE RefillFinisce
  BY <1>6, DialogoFermo DEF RefillFinisce, Dialogo, Chiusura, ConRichiesta
<1>7. CASE end_day
  BY <1>7, DialogoFermo DEF end_day, Dialogo, Chiusura, ConRichiesta
<1>8. CASE clear_message_queues
  <2>1. /\ UNCHANGED <<op, req, ut, piatto, simulation_running>>
        /\ richieste' = <<>> /\ \A u \in Utenti : risposte'[u] = <<>>
        /\ mensa = "chiuso" /\ mensa' = "riempi" /\ Fermi
    BY <1>8 DEF clear_message_queues
  <2>2. \A o \in Operatori : req[o] = Nessuna
    BY <2>1 DEF Dialogo, ConRichiesta, Fermi
  <2>3. \A u \in Utenti : ~Accodata(u)' /\ ~Presa(u)' /\ ~Risposto(u)'
    BY <2>1, <2>2 DEF Accodata, Presa, Risposto
  <2>4. ConRichiesta' BY <2>1 DEF Dialogo, ConRichiesta
  <2>5. Chiusura' BY <2>1 DEF Dialogo, Chiusura, Fermi
  <2>6. Distinte' /\ UnSoloPosto' /\ DomandaDiChiAttende'
    BY <2>1, <2>2, <2>3
    DEF Dialogo, Distinte, UnSoloPosto, DomandaDiChiAttende, Fermi
  <2>7. Fresche' BY <2>1, <2>2 DEF Dialogo, Fresche, DiOggi
  <2> QED BY <2>4, <2>5, <2>6, <2>7 DEF Dialogo
<1>9. CASE stations_refill_day
  BY <1>9, DialogoFermo
  DEF stations_refill_day, Dialogo, Chiusura, ConRichiesta, Fermi
<1> QED
  BY <1>1, <1>2, <1>3, <1>4, <1>5, <1>6, <1>7, <1>8, <1>9 DEF Responsabile

\* The queue without its first request, of which its user has no other.
LEMMA CodaAvanza ==
  ASSUME richieste \in Seq(Richiesta), Distinte, richieste # <<>>,
         richieste' = Tail(richieste), NEW u
  PROVE  Accodata(u)' <=> Accodata(u) /\ u # Head(richieste).utente
<1>1. /\ Head(richieste) = richieste[1] /\ Len(richieste) \in Nat \ {0}
      /\ Len(richieste') = Len(richieste) - 1
      /\ \A i \in 1..Len(richieste') :
           richieste'[i] = richieste[i + 1] /\ i + 1 \in 1..Len(richieste)
  OBVIOUS
<1>2. ASSUME NEW i \in 1..Len(richieste'), richieste'[i].utente = u
      PROVE  Accodata(u) /\ u # Head(richieste).utente
  <2>1. i + 1 # 1 /\ 1 \in 1..Len(richieste) BY <1>1
  <2> QED BY <1>1, <1>2, <2>1 DEF Accodata, Distinte
<1>3. ASSUME NEW i \in 1..Len(richieste), richieste[i].utente = u,
             u # Head(richieste).utente
      PROVE  Accodata(u)'
  <2>1. i - 1 \in 1..Len(richieste') /\ (i - 1) + 1 = i BY <1>1, <1>3
  <2> QED BY <1>1, <1>3, <2>1 DEF Accodata
<1> QED BY <1>2, <1>3 DEF Accodata

\* ... and with one more.
LEMMA CodaCresce ==
  ASSUME richieste \in Seq(Richiesta), NEW m \in Richiesta,
         richieste' = Append(richieste, m), NEW u
  PROVE  Accodata(u)' <=> Accodata(u) \/ u = m.utente
<1>1. /\ Len(richieste) \in Nat /\ Len(richieste') = Len(richieste) + 1
      /\ richieste'[Len(richieste) + 1] = m
      /\ \A i \in 1..Len(richieste) : richieste'[i] = richieste[i]
  OBVIOUS
<1>2. Accodata(u)' => Accodata(u) \/ u = m.utente BY <1>1 DEF Accodata
<1>3. Accodata(u) => Accodata(u)' BY <1>1 DEF Accodata
<1>4. u = m.utente => Accodata(u)'
  <2>1. Len(richieste) + 1 \in 1..Len(richieste') BY <1>1
  <2> QED BY <1>1, <2>1 DEF Accodata
<1> QED BY <1>2, <1>3, <1>4

LEMMA DialogoOperatore ==
  ASSUME Dialogo, Invariante', Puntuale, NEW o \in Operatori, Operatore(o)
  PROVE  Dialogo'
<1> USE DEF mensaVars, codaVars, utVars, cibo, OpVai
<1>0. /\ op \in [Operatori -> LuoghiOperatore]
      /\ req \in [Operatori -> Richiesta \cup {Nessuna}]
      /\ richieste \in Seq(Richiesta)
      /\ risposte \in [Utenti -> Seq(Risposta)]
  BY DEF Dialogo, Invariante, TypeOK
\* an operator stands elsewhere than outside only in an open or a closed day
<1>00. op[o] # "fuori" \/ simulation_running =>
         mensa \notin {"riempi", "apre"}
  BY DEF Dialogo, Chiusura, Fermi
<1>1. CASE OpInizia(o)
  BY <1>0, <1>00, <1>1, DialogoFermo
  DEF OpInizia, Dialogo, Chiusura, ConRichiesta
<1>2. CASE OpTurno(o)
  <2>1. PICK a \in {"riceve", "fuori"} : OpVai(o, "turno", a)
    BY <1>2 DEF OpTurno
  <2>2. UNCHANGED <<mensaVars, codaVars, req, letto, utVars, cibo>>
    BY <1>2 DEF OpTurno
  <2> QED
    BY <1>0, <1>00, <2>1, <2>2, DialogoFermo
    DEF Dialogo, Chiusura, ConRichiesta
<1>3. CASE OpRiceve(o)
  <2> DEFINE h == Head(richieste)
  <2>1. /\ richieste # <<>> /\ richieste' = Tail(richieste)
        /\ op[o] = "riceve" /\ op' = [op EXCEPT ![o] = "lock"]
        /\ req' = [req EXCEPT ![o] = h]
        /\ UNCHANGED <<mensaVars, risposte, utVars>>
    BY <1>3 DEF OpRiceve
  <2>2. req[o] = Nessuna BY <2>1 DEF Dialogo, ConRichiesta
  <2>3. /\ h = richieste[1] /\ Len(richieste) \in Nat \ {0} /\ h \in Richiesta
        /\ Len(richieste') = Len(richieste) - 1
        /\ \A i \in 1..Len(richieste') :
             richieste'[i] = richieste[i + 1] /\ i + 1 \in 1..Len(richieste)
    BY <1>0, <2>1
  <2>4. h # Nessuna BY <2>3, NessunaNonRichiesta
  <2>5. ASSUME NEW u \in Utenti
        PROVE  /\ Accodata(u)' <=> Accodata(u) /\ u # h.utente
               /\ Presa(u)' <=> Presa(u) \/ u = h.utente
               /\ Risposto(u)' <=> Risposto(u)
    <3>1. Accodata(u)' <=> Accodata(u) /\ u # h.utente
      BY <1>0, <2>1, CodaAvanza DEF Dialogo
    <3>3. Presa(u)' <=> Presa(u) \/ u = h.utente
      BY <1>0, <2>1, <2>2, <2>4 DEF Presa
    <3>4. Risposto(u)' <=> Risposto(u) BY <2>1 DEF Risposto
    <3> QED BY <3>1, <3>3, <3>4
  <2>6. Accodata(h.utente) /\ h.utente \in Utenti
    BY <2>3 DEF Accodata, Richiesta
  <2>7. ConRichiesta' BY <1>0, <2>1, <2>4 DEF Dialogo, ConRichiesta
  <2>8. Chiusura' BY <1>0, <1>00, <2>1 DEF Dialogo, Chiusura
  <2>9. Distinte'
    <3>1. \A i, j \in 1..Len(richieste') :
            richieste'[i].utente = richieste'[j].utente => i = j
      <4> SUFFICES ASSUME NEW i \in 1..Len(richieste'),
                          NEW j \in 1..Len(richieste'),
                          richieste'[i].utente = richieste'[j].utente
                   PROVE  i = j
        OBVIOUS
      <4>1. i + 1 = j + 1 BY <2>3 DEF Dialogo, Distinte
      <4> QED BY <2>3, <4>1
    <3>2. \A altro \in Operatori :
            req[altro] # Nessuna => req[altro].utente # h.utente
      BY <2>6 DEF Dialogo, UnSoloPosto, Presa
    <3>3. \A p, altro \in Operatori :
            req'[p] # Nessuna /\ req'[altro] # Nessuna
              /\ req'[p].utente = req'[altro].utente => p = altro
      BY <1>0, <2>1, <3>2 DEF Dialogo, Distinte
    <3> QED BY <2>1, <3>1, <3>3 DEF Dialogo, Distinte
  <2>10. UnSoloPosto' BY <2>5, <2>6 DEF Dialogo, UnSoloPosto
  <2>11. DomandaDiChiAttende'
    BY <2>1, <2>5, <2>6 DEF Dialogo, DomandaDiChiAttende
  <2>12. Fresche'
    <3>1. DiOggi(h, h.utente) BY <2>3 DEF Dialogo, Fresche
    <3>2. \A i \in 1..Len(richieste') :
            DiOggi(richieste'[i], richieste'[i].utente)
      BY <2>3 DEF Dialogo, Fresche
    <3>3. \A p \in Operatori : req'[p] # Nessuna => DiOggi(req'[p], req'[p].utente)
      BY <1>0, <2>1, <3>1 DEF Dialogo, Fresche
    <3> QED BY <2>1, <3>2, <3>3 DEF Dialogo, Fresche, DiOggi
  <2> QED BY <2>7, <2>8, <2>9, <2>10, <2>11, <2>12 DEF Dialogo
<1>4. CASE OpNessuna(o)
  BY <1>0, <1>00, <1>4, DialogoFermo
  DEF OpNessuna, Dialogo, Chiusura, ConRichiesta
<1>5. CASE OpControlla(o)
  BY <1>0, <1>00, <1>5, DialogoFermo
  DEF OpControlla, Dialogo, Chiusura, ConRichiesta
<1>6. CASE OpLegge(o)
  BY <1>0, <1>00, <1>6, DialogoFermo
  DEF OpLegge, Dialogo, Chiusura, ConRichiesta
<1>7. CASE OpScrive(o)
  BY <1>0, <1>00, <1>7, DialogoFermo
  DEF OpScrive, Dialogo, Chiusura, ConRichiesta
<1>8. ASSUME NEW esito \in {0, 1}, Rispondi(o, esito),
             op[o] \in {"serve", "esaurito"}, OpVai(o, op[o], "turno")
      PROVE  Dialogo'
  <2> DEFINE v == req[o].utente
             r == [esito |-> esito, piatto |-> req[o].piatto,
                   giorno |-> req[o].giorno]
             una == Append(<<>>, r)
  <2>1. req[o] # Nessuna /\ req[o] \in Richiesta /\ v \in Utenti /\ r \in Risposta
    BY <1>0, <1>8 DEF Dialogo, ConRichiesta, Richiesta, Risposta
  <2>2. /\ risposte' = [risposte EXCEPT ![v] = Append(@, r)]
        /\ req' = [req EXCEPT ![o] = Nessuna]
        /\ op' = [op EXCEPT ![o] = "turno"]
        /\ UNCHANGED <<mensaVars, richieste, utVars>>
    BY <1>8 DEF Rispondi
  <2>3. Presa(v) BY <2>1 DEF Presa
  <2>4. risposte[v] = <<>> /\ ~Accodata(v)
    BY <2>1, <2>3 DEF Dialogo, UnSoloPosto, Risposto
  <2>5. \A u \in Utenti :
          risposte'[u] = IF u = v THEN una ELSE risposte[u]
    BY <1>0, <2>1, <2>2, <2>4
  <2>6. Len(una) = 1 /\ una[1] = r /\ una # <<>> BY <2>1
  <2> HIDE DEF una, r, v
  <2>7. ASSUME NEW u \in Utenti
        PROVE  /\ Accodata(u)' <=> Accodata(u)
               /\ Presa(u)' <=> Presa(u) /\ u # v
               /\ Risposto(u)' <=> Risposto(u) \/ u = v
    <3>1. Accodata(u)' <=> Accodata(u) BY <2>2 DEF Accodata
    <3>2. Presa(u)' <=> Presa(u) /\ u # v
      BY <1>0, <2>1, <2>2 DEF Presa, Dialogo, Distinte, v
    <3>3. Risposto(u)' <=> Risposto(u) \/ u = v
      BY <2>5, <2>6 DEF Risposto
    <3> QED BY <3>1, <3>2, <3>3
  <2>8. ConRichiesta' BY <1>0, <2>1, <2>2 DEF Dialogo, ConRichiesta
  <2>9. Chiusura' BY <1>00, <1>8, <2>2 DEF Dialogo, Chiusura
  <2>10. Distinte'
    <3>1. ASSUME NEW u \in Utenti PROVE Len(risposte'[u]) <= 1
      <4>1. CASE u = v
        <5>1. risposte'[u] = una BY <2>5, <4>1
        <5>2. Len(risposte'[u]) = 1 BY <2>6, <5>1
        <5> QED BY <5>2
      <4>2. CASE u # v
        <5>1. risposte'[u] = risposte[u] BY <2>5, <4>2
        <5> QED BY <5>1 DEF Dialogo, Distinte
      <4> QED BY <4>1, <4>2
    <3>2. \A p, altro \in Operatori :
            req'[p] # Nessuna /\ req'[altro] # Nessuna
              /\ req'[p].utente = req'[altro].utente => p = altro
      BY <1>0, <2>2 DEF Dialogo, Distinte
    <3> QED BY <2>2, <3>1, <3>2 DEF Dialogo, Distinte
  <2>11. UnSoloPosto' BY <2>1, <2>3, <2>4, <2>7 DEF Dialogo, UnSoloPosto
  <2>12. DomandaDiChiAttende'
    BY <2>1, <2>2, <2>3, <2>7 DEF Dialogo, DomandaDiChiAttende
  <2>13. Fresche'
    <3>1. DiOggi(r, v) BY <2>1 DEF Dialogo, Fresche, DiOggi, r, v
    <3>2. \A u \in Utenti : \A i \in 1..Len(risposte'[u]) : DiOggi(risposte'[u][i], u)
      <4> SUFFICES ASSUME NEW u \in Utenti, NEW i \in 1..Len(risposte'[u])
                   PROVE  DiOggi(risposte'[u][i], u)
        OBVIOUS
      <4>1. CASE u = v
        <5>1. risposte'[u] = una BY <2>5, <4>1
        <5>2. i \in 1..Len(una) BY <5>1
        <5>3. i = 1 BY <2>6, <5>2
        <5>4. risposte'[u][i] = r BY <2>6, <5>1, <5>3
        <5> QED BY <3>1, <4>1, <5>4
      <4>2. CASE u # v BY <2>5, <4>2 DEF Dialogo, Fresche
      <4> QED BY <4>1, <4>2
    <3>3. \A p \in Operatori : req'[p] # Nessuna => DiOggi(req'[p], req'[p].utente)
      BY <1>0, <2>2 DEF Dialogo, Fresche
    <3> QED BY <2>2, <3>2, <3>3 DEF Dialogo, Fresche, DiOggi
  <2> QED BY <2>8, <2>9, <2>10, <2>11, <2>12, <2>13 DEF Dialogo
<1>9. CASE OpServe(o) BY <1>8, <1>9 DEF OpServe
<1>10. CASE OpEsaurito(o) BY <1>8, <1>10 DEF OpEsaurito
<1> QED
  BY <1>1, <1>2, <1>3, <1>4, <1>5, <1>6, <1>7, <1>9, <1>10
  DEF Operatore, serve_user

LEMMA DialogoUtente ==
  ASSUME Dialogo, Invariante', Puntuale, NEW u \in Utenti, Utente(u)
  PROVE  Dialogo'
<1> USE DEF mensaVars, codaVars, opVars, cibo, UtVai
<1>0. /\ ut \in [Utenti -> LuoghiUtente]
      /\ piatto \in [Utenti -> Piatti]
      /\ richieste \in Seq(Richiesta)
      /\ risposte \in [Utenti -> Seq(Risposta)]
  BY DEF Dialogo, Invariante, TypeOK
<1>00. ut[u] # "fuori" \/ simulation_running =>
         mensa \notin {"riempi", "apre"}
  BY DEF Dialogo, Chiusura, Fermi
\* the steps that change only where the user stands
<1>1. ASSUME UNCHANGED <<mensaVars, codaVars, opVars, piatto>>,
             NEW a \in LuoghiUtente, ut' = [ut EXCEPT ![u] = a],
             mensa \notin {"riempi", "apre"},
             DomandaDiChiAttende'
      PROVE  Dialogo'
  <2>1. Chiusura' BY <1>1 DEF Dialogo, Chiusura
  <2>2. ConRichiesta' /\ Distinte' /\ Fresche'
    BY <1>1 DEF Dialogo, ConRichiesta, Distinte, Fresche, DiOggi
  <2>3. UnSoloPosto' BY <1>1, StessiMessaggi DEF Dialogo, UnSoloPosto
  <2> QED BY <1>1, <2>1, <2>2, <2>3 DEF Dialogo
<1>2. CASE UtInizia(u)
  <2>1. DomandaDiChiAttende'
    BY <1>0, <1>2, StessiMessaggi DEF UtInizia, Dialogo, DomandaDiChiAttende
  <2> QED BY <1>00, <1>1, <1>2, <2>1 DEF UtInizia, LuoghiUtente
<1>3. ASSUME NEW p \in Piatti, UtSceglie(u, p) PROVE Dialogo'
  <2>1. /\ ut[u] = "prova" /\ simulation_running
        /\ ut' = [ut EXCEPT ![u] = "invia"]
        /\ piatto' = [piatto EXCEPT ![u] = p]
        /\ UNCHANGED <<mensaVars, codaVars, opVars>>
    BY <1>3 DEF UtSceglie
  <2>2. ~Accodata(u) /\ ~Presa(u) /\ ~Risposto(u)
    BY <2>1 DEF Dialogo, DomandaDiChiAttende
  <2>3. Chiusura' BY <1>00, <2>1 DEF Dialogo, Chiusura
  <2>4. ConRichiesta' /\ Distinte' BY <2>1 DEF Dialogo, ConRichiesta, Distinte
  <2>5. UnSoloPosto' BY <2>1, StessiMessaggi DEF Dialogo, UnSoloPosto
  <2>6. DomandaDiChiAttende'
    BY <1>0, <2>1, <2>2, StessiMessaggi DEF Dialogo, DomandaDiChiAttende
  <2>7. Fresche'
    <3>1. \A w \in Utenti : w # u => piatto'[w] = piatto[w] BY <1>0, <2>1
    <3>2. \A i \in 1..Len(richieste) :
            richieste[i].utente # u /\ richieste[i].utente \in Utenti
      <4>1. \A i \in 1..Len(richieste) : richieste[i] \in Richiesta BY <1>0
      <4> QED BY <2>2, <4>1 DEF Accodata, Richiesta
    <3>3. \A o \in Operatori : req[o] # Nessuna =>
            req[o].utente # u /\ req[o].utente \in Utenti
      BY <2>2 DEF Presa, Dialogo, Invariante, TypeOK, Richiesta
    <3>4. Len(risposte[u]) = 0 BY <2>2 DEF Risposto
    <3> QED BY <2>1, <3>1, <3>2, <3>3, <3>4 DEF Dialogo, Fresche, DiOggi
  <2> QED BY <2>3, <2>4, <2>5, <2>6, <2>7 DEF Dialogo
<1>4. CASE UtSenza(u)
  <2>1. DomandaDiChiAttende'
    BY <1>0, <1>4, StessiMessaggi DEF UtSenza, Dialogo, DomandaDiChiAttende
  <2> QED BY <1>00, <1>1, <1>4, <2>1 DEF UtSenza, LuoghiUtente
<1>5. CASE UtInvia(u)
  <2> DEFINE m == [utente |-> u, piatto |-> piatto[u], giorno |-> giorno]
  <2>1. /\ ut[u] = "invia" /\ ut' = [ut EXCEPT ![u] = "attende"]
        /\ richieste' = Append(richieste, m)
        /\ UNCHANGED <<mensaVars, risposte, opVars, piatto>>
    BY <1>5 DEF UtInvia
  <2>2. ~Accodata(u) /\ ~Presa(u) /\ ~Risposto(u)
    BY <2>1 DEF Dialogo, DomandaDiChiAttende
  <2>3. m \in Richiesta BY <1>0 DEF Richiesta, Dialogo, Invariante, TypeOK
  <2>4. /\ Len(richieste) \in Nat /\ Len(richieste') = Len(richieste) + 1
        /\ richieste'[Len(richieste) + 1] = m
        /\ \A i \in 1..Len(richieste) : richieste'[i] = richieste[i]
    BY <1>0, <2>1, <2>3
  <2> HIDE DEF m
  <2>5. m.utente = u /\ DiOggi(m, u) BY DEF m, DiOggi
  <2>6. ASSUME NEW w \in Utenti
        PROVE  /\ Accodata(w)' <=> Accodata(w) \/ w = u
               /\ Presa(w)' <=> Presa(w)
               /\ Risposto(w)' <=> Risposto(w)
    <3>1. Accodata(w)' <=> Accodata(w) \/ w = u
      BY <1>0, <2>1, <2>3, <2>5, CodaCresce
    <3>4. (Presa(w)' <=> Presa(w)) /\ (Risposto(w)' <=> Risposto(w))
      BY <2>1 DEF Presa, Risposto
    <3> QED BY <3>1, <3>4
  <2>7. Chiusura' /\ ConRichiesta'
    BY <1>00, <2>1 DEF Dialogo, Chiusura, ConRichiesta
  <2>8. Distinte'
    <3>1. \A i, j \in 1..Len(richieste') :
            richieste'[i].utente = richieste'[j].utente => i = j
      <4>1. \A i \in 1..Len(richieste) : richieste[i].utente # u
        BY <2>2 DEF Accodata
      <4>2. \A i \in 1..Len(richieste') :
              i \in 1..Len(richieste) \/ i = Len(richieste) + 1
        BY <2>4
      <4> QED BY <2>4, <2>5, <4>1, <4>2 DEF Dialogo, Distinte
    <3> QED BY <2>1, <3>1 DEF Dialogo, Distinte
  <2>9. UnSoloPosto' BY <2>2, <2>6 DEF Dialogo, UnSoloPosto
  <2>10. DomandaDiChiAttende'
    BY <1>0, <2>1, <2>6 DEF Dialogo, DomandaDiChiAttende
  <2>11. Fresche'
    <3>1. \A i \in 1..Len(richieste') : DiOggi(richieste'[i], richieste'[i].utente)
      <4>2. \A i \in 1..Len(richieste') :
              i \in 1..Len(richieste) \/ i = Len(richieste) + 1
        BY <2>4
      <4> QED BY <2>4, <2>5, <4>2 DEF Dialogo, Fresche
    <3> QED BY <2>1, <3>1 DEF Dialogo, Fresche, DiOggi
  <2> QED BY <2>7, <2>8, <2>9, <2>10, <2>11 DEF Dialogo
<1>6. CASE UtAttende(u)
  <2>1. PICK a \in {"riceve", "prova"} :
          /\ ut[u] = "attende" /\ ut' = [ut EXCEPT ![u] = a]
          /\ a = "prova" => ~simulation_running
    BY <1>6 DEF UtAttende
  <2>2. UNCHANGED <<mensaVars, codaVars, opVars, piatto>> BY <1>6 DEF UtAttende
  <2>3. DomandaDiChiAttende'
    BY <1>0, <2>1, <2>2, StessiMessaggi DEF Dialogo, DomandaDiChiAttende
  <2> QED BY <1>00, <1>1, <2>1, <2>2, <2>3 DEF LuoghiUtente
<1>7. CASE UtRiceve(u)
  <2>1. PICK a \in {"servito", "prova"} :
          ut[u] = "riceve" /\ ut' = [ut EXCEPT ![u] = a]
    BY <1>7 DEF UtRiceve
  <2>2. /\ risposte[u] # <<>>
        /\ risposte' = [risposte EXCEPT ![u] = Tail(@)]
        /\ UNCHANGED <<mensaVars, richieste, opVars, piatto>>
    BY <1>7 DEF UtRiceve
  <2>3. Tail(risposte[u]) = <<>>
    <3>1. Len(risposte[u]) <= 1 BY DEF Dialogo, Distinte
    <3>2. risposte[u] \in Seq(Risposta) BY <1>0
    <3> QED BY <2>2, <3>1, <3>2, UnaETutte
  <2>4. \A w \in Utenti : risposte'[w] = IF w = u THEN <<>> ELSE risposte[w]
    BY <1>0, <2>2, <2>3
  <2>5. Risposto(u) BY <2>2 DEF Risposto
  <2>6. \A w \in Utenti : /\ Accodata(w)' <=> Accodata(w)
                          /\ Presa(w)' <=> Presa(w)
                          /\ Risposto(w)' <=> Risposto(w) /\ w # u
    BY <2>2, <2>4 DEF Accodata, Presa, Risposto
  <2>7. Chiusura' /\ ConRichiesta'
    BY <1>00, <2>1, <2>2 DEF Dialogo, Chiusura, ConRichiesta
  <2>8. Distinte' BY <2>2, <2>4 DEF Dialogo, Distinte
  <2>9. UnSoloPosto' BY <2>6 DEF Dialogo, UnSoloPosto
  <2>10. DomandaDiChiAttende'
    BY <1>0, <2>1, <2>2, <2>5, <2>6
    DEF Dialogo, DomandaDiChiAttende, UnSoloPosto
  <2>11. Fresche' BY <2>2, <2>4 DEF Dialogo, Fresche, DiOggi
  <2> QED BY <2>7, <2>8, <2>9, <2>10, <2>11 DEF Dialogo
<1>8. CASE UtNessuna(u)
  <2>1. DomandaDiChiAttende'
    BY <1>0, <1>8, StessiMessaggi DEF UtNessuna, Dialogo, DomandaDiChiAttende
  <2> QED BY <1>00, <1>1, <1>8, <2>1 DEF UtNessuna, LuoghiUtente
<1>9. CASE UtFineGiorno(u)
  <2>1. /\ ut[u] \in {"prova", "servito", "senza"} /\ ~simulation_running
        /\ ut' = [ut EXCEPT ![u] = "fuori"]
        /\ UNCHANGED <<mensaVars, codaVars, opVars, piatto>>
    BY <1>9 DEF UtFineGiorno
  <2>2. DomandaDiChiAttende'
    BY <1>0, <2>1, StessiMessaggi DEF Dialogo, DomandaDiChiAttende
  <2> QED BY <1>00, <1>1, <2>1, <2>2 DEF LuoghiUtente
<1> QED
  BY <1>2, <1>3, <1>4, <1>5, <1>6, <1>7, <1>8, <1>9 DEF Utente

LEMMA DialogoInduttivo ==
  ASSUME Puntuale, Dialogo, [Next]_vars
  PROVE  Dialogo'
<1>1. Invariante' BY InvarianteInduttivo DEF Dialogo
<1>2. CASE UNCHANGED vars
  BY <1>1, <1>2, DialogoFermo
  DEF vars, mensaVars, codaVars, opVars, utVars, Dialogo, Chiusura, Fermi,
      ConRichiesta
<1> QED
  BY <1>1, <1>2, DialogoResponsabile, DialogoOperatore, DialogoUtente DEF Next

LEMMA DialogoSempre == ASSUME Puntuale PROVE Spec => []Dialogo
BY DialogoIniziale, DialogoInduttivo, PTL DEF Spec

\* In an open day a user that waits at the station has exactly one question in
\* the air, and any other user none: no question is asked twice, no answer is
\* left behind.  The days are taken to open after everybody has left the last.
THEOREM SempreUnaDomanda == ASSUME Puntuale PROVE Spec => []UnaDomanda
<1>1. ASSUME Dialogo, simulation_running, NEW u \in Utenti
      PROVE  InVolo(u) = IF ut[u] \in {"attende", "riceve"} THEN 1 ELSE 0
  <2>1. \A x : Cardinality({}) = 0 /\ Cardinality({x}) = 1
    BY FS_EmptySet, FS_Singleton
  <2>2. /\ risposte[u] \in Seq(Risposta) /\ Len(risposte[u]) <= 1
        /\ Len(risposte[u]) \in Nat
        /\ risposte[u] # <<>> => Len(risposte[u]) = 1
        /\ risposte[u] = <<>> => Len(risposte[u]) = 0
    <3>1. risposte[u] \in Seq(Risposta) BY <1>1 DEF Dialogo, Invariante, TypeOK
    <3>2. Len(risposte[u]) <= 1 BY <1>1 DEF Dialogo, Distinte
    <3>3. Len(<<>>) = 0 BY EmptySeq
    <3>4. Len(risposte[u]) \in Nat BY <3>1, LenProperties
    <3>5. risposte[u] # <<>> => Len(risposte[u]) \in Nat \ {0} BY <3>1, EmptySeq
    <3>6. risposte[u] # <<>> => Len(risposte[u]) = 1
      <4> DEFINE n == Len(risposte[u])
      <4>1. n <= 1 BY <3>2
      <4>2. risposte[u] # <<>> => n \in Nat \ {0} BY <3>5
      <4> HIDE DEF n
      <4>3. risposte[u] # <<>> => n = 1 BY <4>1, <4>2
      <4> QED BY <4>3 DEF n
    <3>7. risposte[u] = <<>> => Len(risposte[u]) = 0 BY <3>3, Zenon
    <3> QED BY <3>1, <3>2, <3>4, <3>6, <3>7, Zenon
  <2>3. Cardinality(RichiesteDi(u)) = IF Accodata(u) THEN 1 ELSE 0
    <3>1. CASE Accodata(u)
      <4>1. PICK i \in 1..Len(richieste) : richieste[i].utente = u
        BY <3>1 DEF Accodata
      <4>2. RichiesteDi(u) = {i} BY <1>1, <4>1 DEF RichiesteDi, Dialogo, Distinte
      <4> QED BY <2>1, <3>1, <4>2
    <3>2. CASE ~Accodata(u)
      <4>1. RichiesteDi(u) = {} BY <3>2 DEF RichiesteDi, Accodata
      <4> QED BY <2>1, <3>2, <4>1
    <3> QED BY <3>1, <3>2
  <2>4. Cardinality(ServitoriDi(u)) = IF Presa(u) THEN 1 ELSE 0
    <3>1. CASE Presa(u)
      <4>1. PICK o \in Operatori : req[o] # Nessuna /\ req[o].utente = u
        BY <3>1 DEF Presa
      <4>2. ServitoriDi(u) = {o} BY <1>1, <4>1 DEF ServitoriDi, Dialogo, Distinte
      <4> QED BY <2>1, <3>1, <4>2
    <3>2. CASE ~Presa(u)
      <4>1. ServitoriDi(u) = {} BY <3>2 DEF ServitoriDi, Presa
      <4> QED BY <2>1, <3>2, <4>1
    <3> QED BY <3>1, <3>2
  <2>5. Len(risposte[u]) = IF Risposto(u) THEN 1 ELSE 0 BY <2>2 DEF Risposto
  <2>6. /\ Accodata(u) => ~Presa(u) /\ ~Risposto(u)
        /\ Presa(u) => ~Risposto(u)
        /\ ut[u] \in {"attende", "riceve"} => Accodata(u) \/ Presa(u) \/ Risposto(u)
        /\ ut[u] \notin {"attende", "riceve"} =>
             ~Accodata(u) /\ ~Presa(u) /\ ~Risposto(u)
    BY <1>1 DEF Dialogo, UnSoloPosto, DomandaDiChiAttende
  <2> QED BY <2>3, <2>4, <2>5, <2>6 DEF InVolo
<1>2. Dialogo => UnaDomanda BY <1>1 DEF UnaDomanda
<1> QED BY <1>2, DialogoSempre, PTL

\* The answer a waiting user finds, chosen by its number alone (utente.c:205),
\* is for the dish it is asking for and of today, when the days open after
\* everybody has left the last one.
THEOREM SempreRispostaAllaDomanda ==
  ASSUME Puntuale PROVE Spec => []RispostaAllaDomanda
<1>1. Dialogo => RispostaAllaDomanda
  BY DEF Dialogo, Fresche, DiOggi, RispostaAllaDomanda
<1> QED BY <1>1, DialogoSempre, PTL

-----------------------------------------------------------------------------
(* The balance of the portions, refills included.                           *)

\* What a mutex around the refill would ensure and the code does not: the value
\* of a dish is never in the register of the refill and in that of an operator
\* at the same time (run "refill").
NessunaCorsa ==
  \A o \in Operatori :
    mensa = "scrivi" /\ op[o] = "scrivi" => req[o].piatto # in_refill

\* a value that was loaded is still there when it is stored, and a refill that
\* has looked at a dish finds it below the cap also when it gets to it
Registri ==
  /\ mensa \in {"leggi", "scrivi"} => porzioni[in_refill] < MAXPORZIONI
  /\ mensa = "scrivi" => letto_refill = porzioni[in_refill]
  /\ \A o \in Operatori :
       op[o] = "scrivi" => letto[o] = porzioni[req[o].piatto]

Bilancio == Dialogo /\ Registri /\ PorzioniConservate

LEMMA BilancioInduttivo ==
  ASSUME Puntuale, NessunaCorsa, Bilancio, [Next]_vars
  PROVE  Bilancio'
<1> USE DEF mensaVars, codaVars, opVars, utVars, cibo
<1>0. Dialogo /\ Dialogo' BY DialogoInduttivo DEF Bilancio
<1>1. /\ op \in [Operatori -> LuoghiOperatore]
      /\ req \in [Operatori -> Richiesta \cup {Nessuna}]
      /\ letto \in [Operatori -> Int]
      /\ porzioni \in [Piatti -> Int] /\ conto \in [Piatti -> Int]
      /\ in_refill \in Piatti /\ MAXPORZIONI \in Nat
      /\ \A o \in Operatori :
           op[o] \in {"leggi", "scrivi"} =>
             /\ req[o].piatto \in Piatti
             /\ \A altro \in Operatori \ {o} : op[altro] \notin {"leggi", "scrivi"}
  BY CostantiServizio
  DEF Bilancio, Dialogo, Invariante, TypeOK, PorzioniInduttivo, Richiesta
<1>2. CASE Responsabile
  <2>1. CASE stations_refill_day
    <3>1. \A o \in Operatori : op[o] = "fuori"
      BY <2>1 DEF stations_refill_day, Bilancio, Dialogo, Chiusura, Fermi
    <3> QED
      BY <1>0, <2>1, <3>1
      DEF stations_refill_day, Bilancio, Registri, PorzioniConservate
  <2>2. CASE RefillScrive
    <3>1. /\ mensa = "scrivi" /\ mensa' = "controlla"
          /\ UNCHANGED <<op, req, letto, in_refill>>
          /\ porzioni' = [porzioni EXCEPT ![in_refill] = letto_refill + 1]
          /\ conto' = [conto EXCEPT ![in_refill] = @ + 1]
      BY <2>2 DEF RefillScrive
    <3>2. letto_refill = porzioni[in_refill] BY <3>1 DEF Bilancio, Registri
    <3>3. PorzioniConservate'
      BY <1>1, <3>1, <3>2 DEF Bilancio, PorzioniConservate
    <3>4. Registri'
      BY <1>1, <3>1 DEF Bilancio, Registri, NessunaCorsa
    <3> QED BY <1>0, <3>3, <3>4 DEF Bilancio
  <2>3. CASE ~stations_refill_day /\ ~RefillScrive
    <3>1. UNCHANGED <<op, req, letto, porzioni, conto>>
      BY <1>2, <2>3
      DEF Responsabile, ApriGiorno, RefillInizia, RefillControlla, RefillLegge,
          RefillFinisce, end_day, clear_message_queues
    <3>2. /\ mensa' \in {"leggi", "scrivi"} => porzioni[in_refill'] < MAXPORZIONI
          /\ mensa' = "scrivi" => letto_refill' = porzioni[in_refill']
      BY <1>2, <2>3
      DEF Responsabile, ApriGiorno, RefillInizia, RefillControlla, RefillLegge,
          RefillFinisce, end_day, clear_message_queues, Bilancio, Registri
    <3> QED BY <1>0, <3>1, <3>2 DEF Bilancio, Registri, PorzioniConservate
  <2> QED BY <2>1, <2>2, <2>3
<1>3. ASSUME NEW o \in Operatori, Operatore(o) PROVE Bilancio'
  <2> USE DEF OpVai
  <2>1. CASE OpLegge(o)
    <3>1. Registri' BY <1>1, <2>1 DEF OpLegge, Bilancio, Registri
    <3> QED BY <1>0, <2>1, <3>1 DEF OpLegge, Bilancio, PorzioniConservate
  <2>2. CASE OpScrive(o)
    <3>1. /\ op[o] = "scrivi" /\ op' = [op EXCEPT ![o] = "serve"]
          /\ UNCHANGED <<mensa, in_refill, letto_refill, req, letto>>
          /\ porzioni' = [porzioni EXCEPT ![req[o].piatto] = letto[o] - 1]
          /\ conto' = [conto EXCEPT ![req[o].piatto] = @ - 1]
      BY <2>2 DEF OpScrive
    <3>2. letto[o] = porzioni[req[o].piatto] BY <3>1 DEF Bilancio, Registri
    <3>3. porzioni'[in_refill] <= porzioni[in_refill] BY <1>1, <3>1, <3>2
    <3>4. mensa = "scrivi" => porzioni'[in_refill] = porzioni[in_refill]
      BY <1>1, <3>1 DEF NessunaCorsa
    <3>5. mensa \in {"leggi", "scrivi"} => porzioni'[in_refill] < MAXPORZIONI
      <4>1. porzioni'[in_refill] \in Int BY <1>1, <3>1
      <4> QED BY <1>1, <3>3, <4>1 DEF Bilancio, Registri
    <3>6. Registri' BY <1>1, <3>1, <3>4, <3>5 DEF Bilancio, Registri
    <3>7. PorzioniConservate'
      BY <1>1, <3>1, <3>2 DEF Bilancio, PorzioniConservate
    <3> QED BY <1>0, <3>6, <3>7 DEF Bilancio
  <2>3. CASE ~OpLegge(o) /\ ~OpScrive(o)
    <3>1. UNCHANGED <<mensa, in_refill, letto_refill, letto, porzioni, conto>>
      BY <1>3, <2>3
      DEF Operatore, serve_user, OpInizia, OpTurno, OpRiceve, OpNessuna,
          OpControlla, OpServe, OpEsaurito, Rispondi
    <3>2. \A altro \in Operatori :
            op'[altro] = "scrivi" => op[altro] = "scrivi" /\ req'[altro] = req[altro]
      BY <1>1, <1>3, <2>3
      DEF Operatore, serve_user, OpInizia, OpTurno, OpRiceve, OpNessuna,
          OpControlla, OpServe, OpEsaurito, Rispondi
    <3> QED BY <1>0, <3>1, <3>2 DEF Bilancio, Registri, PorzioniConservate
  <2> QED BY <2>1, <2>2, <2>3
<1>4. ASSUME NEW u \in Utenti, Utente(u) PROVE Bilancio'
  <2>1. UNCHANGED <<mensa, in_refill, letto_refill, op, req, letto, porzioni, conto>>
    BY <1>4
    DEF Utente, UtInizia, UtSceglie, UtSenza, UtInvia, UtAttende, UtRiceve,
        UtNessuna, UtFineGiorno
  <2> QED BY <1>0, <2>1 DEF Bilancio, Registri, PorzioniConservate
<1>5. CASE UNCHANGED vars
  BY <1>0, <1>5 DEF vars, Bilancio, Registri, PorzioniConservate
<1> QED BY <1>2, <1>3, <1>4, <1>5 DEF Next

\* No portion appears or vanishes at the station: what is left of a dish is what
\* was put in less what was given, with any number of operators and refills, as
\* long as none of the unlocked stores of a refill (stations.c:62) races one of
\* an operator on the same dish, and the days open when everybody has left.
THEOREM PorzioniSempreConservate ==
  ASSUME Puntuale PROVE Spec /\ []NessunaCorsa => []PorzioniConservate
<1>1. Init => Bilancio
  BY DialogoIniziale, CostantiServizio
  DEF Init, Bilancio, Registri, PorzioniConservate
<1>2. Bilancio /\ NessunaCorsa /\ [Next]_vars => Bilancio' BY BilancioInduttivo
<1>3. Bilancio => PorzioniConservate BY DEF Bilancio
<1> QED BY <1>1, <1>2, <1>3, PTL DEF Spec

\* Days that are too short for a refill have no such race, so operators alone
\* keep the balance.
LEMMA SenzaRifornimenti ==
  ASSUME Rifornimenti = 0 PROVE Spec => []NessunaCorsa
<1> DEFINE Ferma == mensa \notin {"controlla", "leggi", "scrivi"}
<1>1. Init => Ferma BY DEF Init
<1>2. Invariante /\ Ferma /\ [Next]_vars => Ferma'
  <2> SUFFICES ASSUME Invariante, Ferma, [Next]_vars PROVE Ferma' OBVIOUS
  <2> USE DEF mensaVars
  <2>1. rifornimenti = 0 BY DEF Invariante, TypeOK
  <2>2. CASE Responsabile
    BY <2>1, <2>2
    DEF Responsabile, ApriGiorno, RefillInizia, RefillControlla, RefillLegge,
        RefillScrive, RefillFinisce, end_day, clear_message_queues,
        stations_refill_day
  <2>3. CASE \E o \in Operatori : Operatore(o)
    BY <2>3
    DEF Operatore, serve_user, OpInizia, OpTurno, OpRiceve, OpNessuna,
        OpControlla, OpLegge, OpScrive, OpServe, OpEsaurito, Rispondi
  <2>4. CASE \E u \in Utenti : Utente(u)
    BY <2>4
    DEF Utente, UtInizia, UtSceglie, UtSenza, UtInvia, UtAttende, UtRiceve,
        UtNessuna, UtFineGiorno
  <2>5. CASE UNCHANGED vars BY <2>5 DEF vars
  <2> QED BY <2>2, <2>3, <2>4, <2>5 DEF Next
<1>3. Ferma => NessunaCorsa BY DEF NessunaCorsa
<1> QED BY <1>1, <1>2, <1>3, InvarianteSempre, PTL DEF Spec

\* Operators alone, any number of them, neither lose nor make a portion: the
\* mutex of operatore.c:230 is enough among them.
THEOREM SoliOperatoriConservano ==
  ASSUME Puntuale, Rifornimenti = 0 PROVE Spec => []PorzioniConservate
BY SenzaRifornimenti, PorzioniSempreConservate, PTL
=============================================================================
