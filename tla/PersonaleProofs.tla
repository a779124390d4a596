-------------------------- MODULE PersonaleProofs --------------------------
(***************************************************************************)
(* Theorems about the staff, for every number of operators and every mean  *)
(* service time, and whichever products of doubles fall below the whole    *)
(* number they stand for.                                                  *)
(***************************************************************************)
EXTENDS Personale, TLAPS

-----------------------------------------------------------------------------
(* Arithmetic of the natural numbers. *)

LEMMA Quoziente ==
  ASSUME NEW n \in Nat, NEW t \in Nat \ {0}
  PROVE  /\ n \div t \in Nat
         /\ (n \div t) * t <= n
         /\ n < ((n \div t) + 1) * t
OBVIOUS

LEMMA ProdottoNat ==
  ASSUME NEW a \in Nat, NEW b \in Nat
  PROVE  a * b \in Nat
OBVIOUS

LEMMA ProdottoMonotono ==
  ASSUME NEW a \in Nat, NEW b \in Nat, NEW d \in Nat, a <= b
  PROVE  a * d <= b * d
OBVIOUS

LEMMA ProdottoStretto ==
  ASSUME NEW a \in Nat, NEW b \in Nat, NEW d \in Nat \ {0}, a < b
  PROVE  a * d < b * d
OBVIOUS

LEMMA Semplifica ==
  ASSUME NEW a \in Nat, NEW b \in Nat, NEW t \in Nat \ {0}
  PROVE  /\ a * t <= b * t => a <= b
         /\ a * t < b * t => a < b
OBVIOUS

LEMMA SommaProdotti ==
  ASSUME NEW a \in Nat, NEW b \in Nat, NEW c \in Nat, NEW e \in Nat, NEW d \in Nat
  PROVE  a * d + b * d + c * d + e * d = (a + b + c + e) * d
OBVIOUS

-----------------------------------------------------------------------------
(* The share of a station. *)

LEMMA Tipi ==
  ASSUME TypeOK, NOFWORKERS >= 4
  PROVE  /\ NOFWORKERS \in Nat
         /\ operatori_disponibili \in Nat
         /\ \A s \in Stazioni : AVGSRVC[s] \in Nat /\ perde[s] \in BOOLEAN
         /\ Somma(AVGSRVC) \in Nat
         /\ tempo_totale \in Nat \ {0}
<1>1. NOFWORKERS \in Nat /\ \A s \in Stazioni : AVGSRVC[s] \in Nat /\ perde[s] \in BOOLEAN
  BY CostantiPersonale DEF TypeOK
<1>2. operatori_disponibili \in Nat BY <1>1 DEF operatori_disponibili
<1>3. Somma(AVGSRVC) \in Nat BY <1>1 DEF Somma, Stazioni
<1> QED BY <1>1, <1>2, <1>3 DEF tempo_totale

\* A share is the quotient or one less, and one less only when it is exact.
LEMMA QuotaDiStazione ==
  ASSUME TypeOK, NOFWORKERS >= 4, NEW s \in Stazioni
  PROVE  LET prodotto == AVGSRVC[s] * operatori_disponibili
             k == prodotto \div tempo_totale
         IN  /\ k \in Nat /\ prodotto \in Nat
             /\ k * tempo_totale <= prodotto
             /\ prodotto < (k + 1) * tempo_totale
             /\ Extra(s) \in Nat
             /\ \/ Extra(s) = k
                \/ Extra(s) = k - 1 /\ prodotto = k * tempo_totale
<1> DEFINE prodotto == AVGSRVC[s] * operatori_disponibili
           k == prodotto \div tempo_totale
<1>1. prodotto \in Nat BY Tipi, ProdottoNat
<1>2. /\ k \in Nat /\ k * tempo_totale <= prodotto
      /\ prodotto < (k + 1) * tempo_totale
  BY <1>1, Tipi, Quoziente
<1>3. Extra(s) = IF perde[s] /\ k > 0 /\ prodotto = k * tempo_totale
                 THEN k - 1 ELSE k
  BY DEF Extra
<1> HIDE DEF k, prodotto
<1>4. /\ Extra(s) \in Nat
      /\ \/ Extra(s) = k
         \/ Extra(s) = k - 1 /\ prodotto = k * tempo_totale
  BY <1>2, <1>3
<1> QED BY <1>1, <1>2, <1>4 DEF k, prodotto

\* The shares together are never more than the operators left to share.
LEMMA QuoteDisponibili ==
  ASSUME TypeOK, NOFWORKERS >= 4
  PROVE  /\ \A s \in Stazioni : Extra(s) \in Nat
         /\ Extra(0) + Extra(1) + Extra(2) + Extra(3) <= operatori_disponibili
<1> DEFINE A(s) == AVGSRVC[s]
           D == operatori_disponibili
           T == tempo_totale
           E == Extra(0) + Extra(1) + Extra(2) + Extra(3)
<1>1. /\ D \in Nat /\ T \in Nat \ {0}
      /\ \A s \in Stazioni : A(s) \in Nat
  BY Tipi
<1>2. ASSUME NEW s \in Stazioni
      PROVE  Extra(s) \in Nat /\ Extra(s) * T <= A(s) * D
  <2> DEFINE prodotto == A(s) * D
             k == prodotto \div T
  <2>1. /\ k \in Nat /\ prodotto \in Nat /\ k * T <= prodotto
        /\ Extra(s) \in Nat /\ (Extra(s) = k \/ Extra(s) = k - 1)
    BY QuotaDiStazione
  <2> HIDE DEF k
  <2>2. Extra(s) <= k BY <2>1
  <2>3. Extra(s) * T <= k * T BY <1>1, <2>1, <2>2, ProdottoMonotono
  <2>4. Extra(s) * T \in Nat /\ k * T \in Nat BY <1>1, <2>1, ProdottoNat
  <2> QED BY <2>1, <2>3, <2>4
<1>3. 0 \in Stazioni /\ 1 \in Stazioni /\ 2 \in Stazioni /\ 3 \in Stazioni
  BY DEF Stazioni
<1>4. E \in Nat BY <1>2, <1>3
<1>5. Somma(AVGSRVC) = A(0) + A(1) + A(2) + A(3) BY DEF Somma
<1> HIDE DEF A, D, T
<1>6. E * T = Extra(0) * T + Extra(1) * T + Extra(2) * T + Extra(3) * T
  BY <1>1, <1>2, <1>3, SommaProdotti
<1>7. (A(0) + A(1) + A(2) + A(3)) * D = A(0) * D + A(1) * D + A(2) * D + A(3) * D
  BY <1>1, <1>3, SommaProdotti
<1>8. \A s \in Stazioni : Extra(s) * T \in Nat /\ A(s) * D \in Nat
  BY <1>1, <1>2, ProdottoNat
<1>9. E * T <= Somma(AVGSRVC) * D
  BY <1>2, <1>3, <1>5, <1>6, <1>7, <1>8
<1>10. CASE Somma(AVGSRVC) = 0
  <2>1. T = 1 BY <1>10 DEF T, tempo_totale
  <2>2. Somma(AVGSRVC) * D = 0 BY <1>1, <1>10
  <2> QED BY <1>1, <1>2, <1>4, <1>9, <2>1, <2>2 DEF D
<1>11. CASE Somma(AVGSRVC) # 0
  <2>1. T = Somma(AVGSRVC)
    BY <1>1, <1>3, <1>5, <1>11 DEF T, tempo_totale
  <2>2. Somma(AVGSRVC) * D = D * T BY <1>1, <2>1
  <2>3. E <= D BY <1>1, <1>4, <1>9, <2>2, Semplifica
  <2> QED BY <1>2, <2>3 DEF D
<1> QED BY <1>10, <1>11

\* A slower station has no smaller share: only an exact quotient loses one, and
\* then the share of the faster station is below it.
LEMMA QuotePerTempo ==
  ASSUME TypeOK, NOFWORKERS >= 4, NEW s \in Stazioni, NEW r \in Stazioni,
         AVGSRVC[s] > AVGSRVC[r]
  PROVE  Extra(s) >= Extra(r)
<1> DEFINE D == operatori_disponibili
           T == tempo_totale
           ps == AVGSRVC[s] * D
           pr == AVGSRVC[r] * D
           ks == ps \div T
           kr == pr \div T
<1>1. /\ D \in Nat /\ T \in Nat \ {0}
      /\ AVGSRVC[s] \in Nat /\ AVGSRVC[r] \in Nat
  BY Tipi
<1>2. /\ ks \in Nat /\ ps \in Nat
      /\ ks * T <= ps /\ ps < (ks + 1) * T
      /\ Extra(s) \in Nat
      /\ (Extra(s) = ks \/ (Extra(s) = ks - 1 /\ ps = ks * T))
  BY QuotaDiStazione
<1>3. /\ kr \in Nat /\ pr \in Nat
      /\ kr * T <= pr
      /\ Extra(r) \in Nat /\ Extra(r) <= kr
  BY QuotaDiStazione
<1>4. pr <= ps BY <1>1, ProdottoMonotono
<1>5. D # 0 => pr < ps BY <1>1, ProdottoStretto
<1>6. D = 0 => ps = 0 /\ pr = 0 BY <1>1
<1> HIDE DEF ks, kr, ps, pr, D, T
<1>7. kr * T < (ks + 1) * T
  <2>1. kr * T \in Nat /\ (ks + 1) * T \in Nat
    BY <1>1, <1>2, <1>3, ProdottoNat
  <2> QED BY <1>2, <1>3, <1>4, <2>1
<1>8. kr <= ks
  <2>1. ks + 1 \in Nat BY <1>2
  <2>2. kr < ks + 1 BY <1>1, <1>3, <1>7, <2>1, Semplifica
  <2> QED BY <1>2, <1>3, <2>2
<1>9. CASE Extra(s) = ks BY <1>2, <1>3, <1>8, <1>9
<1>10. CASE Extra(s) = ks - 1 /\ ps = ks * T
  <2>1. CASE D = 0
    <3>1. kr * T <= 0 * T BY <1>1, <1>3, <1>6, <2>1, ProdottoNat
    <3>2. kr <= 0 BY <1>1, <1>3, <3>1, Semplifica
    <3> QED BY <1>2, <1>3, <3>2
  <2>2. CASE D # 0
    <3>1. kr * T < ks * T
      BY <1>1, <1>2, <1>3, <1>5, <1>10, <2>2, ProdottoNat
    <3>2. kr < ks BY <1>1, <1>2, <1>3, <3>1, Semplifica
    <3> QED BY <1>2, <1>3, <1>10, <3>2
  <2> QED BY <2>1, <2>2
<1> QED BY <1>2, <1>9, <1>10

\* The search of the slowest station finds one.
LEMMA PiuLentaEsiste ==
  ASSUME TypeOK, NOFWORKERS >= 4
  PROVE  /\ PiuLenta \in Stazioni
         /\ \A r \in Stazioni : AVGSRVC[r] <= AVGSRVC[PiuLenta]
<1> DEFINE Prima(s) == /\ \A r \in Stazioni : AVGSRVC[r] <= AVGSRVC[s]
                       /\ \A r \in 0..(s - 1) : AVGSRVC[r] < AVGSRVC[s]
<1>1. \A s \in Stazioni : AVGSRVC[s] \in Nat BY Tipi
<1>2. \E s \in Stazioni : Prima(s)
  <2>1. /\ AVGSRVC[0] \in Nat /\ AVGSRVC[1] \in Nat
        /\ AVGSRVC[2] \in Nat /\ AVGSRVC[3] \in Nat
    BY <1>1 DEF Stazioni
  <2>2. Stazioni = {0, 1, 2, 3} BY DEF Stazioni
  <2>3. /\ 0..(0 - 1) = {} /\ 0..(1 - 1) = {0}
        /\ 0..(2 - 1) = {0, 1} /\ 0..(3 - 1) = {0, 1, 2}
    OBVIOUS
  <2>4. CASE /\ AVGSRVC[0] >= AVGSRVC[1] /\ AVGSRVC[0] >= AVGSRVC[2]
             /\ AVGSRVC[0] >= AVGSRVC[3]
    <3>1. Prima(0) BY <2>1, <2>2, <2>3, <2>4
    <3> QED BY <2>2, <3>1
  <2>5. CASE /\ AVGSRVC[1] > AVGSRVC[0] /\ AVGSRVC[1] >= AVGSRVC[2]
             /\ AVGSRVC[1] >= AVGSRVC[3]
    <3>1. Prima(1) BY <2>1, <2>2, <2>3, <2>5
    <3> QED BY <2>2, <3>1
  <2>6. CASE /\ AVGSRVC[2] > AVGSRVC[0] /\ AVGSRVC[2] > AVGSRVC[1]
             /\ AVGSRVC[2] >= AVGSRVC[3]
    <3>1. Prima(2) BY <2>1, <2>2, <2>3, <2>6
    <3> QED BY <2>2, <3>1
  <2>7. CASE /\ AVGSRVC[3] > AVGSRVC[0] /\ AVGSRVC[3] > AVGSRVC[1]
             /\ AVGSRVC[3] > AVGSRVC[2]
    <3>1. Prima(3) BY <2>1, <2>2, <2>3, <2>7
    <3> QED BY <2>2, <3>1
  <2> QED BY <2>1, <2>4, <2>5, <2>6, <2>7
<1>3. PiuLenta = CHOOSE s \in Stazioni : Prima(s) BY DEF PiuLenta
<1> HIDE DEF Prima
<1>4. PiuLenta \in Stazioni /\ Prima(PiuLenta) BY <1>2, <1>3
<1> QED BY <1>4 DEF Prima

-----------------------------------------------------------------------------
(* The inductive invariant. *)

\* the operators forked so far have gone to the stations in turn
Distribuiti == \A s \in Stazioni : forkati > s => addetti[s] >= 1

ForkFiniti == passo # "spawn" => forkati = NOFWORKERS

Bastano == passo \in {"extra", "resto", "fatto"} => NOFWORKERS >= 4

\* what stations_assign_workers has written when it gets to each of its parts
Calcolo ==
  /\ passo = "extra" => \A s \in Stazioni : postazioni_totali[s] = 1
  /\ passo = "resto" =>
       \A s \in Stazioni : postazioni_totali[s] = 1 + Extra(s)

Invariante ==
  /\ TypeOK /\ Distribuiti /\ ForkFiniti /\ Bastano /\ Calcolo
  /\ PostiQuantiOperatori /\ PiuLentoPiuPosti

LEMMA InvarianteIniziale == Init => Invariante
BY CostantiPersonale
   DEF Init, Invariante, TypeOK, Distribuiti, ForkFiniti, Bastano, Calcolo,
       PostiQuantiOperatori, PiuLentoPiuPosti, Stazioni

LEMMA InvarianteSpawn ==
  ASSUME Invariante, spawn_workers
  PROVE  Invariante'
<1> USE DEF Invariante, config
<1>1. forkati \in Nat /\ NOFWORKERS \in Nat BY CostantiPersonale DEF TypeOK
<1>2. StazioneDi(forkati) \in Stazioni BY <1>1 DEF StazioneDi, Stazioni
<1>3. addetti' \in [Stazioni -> Nat] BY <1>2 DEF spawn_workers, TypeOK
<1>4. TypeOK' BY <1>1, <1>3 DEF spawn_workers, TypeOK
<1>5. Distribuiti'
  <2> SUFFICES ASSUME NEW s \in Stazioni, forkati' > s
               PROVE  addetti'[s] >= 1
    BY DEF Distribuiti
  <2>1. CASE s = forkati
    <3>1. StazioneDi(forkati) = s
      BY <2>1, <1>1 DEF StazioneDi, Stazioni
    <3> QED BY <3>1 DEF spawn_workers, TypeOK
  <2>2. CASE s # forkati
    <3>1. addetti[s] >= 1
      BY <1>1, <2>2 DEF Distribuiti, spawn_workers, Stazioni
    <3> QED BY <3>1, <1>2 DEF spawn_workers, TypeOK
  <2> QED BY <2>1, <2>2
<1> QED
  BY <1>4, <1>5
  DEF spawn_workers, ForkFiniti, Bastano, Calcolo, PostiQuantiOperatori,
      PiuLentoPiuPosti

\* The steps that count nothing.
LEMMA InvarianteAltri ==
  ASSUME Invariante, TuttiForkati \/ TroppoPochi \/ UnoPerStazione \/ NuovoGiorno
  PROVE  Invariante'
<1> USE DEF Invariante, config, TypeOK, Distribuiti, ForkFiniti, Bastano, Calcolo,
            PostiQuantiOperatori, PiuLentoPiuPosti
<1>1. CASE TuttiForkati BY <1>1 DEF TuttiForkati
<1>2. CASE TroppoPochi BY <1>2 DEF TroppoPochi
<1>3. CASE UnoPerStazione BY <1>3 DEF UnoPerStazione
<1>4. CASE NuovoGiorno BY <1>4 DEF NuovoGiorno
<1> QED BY <1>1, <1>2, <1>3, <1>4

LEMMA InvarianteExtra ==
  ASSUME Invariante, AssegnaExtra
  PROVE  Invariante'
<1> USE DEF Invariante, config
<1>1. TypeOK /\ NOFWORKERS >= 4 BY DEF Bastano, AssegnaExtra
<1>2. \A s \in Stazioni : postazioni_totali'[s] = 1 + Extra(s)
  BY DEF AssegnaExtra, Calcolo
<1>3. postazioni_totali' \in [Stazioni -> Nat]
  BY <1>1, QuoteDisponibili DEF AssegnaExtra, TypeOK
<1>4. \A s \in Stazioni : Extra(s)' = Extra(s)
  BY DEF Extra, AssegnaExtra, operatori_disponibili, tempo_totale, Somma
<1>5. TypeOK' BY <1>1, <1>3 DEF AssegnaExtra, TypeOK
<1>6. Calcolo' BY <1>2, <1>4 DEF AssegnaExtra, Calcolo
<1> QED
  BY <1>5, <1>6
  DEF AssegnaExtra, Distribuiti, ForkFiniti, Bastano, PostiQuantiOperatori,
      PiuLentoPiuPosti

LEMMA InvarianteResto ==
  ASSUME Invariante, AssegnaResto
  PROVE  Invariante'
<1> USE DEF Invariante, config
<1>1. TypeOK /\ NOFWORKERS >= 4 BY DEF Bastano, AssegnaResto
<1>2. \A s \in Stazioni : postazioni_totali[s] = 1 + Extra(s)
  BY DEF AssegnaResto, Calcolo
<1>3. /\ \A s \in Stazioni : Extra(s) \in Nat
      /\ Extra(0) + Extra(1) + Extra(2) + Extra(3) <= NOFWORKERS - 4
      /\ NOFWORKERS \in Nat
  BY <1>1, QuoteDisponibili, Tipi DEF operatori_disponibili
<1>4. Stazioni = {0, 1, 2, 3} BY DEF Stazioni
<1>5. rimanenti \in Nat
  BY <1>2, <1>3, <1>4 DEF rimanenti, Somma
<1>6. /\ PiuLenta \in Stazioni
      /\ \A r \in Stazioni : AVGSRVC[r] <= AVGSRVC[PiuLenta]
  BY <1>1, PiuLentaEsiste
<1>7. \A s \in Stazioni :
        postazioni_totali'[s] =
          IF s = PiuLenta THEN 1 + Extra(s) + rimanenti ELSE 1 + Extra(s)
  BY <1>1, <1>2, <1>3, <1>5, <1>6 DEF AssegnaResto, TypeOK
<1>8. postazioni_totali' \in [Stazioni -> Nat]
  BY <1>1, <1>3, <1>5, <1>6 DEF AssegnaResto, TypeOK
<1>9. TypeOK' BY <1>1, <1>8 DEF AssegnaResto, TypeOK
<1>10. PostiQuantiOperatori'
  <2>1. rimanenti = NOFWORKERS - (4 + Extra(0) + Extra(1) + Extra(2) + Extra(3))
    BY <1>2, <1>3, <1>4 DEF rimanenti, Somma
  <2>2. Somma(postazioni_totali)' = NOFWORKERS
    BY <1>3, <1>4, <1>5, <1>6, <1>7, <2>1 DEF Somma
  <2>3. \A s \in Stazioni : postazioni_totali'[s] >= 1
    BY <1>3, <1>5, <1>7
  <2> QED BY <2>2, <2>3 DEF PostiQuantiOperatori, AssegnaResto
<1>11. PiuLentoPiuPosti'
  <2> SUFFICES ASSUME NEW s \in Stazioni, NEW r \in Stazioni,
                      AVGSRVC[s] > AVGSRVC[r]
               PROVE  postazioni_totali'[s] >= postazioni_totali'[r]
    BY DEF PiuLentoPiuPosti, AssegnaResto
  <2>1. Extra(s) >= Extra(r) BY <1>1, QuotePerTempo
  <2>2. r # PiuLenta BY <1>1, <1>6, Tipi
  <2> QED BY <1>3, <1>5, <1>7, <2>1, <2>2
<1> QED
  BY <1>9, <1>10, <1>11
  DEF AssegnaResto, Distribuiti, ForkFiniti, Bastano, Calcolo

LEMMA InvarianteInduttivo == Invariante /\ [Next]_vars => Invariante'
<1>1. Invariante /\ UNCHANGED vars => Invariante'
  BY DEF Invariante, vars, config, TypeOK, Distribuiti, ForkFiniti, Bastano,
         Calcolo, Extra, operatori_disponibili, tempo_totale, Somma,
         PostiQuantiOperatori, PiuLentoPiuPosti
<1> QED
  BY <1>1, InvarianteSpawn, InvarianteAltri, InvarianteExtra, InvarianteResto
  DEF Next, stations_assign_workers

LEMMA InvarianteSempre == Spec => []Invariante
BY InvarianteIniziale, InvarianteInduttivo, PTL DEF Spec

-----------------------------------------------------------------------------
\* Every variable keeps its type: no station is ever given a negative number of
\* posts, whatever the times and the rounding.
THEOREM TypeCorrect == Spec => []TypeOK
<1>1. Invariante => TypeOK BY DEF Invariante
<1> QED BY <1>1, InvarianteSempre, PTL

\* stations_assign_workers always leaves as many posts as operators and at
\* least one at each station (stations.c:74).
THEOREM PostiSempreQuantiOperatori == Spec => []PostiQuantiOperatori
<1>1. Invariante => PostiQuantiOperatori BY DEF Invariante
<1> QED BY <1>1, InvarianteSempre, PTL

\* A slower station never has fewer posts (stations.c:75), also when the product
\* of doubles costs it one.
THEOREM PiuLentoSemprePiuPosti == Spec => []PiuLentoPiuPosti
<1>1. Invariante => PiuLentoPiuPosti BY DEF Invariante
<1> QED BY <1>1, InvarianteSempre, PTL

\* A day that opens has an operator bound to every station.
THEOREM StazioniSempreServite == Spec => []StazioniServite
<1>1. Invariante => StazioniServite
  <2> SUFFICES ASSUME Invariante, passo = "fatto", NEW s \in Stazioni
               PROVE  addetti[s] >= 1
    BY DEF StazioniServite
  <2>1. forkati = NOFWORKERS /\ NOFWORKERS >= 4 BY DEF Invariante, ForkFiniti, Bastano
  <2> QED BY <2>1 DEF Invariante, Distribuiti, Stazioni, TypeOK
<1> QED BY <1>1, InvarianteSempre, PTL
=============================================================================
