----------------------------- MODULE Personale -----------------------------
(***************************************************************************)
(* Who works where: spawn_workers (src/mensa.c) gives every operator its   *)
(* station before the posts are counted, and stations_assign_workers       *)
(* (src/stations.c) counts the posts of each station from the mean service *)
(* times.  Stations are numbered as in the code: 0 first courses, 1 second *)
(* courses, 2 coffee, 3 till.                                              *)
(***************************************************************************)
EXTENDS Integers

CONSTANTS
  Organici,  \* values of NOFWORKERS in the configuration
  Tempi      \* values of AVGSRVC* in the configuration

ASSUME CostantiPersonale == Organici \subseteq Nat /\ Tempi \subseteq Nat

Stazioni == 0..3

VARIABLES
  NOFWORKERS, AVGSRVC, \* the configuration
  perde,             \* rounding of the doubles, see Extra
  forkati,           \* loop variable of spawn_workers
  addetti,           \* operators whose argv[2] is the station
  postazioni_totali, \* st->postazioni_totali
  passo              \* where the manager stands

config == <<NOFWORKERS, AVGSRVC, perde>>
vars == <<config, forkati, addetti, postazioni_totali, passo>>

Somma(f) == f[0] + f[1] + f[2] + f[3]

Init ==
  /\ NOFWORKERS \in Organici
  /\ AVGSRVC \in [Stazioni -> Tempi]
  /\ perde \in [Stazioni -> BOOLEAN]
  /\ forkati = 0
  /\ addetti = [s \in Stazioni |-> 0]
  /\ postazioni_totali = [s \in Stazioni |-> 0]
  /\ passo = "spawn"

\* variant: the till is forgotten
StazioneDi_Tre(i) == i % 3

\* argv[2] of the operator number i
StazioneDi(i) == i % 4

\* variant: one operator too many
spawn_workers_UnoInPiu ==
  /\ passo = "spawn"
  /\ forkati <= NOFWORKERS
  /\ forkati' = forkati + 1
  /\ addetti' = [addetti EXCEPT ![StazioneDi(forkati)] = @ + 1]
  /\ UNCHANGED <<config, postazioni_totali, passo>>

spawn_workers ==
  /\ passo = "spawn"
  /\ forkati < NOFWORKERS
  /\ forkati' = forkati + 1
  /\ addetti' = [addetti EXCEPT ![StazioneDi(forkati)] = @ + 1]
  /\ UNCHANGED <<config, postazioni_totali, passo>>

TuttiForkati ==
  /\ passo = "spawn"
  /\ forkati = NOFWORKERS
  /\ passo' = "minimo"
  /\ UNCHANGED <<config, forkati, addetti, postazioni_totali>>

\* fewer operators than stations: exit(EXIT_FAILURE) with the children alive
TroppoPochi ==
  /\ passo = "minimo"
  /\ NOFWORKERS < 4
  /\ passo' = "errore"
  /\ UNCHANGED <<config, forkati, addetti, postazioni_totali>>

UnoPerStazione ==
  /\ passo = "minimo"
  /\ NOFWORKERS >= 4
  /\ postazioni_totali' = [s \in Stazioni |-> 1]
  /\ passo' = "extra"
  /\ UNCHANGED <<config, forkati, addetti>>

operatori_disponibili == NOFWORKERS - 4

tempo_totale == IF Somma(AVGSRVC) <= 0 THEN 1 ELSE Somma(AVGSRVC)

\* variant: the conversion rounds to the nearest
Extra_Vicino(s) ==
  (2 * AVGSRVC[s] * operatori_disponibili + tempo_totale)
     \div (2 * tempo_totale)

(***************************************************************************)
(* (int)(ratio * operatori_disponibili): the product is the quotient below *)
(* up to the rounding of two operations on doubles.  When the quotient is  *)
(* a whole number k > 0 the product may be a little less than k and the    *)
(* conversion loses one ((1.0/49)*49 gives 0); otherwise k is the quotient *)
(* rounded down.  "perde" is the choice, the same on every day.            *)
(***************************************************************************)
Extra(s) ==
  LET prodotto == AVGSRVC[s] * operatori_disponibili
      k == prodotto \div tempo_totale
  IN  IF perde[s] /\ k > 0 /\ prodotto = k * tempo_totale THEN k - 1 ELSE k

AssegnaExtra ==
  /\ passo = "extra"
  /\ postazioni_totali' = [s \in Stazioni |-> postazioni_totali[s] + Extra(s)]
  /\ passo' = "resto"
  /\ UNCHANGED <<config, forkati, addetti>>

\* variant: the comparisons are the other way round
PiuLenta_Veloce == CHOOSE s \in Stazioni :
              /\ \A r \in Stazioni : AVGSRVC[r] >= AVGSRVC[s]
              /\ \A r \in 0..(s - 1) : AVGSRVC[r] > AVGSRVC[s]

\* the first of the stations with the greatest mean service time
PiuLenta == CHOOSE s \in Stazioni :
              /\ \A r \in Stazioni : AVGSRVC[r] <= AVGSRVC[s]
              /\ \A r \in 0..(s - 1) : AVGSRVC[r] < AVGSRVC[s]

rimanenti == NOFWORKERS - Somma(postazioni_totali)

\* what the rounding left over goes to the slowest station
AssegnaResto ==
  /\ passo = "resto"
  /\ postazioni_totali' =
       IF rimanenti > 0
       THEN [postazioni_totali EXCEPT ![PiuLenta] = @ + rimanenti]
       ELSE postazioni_totali
  /\ passo' = "fatto"
  /\ UNCHANGED <<config, forkati, addetti>>

\* start_new_day counts the posts again
NuovoGiorno ==
  /\ passo = "fatto"
  /\ passo' = "minimo"
  /\ UNCHANGED <<config, forkati, addetti, postazioni_totali>>

stations_assign_workers ==
  TroppoPochi \/ UnoPerStazione \/ AssegnaExtra \/ AssegnaResto

Next == spawn_workers \/ TuttiForkati \/ stations_assign_workers \/ NuovoGiorno

Spec == Init /\ [][Next]_vars

-----------------------------------------------------------------------------
TypeOK ==
  /\ NOFWORKERS \in Organici
  /\ AVGSRVC \in [Stazioni -> Tempi]
  /\ perde \in [Stazioni -> BOOLEAN]
  /\ forkati \in 0..NOFWORKERS
  /\ addetti \in [Stazioni -> Nat]
  /\ postazioni_totali \in [Stazioni -> Nat]
  /\ passo \in {"spawn", "minimo", "extra", "resto", "fatto", "errore"}

\* "almeno 1 operatore per stazione" (stations.c:74), and the posts are as many
\* as the operators, whatever the truncations lose and also when they lose
\* nothing: the total printed at stations.c:166.
PostiQuantiOperatori ==
  passo = "fatto" =>
    /\ Somma(postazioni_totali) = NOFWORKERS
    /\ \A s \in Stazioni : postazioni_totali[s] >= 1

\* "più lento -> più operatori" (stations.c:75), read on the posts: a slower
\* station never has fewer posts, also where its share lost one to rounding.
PiuLentoPiuPosti ==
  passo = "fatto" =>
    \A s, r \in Stazioni :
      AVGSRVC[s] > AVGSRVC[r] => postazioni_totali[s] >= postazioni_totali[r]

\* A day that can be opened has an operator at every station (a station with
\* posts and nobody bound to it would serve nobody all day): the operators are
\* bound by argv[2] and cannot move to a free post elsewhere.
StazioniServite ==
  passo = "fatto" => \A s \in Stazioni : addetti[s] >= 1
=============================================================================
