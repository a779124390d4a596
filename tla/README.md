# ProgettoMensa in TLA+

Models, checks and proofs of the canteen simulation in `src/`: a manager
process (`mensa`), operator processes (`operatore`) and user processes
(`utente`) over one shared memory segment, System V message queues and POSIX
semaphores. Paths below are those of the repository; `operatore.c:88` is
`src/operatore.c`, line 88.

## 1. Inventory

| Part | State | Operations | Correct when |
|---|---|---|---|
| Manager, `mensa.c` | `simulation_running`, `giorno_corrente`, `day_barrier_count`, `terminazione_causa`, the tokens of `sem_day_start` | `simulate_days`, `start_new_day`, `end_day`, `terminate_simulation`, `cleanup_and_exit` | days follow each other, the simulation ends, for the reason printed |
| Operator, `operatore.c` | its `pause_count`; `postazioni_occupate` of its station | `operator_loop`, `acquire_station_post`, `handle_pause`, `release_station_post`, `serve_user` | posts are counted right, a pause never empties a station, the quota of pauses holds |
| User, `utente.c` | what it wants and got; `sem_tavoli`; its counts in `stats_giorno` | `user_loop`, `try_all_dishes_of_type`, `go_to_station`, `go_to_cassa`, `go_to_tavolo_and_eat` | one outcome and one arrival a day, seats given back, comes back every day |
| Station, `stations.c`, queues | `porzioni`, the queue, `mutex` | `stations_refill_day`, `stations_refill_periodic`, `clear_message_queues`, `serve_user` | portions conserved and within bounds, every question answered, answers for the question asked |
| Staff, `mensa.c`, `stations.c` | `argv[2]` of each operator, `postazioni_totali` | `spawn_workers`, `stations_assign_workers` | posts add up, slower stations get more, every station has somebody |
| Start-up and end, `mensa.c`, `ipc.c` | the IPC objects, the children, `ready_count`, `sem_barrier` | IPC creation, fork and exec, barrier, kill, wait, removal | nobody starts before everything is set; a failed fork or exec keeps everybody at the barrier and no stray pid is signalled; nothing is removed under a live child |
| Statistics, `stats.c`, `operatore.c`, `utente.c` | `stats_giorno`, `stats_tot` | increments, `stats_reset_day`, `stats_update_totals`, printing | what was served is in the totals, once; the totals agree with each other |
| Configuration, `config.c`; `util.c` | none after loading | parsing two files; `rand_range` | - |

How the parts interact. The manager opens a day by clearing
`day_barrier_count`, setting `simulation_running` and posting
`sem_day_start` once for every process; it closes it by clearing
`simulation_running`, which every loop of every process polls. Users and
operators exchange requests (`mtype` 1) and answers (`mtype` user + 10000) on
one queue per station. Operators of a station share its posts and its portions
under `mutex`; the manager refills the portions without it. Users share the
seats of `sem_tavoli`. Each user adds one to `day_barrier_count` when its day is
over; `end_day` waits for the last of them, but not for more than 5 s.

What is hard here:

- the tokens of `sem_day_start` carry no day, and an operator on a pause of 2
  to 5 s may sleep over the closing and the opening of a day;
- closing a day is one assignment that each process notices at its own next
  check, some only after the next day was opened;
- posts change in four places, one of which gives back a post that is not held;
- users count themselves before and after their arrival at the barrier;
- `porzioni` is read and written inside and outside the mutex;
- the answers that are in a queue when a day closes;
- a queue has a capacity, and operators write into the queue they read from;
- an answer leaves an operator before its service is counted, and a day's
  accounts are closed and cleared after a nap;
- forks, execs and IPC calls may fail, and the manager exits as it stands;
- a truncated product of doubles decides how many posts a station has.

The list of hazards, each at its line and with the property that watches it, is
in `PROJECT.json`.

## 2. Modules

| Module | Models | Uses |
|---|---|---|
| `Condivisa` | the shared memory of the day protocol, where each process stands, the timing assumption | |
| `Operatore` | `operator_loop`, `acquire_station_post`, `handle_pause`, `release_station_post` | `Condivisa` |
| `Utente` | `user_loop`, `end_day_while_waiting`, `go_to_tavolo_and_eat` | `Condivisa` |
| `Responsabile` | `simulate_days`, `start_new_day`, `end_day`, `terminate_simulation`, `cleanup_and_exit` | `Condivisa` |
| `Giornata` | the three of them together; the properties of the day protocol | the three |
| `Simulazione` | what the simulation promises (README.md:48-53), without operators, users or semaphores | |
| `Servizio` | one station with dishes: `serve_user`, `go_to_station`, `try_all_dishes_of_type`, both refills, `clear_message_queues` | `Sportello` |
| `Sportello` | what a station promises its users (shared_structs.h:27): a counter without queues, operators or locks | |
| `Personale` | `spawn_workers`, `stations_assign_workers` | |
| `Avvio` | `main`, `spawn_workers`, `spawn_users`, `wait_all_ready`, `cleanup_and_exit`, `ipc.c`, the mains of the children up to the barrier | |
| `Pasto` | a user's way through the four stations: `user_loop`, `go_to_station`, `go_to_cassa`; `update_stats_on_service`, `pause_totali++`, `stats_reset_day`, `stats_update_totals` | `Registro` |
| `Registro` | what the statistics promise (README.md:57-64): a ledger | |
| `MCGiornata`, `MCServizio`, `MCPasto` | instances for TLC | |
| `GiornataProofs`, `PuntualeProofs` | theorems about `Giornata`: under any timing, and with the naps long enough | |
| `ServizioProofs`, `SportelloProofs` | theorems about `Servizio`: its invariants, and that it implements `Sportello` | |
| `PastoProofs`, `BilancioProofs` | theorems about `Pasto`: that it implements `Registro`, and the agreement of the totals | |
| `PersonaleProofs`, `AvvioProofs` | theorems about `Personale` and `Avvio` | |

### Correspondence with the code

An action is the stretch of code between two points at which another process
may see or change what it reads or writes. A process stands at a place named
after what it does next; in `Giornata` and `Servizio` a check of
`simulation_running` is a step of its own, so the day may close between the
check and what follows it. In `Pasto` the check of utente.c:199, 312 and the
`msgrcv` after it are one step that does not read the flag: an answer may be
taken after the day has closed, by a user whose check came before. Sections under a
semaphore that nobody enters halfway (`sem_stats`, the critical sections of the
posts) are one step.

| Places and steps in `Giornata` | Code |
|---|---|
| `day_start`, `controllo` | `sem_wait(&sem_day_start)`, then the check of operatore.c:59, utente.c:64 |
| `acquire`, `acquire_lock`; `reacquire`, ... | the loop of operatore.c:104-120 at the start of the turn (line 68), after a pause (line 79) |
| `turno`, `serve`, `pausa` | operatore.c:74, 75-78, 175-188 |
| `release`, `release_pausa` | operatore.c:88 with a post, and without one |
| `stazioni` | the visits to the stations and the till, utente.c:80-141 |
| `non_servito`, `arrivo`, `barriera` | the three copies of "count, arrive, wait" of utente.c:105-113, 129-137, 159-167 |
| `tavolo`, `posto`, `tavolo_perso`, `mangia` | go_to_tavolo_and_eat |
| `fatto`, `servito` | utente.c:145 and 148-150, in this order |
| `reset`, `apri` | start_new_day for a day after the first, and its end |
| `giorno`, `attesa`, `chiusura`, `overload` | the day, the wait of mensa.c:228, the nap of line 234, the check of line 175 |
| `kill`, `wait`, `finita` | cleanup_and_exit |

| Places and steps in `Pasto` | Code |
|---|---|
| `sceglie`, `attende`, `esce` at a `tappa` | before the visit of a station (utente.c:80, 91, 117, 125), waiting for its answer, before the check of the day after it (lines 89, 100, 123, 141) |
| `vuole`, `ha` | `want_*`, `got_*` |
| `risponde`, `aggiorna` | operatore.c:248 and 273: before the answer and before its count |
| `dopo`, `leggi`, `scrivi`, `pausa` | operatore.c:77, the load and the store of line 180, line 188 |
| `chiusura` | mensa.c:234, `stats_update_totals` at its end |
| `richieste`, `risposte` | the queues, by `mtype` |

| Places and steps in `Avvio` | Code |
|---|---|
| `shm` ... `stazioni` | the calls of `main`, mensa.c:34-57, each free to fail |
| `workers`, `users`, `attesa` | the two loops of forks, the wait of line 63 |
| `giorno`, `posti`, `porzioni`, `rilascia` | lines 65-70 |
| `simula` | line 72, where `Giornata` begins |
| `kill`, `wait`, `rimuovi_*` | cleanup_and_exit, destroy_ipc |
| a child `nato`, `avviato`, `attaccato`, `pronto`, `oltre` | after the fork, after execve, after shmat, after `ready_count++`, past `sem_barrier` |
| `mai`, `morto` | a fork that returned -1, a child whose execve or shmat failed |

A definition whose comment begins with "variant" is not part of any
specification. It is a plausible bug in the definition that follows it, put in
its place to see that a property notices (`PROJECT.json`, "mutants").

What is abstracted:

- `ApriGiorno` posts all the tokens in one step. A process that takes its token
  between two posts of the loop does the same as one that takes it after the
  last: the loop reads and writes nothing else.
- `start_new_day` recomputes `postazioni_totali` to the same value as on every
  other day, going up from 1. An operator left over from the day before may
  find a partial count: `AcquireAspetta` is allowed while `mensa = "reset"`.
- Random draws (`rand_range`) are choices. A user may be served or run out of
  dishes in any way; how a visit ends is `Servizio`'s subject.
- `pause_oggi`, `attesa_oggi` and `serviti_oggi` in `Giornata`
  (who has paused, counted itself as waiting, counted itself as served today), and in `Servizio` `conto`, the `giorno` of a
  message and the `piatto` of an answer, are history: no guard reads them.
- A user blocked in `msgsnd` on a full queue is in `Servizio` only. In `Giornata`
  the visits to the stations may last until the day closes, and not longer;
  the timeout of mensa.c:228 acts there on users that are gone or behind.
- `Muore` is SIGTERM taking effect, at any point and once per child.

In `Servizio`, `porzioni[i]++` and `porzioni[i]--` are a load and a store, as
the `Makefile` (no `-O`) has them compiled. The day is reduced to
`simulation_running`, and a process is `fuori` between two turns. The user asks
for dishes of this station only; on a day without it, it stays `fuori`. A
message found for another user (utente.c:208, operatore.c:218) cannot be, since
the selection by `mtype` already excludes it. A user goes through each day once
(`UtFineGiorno`); in the code one that has finished may go through an open day
again, on a token that a pausing operator left (utente.c:60, finding `resta`).
`Pasto` follows that.

`Pasto` follows the user through all stations and keeps of each only its set of
requests and its set of answers; the order in the queue, its capacity and the
portions are `Servizio`'s, the posts and seats `Giornata`'s. So an operator may
be without a post for as long as it likes (it takes no step, or goes home when
the day closes) and may pause with nobody else on a post: the model allows more
than the code. Every price is 1: the takings count plates. A dish station has
one dish or several: after an answer "terminato" the user may ask again or do
without. Leftovers and waiting times are added to the totals by the same code
and are left out. `fatti` is history: what has happened since the beginning. The
counter and the threshold of the overload check (mensa.c:175) are in
`Responsabile`; in `Pasto` the simulation may end after any day, which covers
every outcome of that check, and `terminate_simulation` posts the tokens of
mensa.c:271-274. The children are not killed there: what they do after the end
touches no total.

In `Avvio` an error exit (`errore`) leaves the objects and the children as they
are, as the code does; a function of ipc.c that fails halfway (`shmat` after
`shmget`, the third `msgget`) may have made some of its objects, and leaves them
too. A child that never gets ready keeps the manager in the
loop of ipc.c:141 for ever. `simulate_days` is one step there: what happens in
the days, and that they end, is in `Giornata`.

In `Personale`, `(int)(ratio * operatori_disponibili)` is the quotient rounded
down, or one less where the exact product is a whole number: `perde` chooses
for each station, so that a property that holds, holds for every outcome the
arithmetic can have.

### Timing

The code waits for processes by sleeping. Both readings are modelled:

- `Puntuale = FALSE`: a nap guarantees nothing. Every interleaving is allowed.
  What is checked or proved so, is true on any machine under any load.
- `Puntuale = TRUE`: a nap of the manager ends only when every process has done
  what it can do without a longer sleep of its own: it is on its semaphore with
  no token left, on a pause, or out (`Fermi`, `Svegli` in `Condivisa`). The code
  justifies it when machines are not overloaded: services last milliseconds
  (1 to 5 in the three configurations, at most 1.8 times that), polls 10 and 50
  ms, eating at most 4.5 s, while the wait of `end_day` lasts up to 5 s and the
  nap after it 100 ms. A pause, 2 to 5 s, is longer than those 100 ms, and than a
  whole day of 240 minutes with `NNANOSECS` as in the two `.conf` files (0.144 s
  and 1.44 s): it may span the change of day, and does in the model.

`Pasto` takes the naps to be long enough, as `Puntuale` does, with two
exceptions, for they are far longer than 100 ms: a pause, and a meal, which
takes 1.5 s for each plate and is not cut short when the day closes (a signal
would have to come, utente.c:394). The 100 polls of line 228 are longer than a
meal; the nap after them is not.

`UtArriva` waits for `Svegli` under `Puntuale`: a user crosses its whole day in
no less than a poll of the queue, and a process that a token has woken reads
`simulation_running` before.

## 3. Runs

All runs set `CHECK_DEADLOCK FALSE`: the simulation stops at `finita`, and the
days of `Servizio` and the exit of `Personale` are ends too. That `Giornata`
stops nowhere else is what `SimulazioneFinisce` says.

### Properties that hold

| Run | Instance | Properties |
|---|---|---|
| `asincrona` | 2 operators, 2 posts, 1 pause a day, 1 user, 1 seat, 2 days, threshold 0, any timing | `PostiNonSovrastimati`, `PausaLasciaUno`, `PausePerGiorno`, `SeggiConservati`, `ImplementaSimulazione` |
| `puntuale` | 3 operators, 2 posts, 2 users, 1 seat, no pauses, 3 days, threshold 1, `Puntuale` | `TypeOK`, `PostiEsatti`, `UscitaSoloAllaFine`, `BarrieraEsatta`, `AttesaContaUtenti`, `ContatoriFermi` |
| `viva` | 2 operators, 1 user, 1 pause a day, 3 days, `Puntuale`, fairness | `SimulazioneFinisce` |
| `organico` | 4 mean times in {0, 1, 2, 5}, 2 to 12 operators, all roundings | `TypeOK`, `PostiQuantiOperatori`, `PiuLentoPiuPosti`, `StazioniServite` |
| `porzioni` | 2 operators, 1 user, 1 dish, 2 refills a day, 2 days, any timing | `TypeOK`, `PorzioniLimitate` |
| `domande` | 2 operators, 2 users, 2 dishes, no periodic refill, 2 days, room for 2 messages, `Puntuale`, fairness | `UnaDomanda`, `RispostaAllaDomanda`, `PorzioniConservate`, `OgniDomandaHaRisposta`, `ImplementaSportello` |
| `avvio` | 3 or 4 operators, 0 or 1 users, every call free to fail, fairness | `TypeOK`, `TuttiPartiti`, `PartenzaInsieme`, `NessunoBloccato`, `ChiusuraPulita`, `AvvioCompleto` |
| `pasto` | an operator of the first courses and one of the till, 1 user, 1 pause a day, 2 days | `TypeOK`, `BilancioTotali`, `ImplementaRegistro` |

Why the bounds are enough for the cases that matter. In `asincrona`, with no
timing at all, two operators of a station pause in turns and each may be left
behind by two days; a user may still be at table, or looking for a seat, when
the next day opens, and with a threshold of 0 both ends of the simulation happen.
In `puntuale` three operators for two posts leave one waiting, two users and one
seat leave one looking for it or losing it, and three days let a late effect of
the first show after a whole clean one. Three days in `viva` let a pause span a
change of day and its effects one more. Two operators and one portion: both may
want the last one. A queue with room for as many messages as there are users is
the smallest that a user's own message always fits in. Three operators are one
too few for the four stations and four are enough: both ends of
`stations_assign_workers` are in `avvio`. In `pasto` the two operators of
different stations are the pair whose `pause_totali++` may collide, the second
day clears the accounts of the first, and an operator that pauses over the
change of day leaves its token to the user, who goes through the second day
twice and may be eating when its accounts are closed. The theorems of section 4
are what holds beyond these bounds.

`puntuale` has no pauses on purpose. With pauses a token may stay unused, a user
may go through a day twice or be gone for good, and posts, exits, barrier and
counters are no longer exact; those are the findings `posti` and `resta` below,
and the run says that nothing else breaks them.

`AttesaContaUtenti` is about single users. Each counts itself in one of several
places, some of them copies of the same block, and `attesa_oggi` and
`serviti_oggi` remember who has: a counter is the size of its set, so nobody is
in it twice, and nobody is in neither when the manager reads them. That a user
may be in both is the finding `esito`.

The late counts that end_day's timeout makes possible (mensa.c:228) are kept out
of the accounts by the length of the naps only. `ContatoriFermi` and
`ImplementaRegistro` say so under that hypothesis; under any timing they are
legal steps of `Simulazione` (`Attende`), and no property here forbids them.

`domande` lets every operator serve; in the day protocol one without a post does
not. `Personale` shows that every station has a post and an operator for it, and
one operator is enough for the answers. A pause is an operator that takes no
step, and ends. `UnaDomanda` says more than it seems: nobody ever waits for room
in a queue that holds one message per user. In a smaller queue requests can take
the room of the answers, and users and operators block each other until SIGTERM;
with the usual 16384 bytes that takes some 400 users.

`ImplementaSportello` reads the decision taken on each question off the place of
its only message (`Domanda`): in the queue or with an operator before the store
of `porzioni[...]--` it is asked, with an operator after it or answered it is
granted, with one that found no portion it is refused. The counter of
`Sportello` refuses a dish only when no portion of it is left at that moment, and
grants it by taking one; so the run says that the queue, the mutex and the
number of operators cannot be seen from outside.

### Disagreements between the program and what it says

| Run | Property | Where |
|---|---|---|
| `esito` | `UnSoloEsito` | utente.c:149 after 353-356: a user without a seat at closing time is counted not served and served |
| `posti` | `PostiEsatti` | operatore.c:88 after 175: an operator whose day ended during its pause releases a post twice |
| `resta` | `RestaPerISuccessivi` | utente.c:64: the token that a pausing operator did not take ends another process for good, also a user that "resta per i successivi" (line 102) |
| `refill` | `PorzioniConservate` | stations.c:62: the refill takes no mutex, and a portion is lost or appears |

`esito`, `posti`, `resta` and `refill` are found under `Puntuale = TRUE`, so they
need no starved process. `posti` and `resta` need an operator on pause when the
day closes.

More were met and have no run, since they are read off the code or already show
in the shape of a model:

- `OVERLOAD` is documented as the users waiting "a fine giornata" above the
  threshold (README.md:53), who "vengono contati alla fine di ogni giornata"
  (README.md:77). A user that finds neither a first nor a second course gives up
  in the middle of the day, is counted in `utenti_in_attesa` at once
  (utente.c:106-107) and is done with its day; mensa.c:175 compares the sum. So
  the simulation may end for overload with nobody waiting when the day closes.
  `UtContaNonServito` is this count too, at any moment of the day, and
  `Sovraccarico` the comparison: `asincrona` and `puntuale` go through it;
- with service times of sum zero, "uso distribuzione uniforme" (stations.c:105)
  gives no station an extra by the ratio and all of them, as remainder, to the
  first one;
- "Tutti gli utenti hanno completato il giorno" (mensa.c:233) is printed after
  the timeout of the wait as well;
- operators are bound to stations by `i % 4` (mensa.c:106) whatever the posts
  stations.c:75 computes "in base ai tempi medi";
- `NOFWKSEATS*` (config_overload.conf:12, config.c:81-91) are loaded and never
  used;
- `pause_totali++` (operatore.c:180) is outside the mutex that shared_structs.h:124
  declares for the statistics: two pauses that begin together count as one. In
  `Pasto` it is a load and a store, and `Registro` promises of pauses only that
  the totals do not exceed them;
- a user on its second pass through a day (finding `resta`) may be eating when
  the accounts are closed: it is in no total, or counted on top of the accounts
  of the next day;
- every error exit of the start-up leaves the IPC objects, and that of
  stations.c:86 all the children too, waiting on `sem_barrier`.

### Fairness

`Giornata!FairSpec`: weak fairness of the manager, of each operator, of each
user and of the death of each child. The kernel schedules every process that
can run. For a user, the way a visit to the stations ends (`UtPaga`,
`UtRinuncia`) is not assumed to happen, since it depends on others; that a user
who finds the day closed notices it is. `Servizio!FairSpec`: weak fairness of
operators and users, and none of the manager: an answer must not depend on the
day being closed. Weak fairness of an operator is enough because its steps
disable each other only through the mutex, which is held for three steps, and
a full queue, which empties as answers are taken.

`Avvio!FairSpec`: weak fairness of the manager's `main` and of each child, its
death in `wait` included. Failures are choices inside those steps and nothing
assumes that a call succeeds; `AvvioCompleto` speaks of the runs in which none
fails. `Pasto` states safety only and has no fairness.

Liveness is checked with the naps long enough. With naps that guarantee nothing
the properties of `viva` need a bound on the days so small that a pause cannot
show its effect, so that reading is left to the safety properties of `asincrona`.

## 4. Proofs

The eight `...Proofs` modules are checked by TLAPS for every value of the
constants allowed by the assumptions (`CostantiGiornata`: finite disjoint sets
of operators and users, any stations with at least one post each, any quota,
threshold, number of seats and days, both timings; `CostantiServizio`: the same
kind, and `AVGREFILL` at least 1; `CostantiAvvio`: any numbers of operators and
users; `CostantiPasto`: finite sets, any placing of the operators at the
stations, any menu with a first or a second course, any quota and days;
`CostantiPersonale`: any sets of natural mean times and numbers of operators).
They state every safety property of every passing run, the implementations of
`Simulazione`, `Registro` and `Sportello` included; those of `puntuale` and
`domande` under the hypotheses given with them.

### The day protocol, any timing (`GiornataProofs`)

- `TypeCorrect`: `Tipi`, the types of all variables, proved inductive action by
  action.
- `PostiMaiSovrastimati`, `PausaLasciaSempreUno`: by induction,
  `postazioni_occupate[s]` is at most the number of operators that hold a post
  of `s`. It is an inequality, and not the equality the code seems to rely on,
  because the second release (operatore.c:88) breaks the equality, in the
  direction that does no harm to `handle_pause`: reading more than 1, it is
  right that somebody else is there. The proof counts with the cardinality of
  `Attivi(s)`, which a step changes by one operator at most.
- `PauseMaiTroppe`: the induction needs `PauseInduttivo`: pauses of today are at
  most `pause_count`, and an operator at a place from which it can reach the
  reset of operatore.c:63 in an open day has not paused in that day.
- `GiornataImplementaSimulazione`: the refinement maps the
  places of the manager to the phases of `Simulazione`; users that count
  themselves map to `Attende`, everything else to a decision or a stutter.
- `SeggiSempreConservati`: free seats and users at table add up, by induction.

### The day protocol with the naps long enough (`PuntualeProofs`)

`PostiSempreEsatti`, `NessunoEscePrima`, `BarrieraSempreEsatta`,
`AttesaContaSempreUtenti` and `ContatoriSempreFermi` assume `Puntuale` and
`[]PauseNelGiorno`: no operator is on a pause, or between a pause and its post,
while the day is closed. Neither can be dropped. Without the first a process may
sleep over a whole day; without the second the findings `posti` and `resta` are
counterexamples to the five taken together. The second holds in every run of a
canteen with `NOFPAUSE = 0` (`SenzaPauseNelGiorno`), so for such a canteen the
five need nothing but `Puntuale` (`SenzaPauseTuttoEsatto`); in one with pauses
it holds in the runs whose pauses end before their day does, which is what the
code would need to ensure.

The invariant follows the day in phases (`Fasi`). While some still have their
token to take (`Alba`), `sem_day_start` holds exactly one for each process that
sleeps on it and nobody has arrived. Once all are taken (`Pieno`),
`day_barrier_count` is the number of users that have arrived, so a user at
`day_start` is one that has done its day and not one that is still to begin it.
The two are needed side by side because the places alone do not tell these users
apart. Between two days everybody sleeps on an empty semaphore (`Deserto`); at
the end a token is only a way out (`Congedo`). `Turni` says that an operator
leaves its turn only when the day is closed, and then the release of
operatore.c:88 is of a post it holds: that turns the inequality of
`GiornataProofs` into the equality `PostiEsatti`.

`AttesaContaSempreUtenti` needs the same two phases user by user. A user that
still has its token to take is in none of the sets of those that counted
themselves (`EsitoAlba`); afterwards its place decides in which it may be and in
which it must be: before a count it is not in that set, past its last count it
is in one (`EsitoPieno`). So a counter grows exactly when a new user joins its
set and remains its cardinality (`Registrati`), and at `overload`, with everybody
asleep on the semaphore, every user is in one of them.

### A station (`ServizioProofs`, `SportelloProofs`)

- `PorzioniSempreLimitate`: `PorzioniInduttivo` adds what the registers hold
  between a load and its store: an operator's was at least 1 and stays so, since
  only one operator is in the critical section and a refill only adds; the
  refill's was below the cap and an operator only subtracts. This is why the
  lost updates of the finding `refill` never push a count out of its bounds.
- `SempreUnaDomanda`, `SempreRispostaAllaDomanda`, under `Puntuale`: the
  invariant `Dialogo` says of each user that its message is in one place at most
  and once there (`Distinte`, `UnSoloPosto`), that whoever waits has one and
  whoever may ask has none (`DomandaDiChiAttende`), and that each message is of
  today and for the dish its user has in mind (`Fresche`). A user that gives up
  at closing time leaves its message behind: `Chiusura` says that the manager
  clears the queue when all have left, so none is there when the next day opens.
  Without `Puntuale` it would be, and the answer would be taken for another
  question.
- `PorzioniSempreConservate`, under `Puntuale` and `[]NessunaCorsa`: the value
  of a dish is never in the register of the refill and in that of an operator at
  once. Then what either has loaded is still in `porzioni` when it stores
  (`Registri`). The race is what a mutex around stations.c:61-62 would exclude
  and the finding `refill` has, so the theorem says that nothing else loses a
  portion. Without refills there is none (`SenzaRifornimenti`), and operators
  alone keep the balance (`SoliOperatoriConservano`): that is the instance of
  `domande`.
- `StazioneImplementaSportello`, under the same two hypotheses: `DomandeChiare`
  derives the state of each question at the counter from `Dialogo`. A step of an
  operator or a user concerns one question only (`AltruiOperatore`,
  `AltruiUtente`). The check under the mutex that finds no portion is the
  refusal, the store is the grant, the other steps of operators are stutters.
  `PorzioniLimitate` is needed for the refusal (`<= 0` is `= 0`) and the balance
  above for the grant (the store takes one portion off what is there, not off
  what was there). A refill adds one portion to a dish below the cap. Without
  refills the second hypothesis goes (`SoliOperatoriImplementano`).

### The statistics (`PastoProofs`, `BilancioProofs`)

- `ContiTenuti`, in `PastoProofs`: `Pasto` implements `Registro`. For an entry
  counted under `sem_stats`, what happened is what the totals hold, plus, while
  the books are open, what the day holds and the plates answered but not yet
  counted (`ContiEsatti`, with the cardinality of the set `InVolo`). The last
  nap lets nobody be between the answer and the count, and from then on nobody
  serves (`NessunoServe`): so closing the books makes the totals equal to what
  happened. Without the nap the proof fails where the mutant of `pasto` does.
  For `pause_totali` equality does not hold. `PauseContate` bounds the value in
  memory, and every value in a register, plus the operators inside the
  increment: a store may lose other pauses and cannot invent one.
  `UtentiContati` bounds the users in the same way.
- `TotaliSempreInPari`, in `BilancioProofs`: the totals agree, however days
  close over users on their way. It is a flow: plates that were paid for, plates
  in the hands of users that have not paid (`InMano`) and plates answered and
  not yet taken (`Servite`) are no more than the plates served (`PiattiPagati`);
  users counted as served and users between the till and that count (`Paganti`)
  are no more than the plates paid for (`ServitiPagati`). A step moves one
  element from a set to the next, or drops it. For that the till must see each
  user once (`UnoAllaCassa`): its request there is its only message, and lists
  what it carries, one plate at least (`Vassoio`, by the `want_*`/`got_*` checks
  of utente.c:103, 127). A user that left the till when the day closed keeps its
  place in `InCassa` until the queues are cleared, and `Notte` says that nobody
  is on the way between the two days.

### Staff and start-up (`PersonaleProofs`, `AvvioProofs`)

- `PersonaleProofs`: shares are quotients rounded down, or one less when the
  exact product is a whole number (`QuotaDiStazione`). `QuoteDisponibili`: they
  never add up to more than the operators left after one per station, so what is
  left for the slowest station is not negative and the posts add up
  (`PostiSempreQuantiOperatori`). For `PiuLentoSemprePiuPosti` (`QuotePerTempo`)
  the slower station's quotient is at least the faster's, and if the slower one
  loses a unit its product was exact, and then the quotient of a strictly faster
  station lies strictly below. `StazioniSempreServite`: with at least four
  operators, the loop of mensa.c:106 has gone round once.
- `AvvioProofs`: `Conteggio` says that `ready_count` is the number of children
  that have signalled and that slots still to be forked are empty. A child that
  failed is never one of those that signalled, so `ready_count >= total` means
  that none did (`NessunPidFallito`). `Gettoni` balances the posts made, the
  tokens left and the children past the barrier; with `rilasci = total` a child
  still waiting leaves a token (`GettoniBastano`). `Tappe` is what has been
  written or removed by when; `BarrieraDiPartenza` and `ChiusuraSemprePulita`
  follow from the two.

### Only model-checked

Liveness: `SimulazioneFinisce`, `OgniDomandaHaRisposta` and `AvvioCompleto`. Temporal properties under fairness
and `ENABLED` are outside what the prover handles, as is induction over data. No
module that a theorem reaches declares a `RECURSIVE` operator. The four
violations are traces, found by TLC.

## 5. Not modelled, and what is left

Not modelled: `config.c` is sequential parsing of two files, whose results are
the constants; `util.c` is a random draw, and each use of it a choice; the
printing of the statistics is output only; waiting times and leftovers are sums
on the same path as the counters that are modelled.

Left to do: a composition in which the visits that `Utente` leaves open (`UtPaga`,
`UtRinuncia`) are those of `Pasto`, shown to implement `Giornata`; and `Avvio` with
`Giornata` in the place of its one step `simulate_days`.
