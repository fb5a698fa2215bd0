# City_Bus: a TLA+ model of the suburban bus simulation

City_Bus simulates a bus station with processes that share a System V memory
segment, semaphores and message queues. This directory models those processes
and checks what makes the simulation correct: seats are not oversold, one bus
loads at a time, nobody is lost from the books, and the simulation ends.

Paths such as `driver.c:383` mean `src/src/driver.c`, line 383 (headers are in
`src/include/`). `PROJECT.json` maps every definition to its lines.

## 1. The system

| Part | Process | State it keeps | Operations |
|---|---|---|---|
| shared memory, IPC (`common.h`, `ipc.c`) | all | flags, counters, `bus_state_t` per bus, `active_bus_id`, `driver_pids`; semaphores; request and response queues for tickets and boarding | `ipc_create_all`, `ipc_attach_all`, `sem_lock`, `sem_trylock`, `sem_unlock`, `sem_setval`, `msg_send_*`, `msg_recv_*`, `ipc_cleanup_all` |
| driver (`driver.c`) | one per bus | `g_running`, `g_early_departure`, `was_active` | register, role check, receive, admit and seat a passenger, hand over, depart, return, shut down |
| passenger (`passenger.c`) | one per adult | `g_info`, `g_running` | arrive, register, buy a ticket, enter, ask for a seat, leave |
| child thread (`passenger.c`) | a thread of the adult | `g_adult_boarded`, `g_child_boarded`, a mutex and a condition | wait for the adult, board with it |
| ticket office (`ticket_office.c`) | several | `g_running`, the request in hand | serve a request, drain the queue on closing |
| dispatcher (`dispatcher.c`) | one | `g_running`, `g_early_depart`, `g_block_station` | forward SIGUSR1, close the station on SIGUSR2, watch drivers, watch departures, end the simulation, remove the IPC |
| main (`main.c`) | one | pids of its children, `g_test_mode` | fork the dispatcher and poll for its IPC, fork offices, drivers and passengers, reap, drain check, run a test, end everything |

How they interact:

- **Shared memory under one mutex.** Every access is between
  `sem_lock(SEM_SHM_MUTEX)` and `sem_unlock`. The hard part is what happens
  between two such sections of one operation: a driver tests `can_board`,
  releases the mutex, waits for an entrance and counts the seats afterwards; it
  reads that it is the active bus and only then blocks in `msgrcv`; it decides
  to depart, hands over, and leaves in three sections.
- **Queues.** Passengers send requests to common queues (VIP requests have the
  lower type and go first); answers go to the sender's pid. A slot semaphore
  bounds each request queue: the office gives a ticket slot back when it takes
  the request, the passenger gives a boarding slot back when it has the answer.
- **Signals.** The user sends SIGUSR1 and SIGUSR2 to the dispatcher, which
  passes the first on to drivers. SIGTERM sets `g_running` to 0; `sem_lock` and
  `msg_recv_*` retry after EINTR, so it does not end a blocking call.
- **Start.** The dispatcher makes the IPC objects one after the other; main and
  the other processes find them by key. No process says that it is ready: who
  finds the last object takes the others to be complete.
- **Removal.** The dispatcher removes the IPC at the end: every blocked call of
  every other process returns with an error, each at another line.

What makes each part correct:

- driver: seats and bicycle places never oversold; only the active bus loads; a
  bus leaves loaded and with clear doors;
- passenger: counted once, wherever it is; one answer for each request; boards
  or leaves in the end;
- office: `passengers_in_office` is the number of people who queue, also across
  the closing; nobody is left unanswered;
- dispatcher: no entry after closing; a dead driver does not keep the role, unless
  it died with the mutex; it ends the simulation when nobody is left;
- child thread: adult and child are both aboard when their process ends, unless
  SIGTERM came; no wake-up is lost;
- start: who has attached sees initialised semaphores; who gives up leaves no
  object behind; main never polls for ever;
- the tests of main: while the slots are taken nothing gets into the queues, the
  slots are right when they are given back, and main comes to its end even when
  a child is stopped or killed with the mutex in its hands.

The list of hazards, each at its line and with the properties that cover it, is
in `PROJECT.json`.

## 2. The modules

| Module | Models |
|---|---|
| `CityBusShm` | constants with their assumptions, the segment, semaphores, queues and their initial state |
| `Driver`, `Passenger`, `TicketOffice` | one process each: a program counter and locals per process, one action per section under the mutex, per blocking call and per signal handler |
| `Dispatcher` | extends `Driver`: it signals drivers and sees whether they live |
| `MainProcess` | extends all of them: forks, reaps, ends |
| `CityBus` | the composition: `Next`, the environment (time, signals, kills), four initial states |
| `CityBusProperties` | the properties, the fairness, the specifications for liveness |
| `BusLine` | abstract specification: parties board, buses depart and return, the day ends; `CityBusProperties` instantiates it as `Line` |
| `TestMode` | the eleven tests of `run_test` over the composition, with SIGSTOP and SIGCONT |
| `Startup` | from the fork of the dispatcher to the last fork of a driver, before `CityBus` begins |
| `MCCityBus` | `CityBusProperties` for TLC |
| `ChildThread` | adult and child thread of a family at the level of the pthread calls |
| `CityBusTyping` | theorems: types; lemmas on sums over buses |
| `CityBusProofs`, `BusLineProofs` | theorems: seats, doors, departures, the active bus; the refinement of `BusLine` |
| `CityBusQueues` | theorems: slots, requests and answers, `passengers_in_office` |
| `CityBusLedger` | theorems: the books of boarded, waiting and created people |
| `StartupProofs`, `ChildThreadProofs`, `TestModeProofs` | theorems of `Startup`, `ChildThread` and `TestMode` |

State corresponds to the code by name: shared variables have the names of the
fields of `shm_data_t` and `bus_state_t` (`at_station[b]` is
`buses[b].at_station`), handlers' flags those of the globals, actions and
operators those of the functions where there is one (`can_board`,
`should_depart`, `check_shutdown`, `check_simulation_end`). `dpc`, `ppc`, `opc`,
`disp_pc` and `mpc` say where a process is; each module lists the positions.

The abstractions:

- A section under `SEM_SHM_MUTEX` is one action. Who holds the mutex is no variable:
  what a holder has done of its section is invisible until the mutex is free. A
  driver killed inside a section (`DriverKill`) keeps the mutex, because `sem_lock`
  sets no SEM_UNDO (ipc.c:330). So its section counts as not done, and `frozen`
  says that nobody begins one any more: the actions of `CityBus` ask for
  `MutexFree` where a process comes to a section (`DriverSection`,
  `PassengerSection`, `OfficeSection`, `DispatcherSection`, `MainSection`), until
  the semaphores are removed. Main reaps its children just before such a section;
  the model lets it reap in the same action, so a `frozen` main does not reap,
  which nobody could see: the watchdog does not get its section either.
  Where a handler sends its answer after such a section, the send is in the same
  action: nobody else can see the difference but by removing the queues, which
  then counts as removed before.
- The overseer (`check_bus_departures`) releases the mutex to signal a driver and
  takes it again: `FindOverdue` and `ForceDeparture` are steps of their own, with
  `overseen` the bus its loop has come to.
- Time: `departure_time` is `none`, `ahead` of now, `due` or `overdue` (more than
  the dispatcher's two seconds). `TimePasses` moves it on.
- A passenger is a model value; `Vips`, `Cyclists` and `Parents` say what
  `init_passenger` draws at random. A parent takes two seats.
- A process whose signal handlers may not be installed yet is ended by SIGTERM
  (`DriverTermEnds`, `PassengerTermEnds`), or only has its flag cleared: both may
  happen at the first position of a driver or passenger. The same goes for a
  passenger that has nothing left to do but wait for its child.
- The ten attempts of `enter_station` are one: `station_open` never becomes true
  again, so they all end alike.
- `sem_setval(..., 1000)` is `WAKE_ALL` = 100, more than any instance uses up.
- `SEM_STATION_ENTRY` and the semaphores of the offices are left out: what they
  guard is also under the mutex, or used by one process.
- Counters only reports read (`tickets_sold_people`, `boarded_vip_people`, ...),
  logs and printing are left out.

`TestMode` lets the processes of `CityBus` run as they are and adds main in test
mode. A child may be stopped (SIGSTOP) or killed anywhere; stopped inside a
section it keeps the mutex like a dead one, until SIGCONT, and the section is
still to be done then. `sem_trylock` (ipc.c:362) never blocks: `CanPeek`. The sleeps
of the tests are left out: a test may be as fast or as slow as it likes against its
children.

`Startup` is a module of its own because nothing of it goes on once the system
is up: its last states are `Init` of `CityBus`. Its objects are the shared
memory, the semaphore set and the five queues, in the order in which
`ipc_create_all` makes them.

`ChildThread` stands beside the composition: families do not share its state.
In `Passenger` its result is `ChildReturns`, the guard of `Join`: the thread
returns if the adult boarded, or was sent SIGTERM (passenger.c:55).

### Initial states

`Init` is the system as main starts it, before drivers have registered. `UpInit`
is the state after the `usleep` of main.c:1072 when all drivers have registered.
`CrowdInit` and `ColdCrowdInit` put all passengers inside the station, ticket
bought and nobody boarded, with drivers registered or not: states the program
reaches when the passengers are quick and the drivers slow. They let two
passengers and two buses be checked without the states of the office.
`Crowd` is a state after `--max_p` was reached.

## 3. What is checked

Each run is a `.cfg` of the same name; the module is `MCCityBus` (`ChildThread`
for `family`, `TestMode` for `tests`, `Startup` for `startup`). Deadlock is not
checked: the simulation ends, and its end is a state without a step.

| Run | Instance | What it shows |
|---|---|---|
| `stand` | 2 buses of 2 seats whose drivers register late, a VIP and a parent, who use the same entrance | `TypeOK`, `SeatsNeverOversold`, `DoorsAreExact`, `WaitingIsExact`, `BoardedLedger`, `OneAnswerPerRequest`, `BoardingSlotsAccounted` while buses load, hand over and return, even while two drivers receive at once; `ImplementsBusLine`: the refinement of `BusLine` |
| `full` | 1 bus of 3 seats and 1 bicycle place, VIP with bicycle, cyclist, parent; performance mode, `--full`, SIGUSR1, late buses | `SeatsNeverOversold`, `DepartsLoaded`, `LeavingIsLoaded` when the three want four seats and two places |
| `hall` | 1 bus, 1 office, 2 parents (exchangeable: `SYMMETRY`), SIGUSR2 at any time | `InOfficeIsExact`, `OneTicketAnswer`, `TicketSlotsAccounted`, `EverybodyAccounted`, `NoEntryAfterClose` |
| `start` | 1 bus, 1 office, a parent, from `Init`; forks fail, SIGINT or SIGTERM to any process, main included, at any time | `EverybodyAccounted`, `WaitingIsExact`, `OneAnswerPerRequest`, `BoardedLedger` |
| `kill` | 2 buses, a parent, drivers killed anywhere, inside a section of the mutex too; fairness | `OneBusLoads`, `EnteringIsExact`, `BoardedLedger`, `DeadNeverStaysActive` (unless the mutex went with the driver); `AnsweredOrLost`, `NoGhostsWait`, `NobodyForgotten`: what is left of the answers and of `passengers_waiting` when drivers die |
| `stand_live` | 2 buses, VIP and parent; drivers and passengers only, fairness | `BoardOrLeave` |
| `tests` | 1 bus, 1 office, a parent; test 0 (the normal mode) and the tests 1 to 11; fairness | `TestTypeOK`, `SimulationEnds`, `BlockedQueuesStayEmpty`, `SlotsRestored` |
| `startup` | an office and a driver, 3 polls of main; failing fork, execl and creation, a killed dispatcher, SIGINT; fairness | `TypeOK`, `AttachedSeesValues`, `NothingLeft`, `BootEnds` |
| `family` | 2 families; fairness | `MutexIsExact`, `FamilyBoardsTogether`, `JoinAfterBoarding` |

**Bounds.** Two buses are the least for a hand-over, a wrong election and a
driver meeting another at an entrance; two seats are the least for a parent to
be refused where a single passenger fits; two passengers the least for one to
overtake the other, three for `full`. One slot makes the slot semaphore block,
two let a VIP overtake. In `tests` one office and one bus are the ones that
main stops or kills (office 0, driver 0), so nobody can stand in for them; two
SIGUSR1 of test 3 show a second one before and after the first was seen. In
`startup` three polls meet the objects before, during and after their creation;
one office and one driver are forked in either order of success and failure.
The instances are closed: no state constraint cuts them. In `hall` two families ask
for the two seats of the bus, so that one is denied; the two have the same profile and
no definition orders passengers, which makes the symmetry sound (an invariant or
action property, no liveness, is checked there).
All events come at any moment, the events of a run being those its cfg names.
The safety theorems of section 4 hold for every size.

**Fairness.** Weak fairness of every process, of time and of main: each process
is scheduled by the kernel again and again and no guard of theirs flickers in a
way that could starve it in the instances checked. A process that is stopped, or
asks for a mutex that is not free, is not scheduled. Nothing is assumed of the user,
of kills or of failing forks. In `ChildThread` the two threads have strong
fairness, because the mutex is taken and released by the other one: each side
holds it for a bounded time and asks again.
`stand_live` leaves dispatcher and main out of `Next`: a liveness of drivers and
passengers that may not rest on the simulation being ended.

**Refinement.** `ImplementsBusLine` says that the whole system is a bus line: seen
through `at_station`, `passenger_count`, `bike_count`, `simulation_running` and
`passengers_transported`, each step is a party boarding a bus that stands in the
station and has room, a departure with somebody on board, a return of an empty
bus, the end of the day, or nothing. Requests, answers, roles, entrances, signals
and kills disappear in it.

**Mutants.** Every property of every run has a mutant: a plausible bug of a
definition (marked `Mutant` in the module, never used by a specification) under
which TLC must find the property violated.

### Where the code departs from what is written about it

Three runs must find a violation:

- `two_receivers` (`OneReceiver`): "Only the active bus receives passengers"
  (driver.c:395). The dispatcher's watchdog takes a driver that has not
  registered for a dead one and elects another bus; driver 0 then makes itself
  active without looking (driver.c:349), while the other one is in `msgrcv`.
- `drain` (`DrainIsGenuine`): "If drain is complete (all passengers accounted for),
  signal dispatcher to shutdown" (main.c:1198). The sum of main.c:1214, the same as
  that of test 5 (main.c:476), is not one over people: `depart_bus` counts the load as
  transported on leaving and empties `passenger_count` on return (driver.c:218,
  233), so a bus on the road is in it twice; whoever is between the ticket office
  and the station is not in it at all. A single passenger on the road stands in
  for one on its way, and main ends the dispatcher.
- `ticket_wait` (`TicketWaitEnds` with SIGUSR2): "send denied to each waiting
  passenger so they unblock and leave" (ticket_office.c:146). The office drains
  its queue once and exits; a passenger that has joined the office but not yet
  sent its request is never answered, `passengers_in_office` stays above 0, and
  the dispatcher does not end the simulation.

Met while modelling, and seen by TLC in this model, but without a run of their own:

- A driver killed in a section of `SEM_SHM_MUTEX` (driver.c:144-160 or 231-244, for
  example) takes the mutex with it: `sem_lock` sets no SEM_UNDO (ipc.c:330). Then
  `check_driver_health` blocks in its first line (dispatcher.c:229), although it is
  there to "detect dead drivers and reassign active_bus_id" (dispatcher.c:227), and
  the dead bus stays the active one; RAPORT.md:276 says that passengers are still
  carried as long as one bus is left. Main blocks at its next section too, and as
  `sem_lock` tries again after EINTR, neither SIGINT nor SIGTERM ends it then.
  TLC violates `DeadActive ~> ~DeadActive \/ ~simulation_running` in the run `kill`;
  `DeadNeverStaysActive` therefore leaves this case out by name (`frozen`).
- Waiting passengers still board after SIGUSR2: `boarding_allowed` is never
  cleared (dispatcher.c:173-177), though README.md:17 says they cannot board any
  bus. The log message of dispatcher.c:179 says it is meant.
- A passenger that finds the station closed tries ten times to enter; a SIGTERM
  ends the loop earlier, the test of passenger.c:492 takes it for one that got in,
  and at passenger.c:549 it subtracts from `passengers_waiting` what it never
  added. Somebody who waits for the bus is then counted no more, although
  driver.c:256 says "Don't shutdown if passengers are still waiting" and
  dispatcher.c:180 "waiting passengers will be transported": both go by that
  counter. TLC shows it as a violation of `NobodyForgotten` with SIGUSR2 and SIGTERM
  among the `Events`; it came up when `WaitingIsExact` could not be proved.
- After `--max_p` the simulation can stop while somebody is between the ticket
  office and the entrance, in no counter the dispatcher reads (dispatcher.c:334;
  main.c:1149 says that the station stays open until all are done).
- SIGUSR1 does not make an overdue bus leave when its driver is blocked in
  `msgrcv` (ipc.c:556): the bus waits for another request.
- Test 1 is to verify that the watchdog reassigns the active bus (main.c:414), but
  main goes on to the shutdown at once, and the killed driver is a zombie until
  main reaps it: `kill(pid, 0)` of the watchdog still finds it.
- After the time-out of `wait_for_ipc` main kills a dispatcher that is late and
  exits without `ipc_cleanup_all` (main.c:1029-1033): what was made stays. The
  keys are fixed and IPC_EXCL is not used, so the next run finds the old queues
  with their messages.
- An office or driver that attaches before `init_shared_state` (dispatcher.c:425)
  sees `simulation_running` false and ends, or its pid is erased; only the sleeps
  of main keep that from happening.
- The correction at shutdown counts the load of a bus on the road a second time
  (dispatcher.c:488): more people transported than boarded.
- A bus that has handed over is `at_station` until it leaves: it can be elected
  again and leave as the active bus, while another one stands idle until it is
  back (driver.c:239, 475).
- A driver killed between `msgrcv` and `msgsnd` takes the request with it; the
  passenger waits until the IPC is removed, although other drivers live.
- The child of an adult that did not board goes back to its wait after the
  signal of passenger.c:99, and `pthread_join` does not return until main kills
  the process; unless SIGTERM came before that signal, which ends the loop.
- After SIGTERM the thread of the child may end without having boarded while its
  adult, blocked in `msgrcv`, still gets an approved response and boards, for two
  seats (passenger.c:55, 326).

Where RAPORT.md describes another program than the code, the model follows the code:

- *Ticket slots.* In the pseudocode of `purchase_ticket` (RAPORT.md:507-514) the
  passenger gives the slot of `SEM_TICKET_QUEUE_SLOTS` back after the response; in
  the code the office gives it back on receipt of the request
  (ticket_office.c:255). By the document the slots bound all the requests and responses
  of the office, by the code only the requests in the queue: `TicketSlotsAccounted`
  (free slots plus queued requests) is true of the code, and would be false of the
  document's version.
- *Ticket denied on closing.* There the passenger tests whether the station is closed
  before it asks; the code has no such test (passenger.c:149-185), which
  `ticket_wait` is about.
- *Entering.* There `enter_station` is called once and counts as successful; the code
  tries up to ten times (passenger.c:484).
- *Denials.* There a passenger ends when `attempt_boarding` returns 0; the code tries
  again after any denial (passenger.c:527), which `BoardOrLeave` rests on.
- *Departure.* There `depart_bus` empties `passenger_count` with the departure; the
  code on the return (driver.c:233), which makes the double count of `drain`.
- *Books.* The sample output of RAPORT.md:337-342 (25689 created, 25689 boarded, 2 left
  early) does not fit `EverybodyAccounted`, and its adults and children are 25691: as if
  who left had been taken off those created, which the code never does. It is
  printed after the stop, where the property ends (`BooksOpen`).

## 4. What is proved

TLAPS proves, for every value of the constants that meets the assumptions
`SizesAssumption`, `ProfilesAssumption`, `ModesAssumption` of `CityBusShm` and
`PassengersAssumption` of `CityBus` (sizes are naturals and at least one bus with
at least one seat; an adult with a child has no bicycle, which `init_passenger`
ensures; no passenger is called `NoPassenger`; the modes are Booleans; main forks
finitely many passengers), `TriesAssumption`, `FaultsAssumption` of `Startup` and
`TestsAssumption` of `TestMode`:

| Theorem | States |
|---|---|
| `SpecTyped`, `UpSpecTyped` | `TypeOK`, from `Init` and from `UpInit` |
| `SeatsTheorem` | `Spec => []SeatsNeverOversold` |
| `DepartureTheorem` | `Spec => [](EnteringIsExact /\ LeavingIsLoaded)` |
| `DepartsLoadedTheorem` | `Spec => DepartsLoaded` |
| `DoorsTheorem` | `Spec => []DoorsAreExact` |
| `OneBusLoadsTheorem` | `UpSpec => [](OneBusLoads /\ OneReceiver)` |
| `NoEntryAfterCloseTheorem` | `Spec => NoEntryAfterClose` |
| `BusLineTheorem` | `Spec => ImplementsBusLine` |
| `BoardingSlotsTheorem`, `TicketSlotsTheorem` | `Spec => []BoardingSlotsAccounted`, `Spec => []TicketSlotsAccounted` |
| `OneTicketAnswerTheorem`, `InOfficeTheorem` | `Spec => []OneTicketAnswer`, `Spec => []InOfficeIsExact` |
| `AnsweredTheorem` | `Spec => []AnsweredOrLost` |
| `OneAnswerTheorem` | no kills: `Spec => []OneAnswerPerRequest` |
| `BoardedLedgerTheorem` | `Spec => []BoardedLedger` |
| `NoGhostsTheorem` | `Spec => []NoGhostsWait` |
| `NobodyForgottenTheorem` | one signal only: `Spec => []NobodyForgotten` |
| `WaitingTheorem` | one signal only, no kills: `Spec => []WaitingIsExact` |
| `EverybodyTheorem` | one signal only: `Spec => []EverybodyAccounted` |
| `AttachedSeesValuesTheorem`, `NothingLeftTheorem`, `StartupTypeCorrect` | `Startup`: the two properties and its types |
| `TestTyped`, `BlockedQueuesTheorem`, `SlotsRestoredTheorem` | `TestMode`: `TestTypeOK`, `BlockedQueuesStayEmpty`, `SlotsRestored`, from `TestSpec` |
| `MutexTheorem`, `FamilyTheorem` | `ChildThread`: `MutexIsExact`, `FamilyBoardsTogether` |

All but four hold whatever signals and kills the environment sends. *No kills* is
`"kill" \notin Events`: a killed driver takes the request it had with it, and with
kills `AnsweredOrLost` and `NobodyForgotten` say what is left. *One signal only* is
`~({"close", "term"} \subseteq Events)`: with both, `passengers_waiting` may forget
a waiting passenger (section 3), and what holds is `NoGhostsWait`. Neither is a
restriction of the proof: without it the property is false of the code.

The argument of `CityBusProofs`: first a lemma per process says what its steps
may do to the state of the drivers, gathered in `Elsewhere`, the disjunction of
what the world outside one driver can do to its bus. Each invariant then needs one case
per action of a driver and one for `Elsewhere`.

- *Seats.* `SeatsNeverOversold` is inductive with `TypeOK`, since it counts the
  passenger a driver has admitted and not seated yet. This is what makes two
  sections of the mutex safe: only the bus's own driver adds to its load.
- *Departures.* The loads are kept by `EnteringIsExact` (the doors count one just
  while a passenger is between the two sections) and `LeavingIsLoaded` (a bus
  past its decision is loaded until the simulation stops). The action property
  follows from the two.
- *Doors.* `DoorsAreExact` is inductive as a whole: the semaphore is at most 1, it is 1
  only when no driver holds it, and two drivers never hold the same. The last part alone is
  not: without the second a driver could lock what another holds.
- *One bus loads.* Inductive only with the fact that every driver in the loop
  has registered (`driver_pids`): the watchdog then elects another bus only when
  the driver of the active one is dead, and so in no section. From `Init` the
  property is false (`two_receivers`).
- *No entry after closing.* `ClosedIsShut`: `station_closed` implies that
  `station_open` is false, for ever.
- *The bus line.* `DriversKnowWhere`: a driver at work knows that its bus is at the
  station, one asleep on the road that it is not; without it a passenger could be
  seated in a bus that is away. With `SeatsNeverOversold` (room for the party) and
  `LeavingIsLoaded` (nobody leaves empty) each action of a driver maps to a step
  of the line or a stutter, `Shutdown` to the end of the day, everything else
  stutters.

The argument of `CityBusQueues`:

- *Slots.* `BoardingSlotsAccounted` is inductive with `TypeOK`: a passenger leaves or
  joins the set of those who wait for an answer just as the semaphore moves by one
  (cardinality of a set with an element more or less). `TicketSlotsAccounted`
  needs in addition that `station_closed` is set by the dispatcher alone and the
  semaphore overwritten after it.
- *Answers.* How often a passenger occurs in a sequence is a cardinality: lemmas
  say what `Append` and `Tail` do to it. Each step that moves a request then adds
  one where it takes one away. A driver works on a request exactly at its
  positions between `recv` and the response; the invariant is stated for dead
  drivers too, since their request stays with them (`AnsweredOrLost`).
  `OneAnswerPerRequest` follows when nobody dies before the IPC goes.
- *In the office.* Who is between the count and the response is at one of three
  places (`AtOffice`), by `OneTicketAnswer` at one only; joining, serving and
  turning away move the set and the counter together.

The argument of `CityBusLedger`, from where the requests and the buses are:

- *Sums.* `OverBuses`, a recursive function, is the sum over the buses. The library's
  induction theorems take an operator as a parameter, which the provers cannot
  instantiate; `SetInduction` in `CityBusTyping`, derived from the well-foundedness of
  the naturals, takes the set of those `n` for which the claim holds instead. So a
  sum is a natural number, 0 when all its terms are, and changes by as much as one
  of them changes.
- *Boarded.* A load is counted on seating, moves to `passengers_transported` when the
  bus leaves, and is dropped when the bus is back; `DriversKnowWhere` says that this
  bus was not at the station meanwhile.
- *Books.* Until the simulation stops or main has ended everybody (`BooksOpen`) the
  queues are there, and `EndsInOrder` says why: the dispatcher closes the books
  before it removes the queues, main removes them only after that.
- *Waiting.* A passenger is at the stand (`AtStand`) unless seated; `OneHolder` (from
  `AnsweredOrLost`) says that the driver who seats it is the only one that has it.
  Then each step enters one person or family to the stand, takes one off, or leaves it
  alone, and moves the counter by the same number. A stray passenger, one that is
  at the stand without having entered, can only make the counter too small:
  `NoGhostsWait` needs no hypothesis. That no stray is possible with one signal
  only gives the other half.
- *Everybody.* The people on the way and those at the stand change places, or are
  counted as boarded or left, in one section each.

The argument of `StartupProofs`: the invariant `IInv` adds to the properties
`MadeInOrder` (there are no objects but those the dispatcher has made, and from the
third one on the values are set: whoever finds the last one can only have found
it after that) and `Ends` (what is true when the dispatcher has not begun, and of
each way it or main can end). Both are about the order of calls only, so it does
not matter who polls or attaches when.

The argument of `ChildThreadProofs`: `FamilyBoardsTogether` is about the end of the
adult and needs the way there. `ChildFollows` says that, unless SIGTERM has come, the
child is out of its loop only when its adult has boarded, that it has boarded when
it has returned, and that the adult ends after it. With it go the types and
`MutexIsExact`. The loop is what keeps a spurious wake-up, and the signal an adult sends
whether or not it boarded (passenger.c:99), from letting the child go.

The argument of `TestModeProofs`: a step of `TestSpec` is one of the processes, to which
the lemmas of `CityBusQueues` apply, or one of main in its test. `SlotInvariant` says
of tests 6 to 8 that the slots are taken before there is a passenger (`NobodyYet`),
that nobody closes the station (`SlotTestCourse`: the dispatcher, which overwrites the
ticket slots on closing, does not interfere), and of each queue that it is idle
without a slot while main holds them, and has its slots accounted for otherwise.
That the queue is idle, nobody waiting for a response included, is what makes the
plain SETVAL of main right.

Only model-checked: liveness and fairness, which are out of the prover's reach
(`BoardOrLeave`, `DeadNeverStaysActive`, `SimulationEnds`, `BootEnds`,
`JoinAfterBoarding`). Every invariant and action property the passing runs check is
proved. The theorems start from `Init` (from `UpInit` where it is said): the runs
that start in `CrowdInit` or `ColdCrowdInit` begin in the middle of a behaviour.

## 5. What is not modelled

- the size of the queues in bytes, which test 11 of main means to reach:
  `OneTicketAnswer` bounds the responses by the passengers that wait;
- several passengers in the runs with fairness of `tests`; a passenger killed by
  itself (only main kills passengers, at the end);
- `SEM_STATION_ENTRY` and the semaphores of the offices as variables;
  `SEM_BOARDING_MUTEX`, `SEM_BUS_READY` and the dispatch queue, which no process uses;
- the values of the segment before `init_shared_state`, and leftovers of a run that
  was killed (see above);
- `pthread_create` failing, errors of `semop` and `msgsnd` other than removal and
  interruption (the code exits);
- logging (`logging.c`): it writes files and the terminal under a file lock it tries
  a bounded number of times; no process reads what it writes, so it changes nothing
  the properties are about;
- command line, printing, build.

## 6. Plan

1. *(done)* the processes, their composition, safety, liveness and the first
   theorems.
2. *(done)* the tests of main, stopped and killed holders of the mutex, SIGINT of
   main, the start of the system, the overseer in steps.
3. *(done)* the abstract bus line, its refinement and proof; slots.
4. *(done)* answers, the office, the ledger, waiting and created people, proved.
5. *(done)* the theorems of `TestMode`.
6. A message queue with a size in bytes under the burst of test 11.
