--------------------------- MODULE CityBusProperties ---------------------------
(* What must hold of the simulation, and the fairness under which it goes on.  *)
EXTENDS CityBus

People(S) == Cardinality(S) + Cardinality(S \cap Parents)

-----------------------------------------------------------------------------
(* Seats and bicycle places are never promised twice: what is on a bus and the
   passenger its driver has just let in fit together, although the decision
   (can_board) and the count (TakeSeats) are two sections of the mutex with a
   wait for the entrance in between.                                         *)
Entering(b) == IF dpc[b] \in Boarding THEN Seats(request[b].pid) ELSE 0
EnteringBikes(b) == IF dpc[b] \in Boarding THEN Bikes(request[b].pid) ELSE 0

SeatsNeverOversold ==
    \A b \in Bus : /\ passenger_count[b] + Entering(b) <= BUS_CAPACITY
                   /\ bike_count[b] + EnteringBikes(b) <= BIKE_CAPACITY

(* A driver that is past the role check, until it has handed the role on, is
   the driver of the active bus, and its bus stands open at the station; so
   at most one driver at a time takes requests from the common queue.        *)
OneBusLoads ==
    \A b \in Bus : dpc[b] \in Serving =>
        active_bus_id = b /\ at_station[b] /\ boarding_open[b]

(* driver.c: only the active bus receives passengers. Said of drivers only: no
   two of them receive at once. It follows from OneBusLoads once all drivers
   have registered, and fails while driver 0 has not.                        *)
OneReceiver ==
    \A b, c \in Bus : dpc[b] \in Serving /\ dpc[c] \in Serving => b = c

(* While the simulation runs, a bus leaves the station only with somebody on
   board and with nobody in its doors, whatever was decided by should_depart,
   Switch and the two sections in between.                                   *)
DepartsLoaded ==
    [][\A b \in Bus : simulation_running /\ at_station[b] /\ ~at_station'[b] =>
          passenger_count[b] > 0 /\ entering_count[b] = 0]_vars

(* The processes together implement the abstract bus line: every step of theirs
   is a party boarding, a departure, a return, the end, or none of these. The
   sections of the mutex, the requests and the answers disappear in it.      *)
Line == INSTANCE BusLine WITH
            Buses <- Bus, Capacity <- BUS_CAPACITY, BikeCapacity <- BIKE_CAPACITY,
            Party <- {1, 2}, in <- at_station, load <- passenger_count,
            bikes <- bike_count, running <- simulation_running,
            transported <- passengers_transported

ImplementsBusLine == Line!Spec

-----------------------------------------------------------------------------
(* What carries the properties above from step to step.                  *)

(* entering_count is 1 while the driver has let a passenger in whose seat it
   has not counted, else 0: the wait_for_entrance_clear of a driver never
   waits for itself, and a bus at rest has nobody in its doors.              *)
EnteringIsExact ==
    \A b \in Bus : dpc[b] \notin Gone =>
        entering_count[b] = IF dpc[b] \in Boarding THEN 1 ELSE 0

(* A bus that is about to leave has somebody on board until the simulation
   stops, and only then does its driver make the departure of the shutdown.  *)
LeavingIsLoaded ==
    \A b \in Bus :
        /\ simulation_running /\ dpc[b] \in {"switch", "depart"} => passenger_count[b] > 0
        /\ dpc[b] = "last_depart" => ~simulation_running

(* The semaphore of an entrance is 1 at most, and 1 only when no driver holds
   it; no two drivers hold it, even when two let passengers in at once (see
   OneReceiver). A driver killed in the entrance never gives it back.        *)
HoldsDoor(b, s) == dpc[b] \in Holding /\ EntranceOf(request[b].pid) = s

DoorsAreExact ==
    ipc_exists => \A s \in {"entrance_passenger", "entrance_bike"} :
        /\ sem[s] <= 1
        /\ sem[s] = 1 => \A b \in Bus : ~HoldsDoor(b, s)
        /\ \A b, c \in Bus : HoldsDoor(b, s) /\ HoldsDoor(c, s) => b = c

-----------------------------------------------------------------------------
(* A passenger whose seats the driver has counted but who has not read the
   response yet.                                                             *)
Seated(p) ==
    \/ \E b \in Bus : dpc[b] = "answer" /\ request[b].pid = p
    \/ \E i \in 1 .. Len(boarding_resp[p]) : boarding_resp[p][i].approved

AtStand(p) ==
    /\ ppc[p] \in {"board_loop", "attempt", "board_slot", "board_wait", "not_boarded"}
    /\ ~Seated(p)

(* The books are kept until the dispatcher stops the simulation, or main, told
   to end, has killed everybody before the dispatcher came to that.          *)
BooksOpen == simulation_running /\ mpc # "done"

(* passengers_waiting is exactly the number of people, children included, who
   are inside the station and not on a bus: passengers add themselves, drivers
   take them off, passengers who give up take themselves off. Drivers and
   dispatcher decide whether to stop by this number. (Once main has sent
   SIGTERM a passenger that did not get in takes itself off too.)            *)
WaitingIsExact ==
    BooksOpen => passengers_waiting = People({p \in Passengers : AtStand(p)})

(* Whatever happens, kills and SIGTERM at any point included, passengers_waiting
   counts nobody who is not there: the dispatcher never waits for a passenger
   that is gone.                                                             *)
NoGhostsWait ==
    BooksOpen => passengers_waiting <= People({p \in Passengers : AtStand(p)})

(* Everybody at the stand is counted, but for the passengers whose driver was
   killed: it may have counted them aboard before.                           *)
LostWithDriver(p) == \E b \in Bus : request[b].pid = p /\ dpc[b] \in Gone

NobodyForgotten ==
    BooksOpen => People({p \in Passengers : AtStand(p) /\ ~LostWithDriver(p)})
                    <= passengers_waiting

(* Until the dispatcher's own correction at shutdown, everybody who boarded is
   either counted as transported or on a bus at the station, never both.     *)
OnBusesAtStation ==
    OverBuses([b \in Bus |-> IF at_station[b] THEN passenger_count[b] ELSE 0])

BoardedLedger ==
    simulation_running => boarded_people = passengers_transported + OnBusesAtStation

(* Registered, and neither in the station nor on a bus nor counted as gone:
   on the way to the ticket, or between the ticket office and the station.   *)
OnTheWay(p) == ppc[p] \in {"office", "ticket_slot", "ticket_wait", "closed_check",
                           "enter", "entry", "leave"}

(* While the simulation runs, everybody who was counted as created is counted
   once more: boarded, left early, waiting, or on the way. The last group has
   no counter of its own in shm_data_t.                                      *)
EverybodyAccounted ==
    BooksOpen =>
        total_passengers_created =
            boarded_people + passengers_left_early + passengers_waiting
              + People({p \in Passengers : OnTheWay(p)})

(* main.c ends the dispatcher when "all passengers are accounted for" by the
   same sum. A bus on the road counts twice in it, a passenger between the
   ticket office and the station not at all: the sum can be right while a
   passenger is still on its way, and the simulation is ended under it.      *)
DrainIsGenuine ==
    mpc = "monitor" /\ simulation_running /\ drain_complete =>
        \A p \in Passengers : ~OnTheWay(p) /\ ~AtStand(p)

-----------------------------------------------------------------------------
InBoardingQueue(p) ==
    Cardinality({i \in 1 .. Len(boarding_queue[MTypeOf(p)]) :
                    boarding_queue[MTypeOf(p)][i].pid = p})
InDriversHands(p) ==
    Cardinality({b \in Bus : request[b].pid = p /\ dpc[b] \notin Gone})

(* A passenger waiting for a boarding response has one request in the queue,
   in the hands of one driver, or one response: none is lost, none doubled,
   and no response outlives its request.                                     *)
OneAnswerPerRequest ==
    ipc_exists => \A p \in Passengers :
        InBoardingQueue(p) + InDriversHands(p) + Len(boarding_resp[p])
            = IF ppc[p] = "board_wait" THEN 1 ELSE 0

(* When drivers may be killed: the request a driver was working on goes with it
   for good, its passenger keeps waiting and asks nobody else. No other request
   is lost, none is ever doubled.                                            *)
InAnyHands(p) == Cardinality({b \in Bus : request[b].pid = p})

AnsweredOrLost ==
    ipc_exists => \A p \in Passengers :
        InBoardingQueue(p) + InAnyHands(p) + Len(boarding_resp[p])
            = IF ppc[p] = "board_wait" THEN 1 ELSE 0

(* Slots of the boarding queue are neither lost nor doubled: one is taken for
   each passenger between its request and its response, by the passenger
   alone, so the queues hold no more messages than there are slots.          *)
BoardingSlotsAccounted ==
    ipc_exists =>
        sem["boarding_slots"] + Cardinality({p \in Passengers : ppc[p] = "board_wait"})
            = MAX_BOARDING_QUEUE_REQUESTS

-----------------------------------------------------------------------------
AtOffice(p) ==
    \/ ppc[p] = "ticket_slot"
    \/ \E i \in 1 .. Len(ticket_queue) : ticket_queue[i] = p
    \/ \E o \in Office : customer[o] = p

(* passengers_in_office counts the passengers that queue for a ticket, and
   every one of them has one place there: the passenger counts itself in, the
   office that serves it, or turns it away on closing, counts it out.        *)
InOfficeIsExact ==
    ipc_exists => passengers_in_office = Cardinality({p \in Passengers : AtOffice(p)})

(* A passenger that waits for its ticket is in the queue once, or at the
   counter of one office, or has one response; nobody else has any of these.
   The responses are bounded by no slot, the office gives the slot back before
   it answers: that each of them has its reader waiting is what keeps the
   response queue from filling up, and offices from blocking on it.          *)
OneTicketAnswer ==
    ipc_exists => \A p \in Passengers :
        Cardinality({i \in 1 .. Len(ticket_queue) : ticket_queue[i] = p})
          + Cardinality({o \in Office : customer[o] = p}) + Len(ticket_resp[p])
            = IF ppc[p] = "ticket_wait" THEN 1 ELSE 0

(* Until the dispatcher overwrites the semaphore on closing, the slots of the
   ticket queue that are not free are the requests in it: passengers take
   them, offices give them back (RAPORT.md lets the passenger give them back,
   after its response).                                                      *)
TicketSlotsAccounted ==
    ipc_exists /\ (~station_closed \/ disp_pc = "wake") =>
        sem["ticket_slots"] + Len(ticket_queue) = MAX_TICKET_QUEUE_REQUESTS

(* Once the dispatcher has closed the station nobody enters it any more, not
   even a passenger that saw it open a moment before.                        *)
NoEntryAfterClose ==
    [][station_closed => passengers_waiting' <= passengers_waiting]_vars

-----------------------------------------------------------------------------
(* Every process is scheduled again and again, time goes on. Blocked processes
   are not scheduled: their actions are disabled. Nothing is assumed of the
   environment: signals, kills and failing forks need not come.              *)
Fairness ==
    /\ \A b \in Bus : WF_vars(Drive(b)) /\ WF_vars(TimePasses(b))
    /\ \A p \in Passengers : WF_vars(Travel(p))
    /\ \A o \in Office : WF_vars(Sell(o))
    /\ WF_vars(Dispatch) /\ WF_vars(Manage)

(* Drivers and passengers alone, while the dispatcher and main sleep between
   two rounds of their loops.                                                *)
StandNext ==
    \/ \E b \in Bus : Drive(b) \/ TimePasses(b)
    \/ \E p \in Passengers : Travel(p)

FairStandSpec ==
    /\ CrowdInit /\ [][StandNext]_vars
    /\ \A b \in Bus : WF_vars(Drive(b)) /\ WF_vars(TimePasses(b))
    /\ \A p \in Passengers : WF_vars(Travel(p))

FairUpSpec == UpSpec /\ Fairness
FairCrowdSpec == CrowdSpec /\ Fairness

(* Whoever has entered the station boards or leaves in the end.                *)
BoardOrLeave ==
    \A p \in Passengers : ppc[p] = "board_loop" ~> ppc[p] \in {"join", "gone"}

(* While the simulation runs, a bus whose driver was killed does not stay the
   active one, unless the driver took SEM_SHM_MUTEX with it. Then the watchdog
   of the dispatcher, and main, wait in sem_lock for ever, and the bus stays
   active: without the condition the property is false of the code.          *)
DeadActive == active_bus_id >= 0 /\ dpc[active_bus_id] \in {"zombie", "dead"}
DeadNeverStaysActive ==
    DeadActive ~> (~DeadActive \/ frozen \/ ~simulation_running)

(* The simulation comes to an end: main has ended every process.               *)
SimulationEnds == <>(mpc = "done")

(* ticket_office.c, drain_queue_on_close: nobody is left waiting for a ticket.
   True as long as the station is not closed; the run ticket_wait closes it
   and finds a passenger that nobody answers.                                *)
TicketWaitEnds ==
    \A p \in Passengers : ppc[p] = "ticket_wait" ~> ppc[p] # "ticket_wait"
=============================================================================
