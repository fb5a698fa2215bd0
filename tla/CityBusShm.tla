------------------------------ MODULE CityBusShm ------------------------------
(* What the processes of City_Bus share: the shared-memory segment shm_data_t  *)
(* (include/common.h), the semaphores and the message queues (ipc.c), and the  *)
(* state the dispatcher gives them before any other process attaches.          *)
(*                                                                             *)
(* Every section of the code between sem_lock(SEM_SHM_MUTEX) and the matching  *)
(* sem_unlock is one step of the model, so between two steps nobody holds the  *)
(* mutex but a process that was killed or stopped in the middle of a section:  *)
(* sem_lock sets no SEM_UNDO. That section counts as not done, and frozen says *)
(* that nobody else can begin one.                                             *)
EXTENDS Integers, Sequences

CONSTANTS
    MAX_BUSES,                    \* number of buses, one driver process each
    BUS_CAPACITY, BIKE_CAPACITY,  \* seats and bicycle places of one bus
    TICKET_OFFICES,               \* number of ticket office processes
    MAX_TICKET_QUEUE_REQUESTS,    \* initial value of SEM_TICKET_QUEUE_SLOTS
    MAX_BOARDING_QUEUE_REQUESTS,  \* initial value of SEM_BOARDING_QUEUE_SLOTS
    Passengers,                   \* the passenger processes main may fork
    Vips, Cyclists, Parents,      \* is_vip, has_bike, has_child_with
    NoPassenger,                  \* no passenger (a request that is not there)
    PERF_MODE,                    \* log_is_perf_mode()
    FULL_DEPART,                  \* --full: g_depart_when_full
    Events                        \* what the environment may do, see CityBus

Bus == 0 .. MAX_BUSES - 1
Office == 0 .. TICKET_OFFICES - 1

ASSUME SizesAssumption ==
    /\ MAX_BUSES \in Nat \ {0}
    /\ BUS_CAPACITY \in Nat \ {0}
    /\ BIKE_CAPACITY \in Nat
    /\ TICKET_OFFICES \in Nat
    /\ MAX_TICKET_QUEUE_REQUESTS \in Nat
    /\ MAX_BOARDING_QUEUE_REQUESTS \in Nat

(* init_passenger: an adult with a child has no bicycle.                       *)
ASSUME ProfilesAssumption ==
    /\ Vips \subseteq Passengers
    /\ Cyclists \subseteq Passengers
    /\ Parents \subseteq Passengers
    /\ Cyclists \cap Parents = {}
    /\ NoPassenger \notin Passengers

ASSUME ModesAssumption == PERF_MODE \in BOOLEAN /\ FULL_DEPART \in BOOLEAN

(* passenger_info_t.seat_count: the child takes a seat of its own.             *)
Seats(p) == IF p \in Parents THEN 2 ELSE 1
Bikes(p) == IF p \in Cyclists THEN 1 ELSE 0

VARIABLES
    (* flags of shm_data_t *)
    simulation_running, station_open, boarding_allowed,
    spawning_stopped, station_closed, test_fill_queue,
    (* counters of shm_data_t *)
    total_passengers_created, passengers_transported, passengers_waiting,
    passengers_in_office, passengers_left_early, boarded_people,
    tickets_issued, tickets_denied,
    (* bus_state_t, one function of the bus per field *)
    at_station, boarding_open, passenger_count, bike_count, entering_count,
    departure_time,
    (* which bus loads, and which drivers are registered *)
    active_bus_id, driver_pids,
    (* semaphores, queues, and whether ipc_cleanup_all has not run yet *)
    sem, ticket_queue, ticket_resp, boarding_queue, boarding_resp, ipc_exists,
    (* SEM_SHM_MUTEX is in the hands of a process that does not go on *)
    frozen

shmFlags == <<simulation_running, station_open, boarding_allowed,
              spawning_stopped, station_closed, test_fill_queue>>
flagVars == <<shmFlags, frozen>>
officeCounters == <<passengers_in_office, tickets_issued, tickets_denied>>
rideCounters == <<total_passengers_created, passengers_transported,
                  passengers_waiting, passengers_left_early, boarded_people>>
counterVars == <<officeCounters, rideCounters>>
loadVars == <<passenger_count, bike_count, entering_count>>
busVars == <<at_station, boarding_open, loadVars, departure_time,
             active_bus_id, driver_pids>>
ticketQueues == <<ticket_queue, ticket_resp>>
boardingQueues == <<boarding_queue, boarding_resp>>
ipcVars == <<sem, ticketQueues, boardingQueues, ipc_exists>>
shmVars == <<flagVars, counterVars, busVars, ipcVars>>

-----------------------------------------------------------------------------
(* Where departure_time stands against time(NULL): 0, later than now, reached, *)
(* or exceeded by more than the two seconds the overseer tolerates.            *)
Time == {"none", "ahead", "due", "overdue"}

Semaphore == {"entrance_passenger", "entrance_bike",
              "ticket_slots", "boarding_slots"}

(* mtype of a boarding request: msgrcv(-MSG_BOARD_REQUEST) takes the lowest.   *)
BoardingType == {1, 2}
MTypeOf(p) == IF p \in Vips THEN 1 ELSE 2

BoardingRequest == [pid : Passengers, has_ticket : BOOLEAN]
NoRequest == [pid |-> NoPassenger, has_ticket |-> FALSE]
BoardingResponse == [bus : Bus, approved : BOOLEAN]

(* sem_setval(SEM_TICKET_QUEUE_SLOTS, 1000) of the dispatcher, scaled down to  *)
(* a value no instance can use up.                                             *)
WAKE_ALL == 100

(* Mutant: sem_lock does not wait (IPC_NOWAIT, result ignored).               *)
CanLockAtOnce(s) == ipc_exists

(* sem_lock succeeds; after ipc_cleanup_all it returns -1 instead of blocking. *)
CanLock(s) == ipc_exists /\ sem[s] > 0
Locked(s) == [sem EXCEPT ![s] = @ - 1]
Unlocked(s) == [sem EXCEPT ![s] = @ + 1]

(* sem_lock(SEM_SHM_MUTEX) gets through, or fails with the semaphores gone; a
   signal does not end it (EINTR is tried again).                            *)
MutexFree == ~(frozen /\ ipc_exists)

(* msg_send_*: a message, or nothing once the queue has been removed.          *)
Sent(queue, to, msg) ==
    IF ipc_exists THEN [queue EXCEPT ![to] = Append(@, msg)] ELSE queue

(* Mutant: no correction of a negative counter.                                *)
Unclamped(n) == n

ClampAtZero(n) == IF n < 0 THEN 0 ELSE n

(* Mutant: the child is not counted off.                                       *)
WaitingWithoutAdult(p) == ClampAtZero(passengers_waiting - 1)

(* A passenger and its child stop waiting.                                     *)
WaitingWithout(p) == ClampAtZero(passengers_waiting - Seats(p))

(* What the loops over the buses add up, of a number n[b] for each bus.        *)
OverBuses(n) ==
    LET upto[k \in 0 .. MAX_BUSES] == IF k = 0 THEN 0 ELSE upto[k - 1] + n[k - 1]
    IN  upto[MAX_BUSES]

-----------------------------------------------------------------------------
ShmTypeOK ==
    /\ simulation_running \in BOOLEAN
    /\ station_open \in BOOLEAN
    /\ boarding_allowed \in BOOLEAN
    /\ spawning_stopped \in BOOLEAN
    /\ station_closed \in BOOLEAN
    /\ test_fill_queue \in BOOLEAN
    /\ total_passengers_created \in Nat
    /\ passengers_transported \in Nat
    /\ passengers_waiting \in Nat
    /\ passengers_in_office \in Int
    /\ passengers_left_early \in Nat
    /\ boarded_people \in Nat
    /\ tickets_issued \in Nat
    /\ tickets_denied \in Nat
    /\ at_station \in [Bus -> BOOLEAN]
    /\ boarding_open \in [Bus -> BOOLEAN]
    /\ passenger_count \in [Bus -> Nat]
    /\ bike_count \in [Bus -> Nat]
    /\ entering_count \in [Bus -> Int]
    /\ departure_time \in [Bus -> Time]
    /\ active_bus_id \in Bus \cup {-1}
    /\ driver_pids \in [Bus -> BOOLEAN]
    /\ sem \in [Semaphore -> Int]
    /\ ticket_queue \in Seq(Passengers)
    /\ ticket_resp \in [Passengers -> Seq(BOOLEAN)]
    /\ boarding_queue \in [BoardingType -> Seq(BoardingRequest)]
    /\ boarding_resp \in [Passengers -> Seq(BoardingResponse)]
    /\ ipc_exists \in BOOLEAN
    /\ frozen \in BOOLEAN

(* init_shared_state of the dispatcher and ipc_create_all.                     *)
EmptyStand ==
    /\ at_station = [b \in Bus |-> TRUE]
    /\ passenger_count = [b \in Bus |-> 0]
    /\ bike_count = [b \in Bus |-> 0]
    /\ entering_count = [b \in Bus |-> 0]
    /\ active_bus_id = 0

FreshIpc ==
    /\ sem = [s \in Semaphore |->
                CASE s = "ticket_slots" -> MAX_TICKET_QUEUE_REQUESTS
                  [] s = "boarding_slots" -> MAX_BOARDING_QUEUE_REQUESTS
                  [] OTHER -> 1]
    /\ ticket_queue = <<>>
    /\ ticket_resp = [p \in Passengers |-> <<>>]
    /\ boarding_queue = [t \in BoardingType |-> <<>>]
    /\ boarding_resp = [p \in Passengers |-> <<>>]
    /\ ipc_exists = TRUE

ShmInit ==
    /\ simulation_running = TRUE
    /\ station_open = TRUE
    /\ boarding_allowed = TRUE
    /\ spawning_stopped = FALSE
    /\ station_closed = FALSE
    /\ test_fill_queue = FALSE
    /\ frozen = FALSE
    /\ total_passengers_created = 0
    /\ passengers_transported = 0
    /\ passengers_waiting = 0
    /\ passengers_in_office = 0
    /\ passengers_left_early = 0
    /\ boarded_people = 0
    /\ tickets_issued = 0
    /\ tickets_denied = 0
    /\ EmptyStand /\ FreshIpc

(* The part of bus_state_t that differs before and after the drivers start.    *)
BusesParked ==
    /\ boarding_open = [b \in Bus |-> FALSE]
    /\ departure_time = [b \in Bus |-> "none"]
    /\ driver_pids = [b \in Bus |-> FALSE]

BusesReady ==
    /\ boarding_open = [b \in Bus |-> TRUE]
    /\ departure_time = [b \in Bus |-> "ahead"]
    /\ driver_pids = [b \in Bus |-> TRUE]
=============================================================================
