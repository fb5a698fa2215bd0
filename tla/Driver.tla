-------------------------------- MODULE Driver --------------------------------
(* The driver process of a bus (driver.c). One action per section the driver   *)
(* executes under SEM_SHM_MUTEX, per blocking call, and per signal handler.    *)
EXTENDS CityBusShm

VARIABLES
    dpc,                \* where each driver is in main() of driver.c
    d_running,          \* g_running of each driver
    g_early_departure,  \* set by SIGUSR1, reset by should_depart
    was_active,         \* local of main()
    request             \* the boarding request a driver is working on

driverVars == <<dpc, d_running, g_early_departure, was_active, request>>

(* Positions between two steps of the driver:
     start              before it registers itself
     top, role          the shutdown check and the role check of the loop
     precheck           should_depart before receiving (performance mode)
     recv               blocked in msg_recv_boarding
     board              request received, can_board not evaluated yet
     entrance, seating  approved: before and after sem_lock(entrance_sem)
     answer             counted aboard, response not sent yet
     postcheck, check   should_depart after a request
     switch             about to hand the active role to another bus
     depart, away       in depart_bus
     last_depart, last_away   in the depart_bus of the shutdown
     exit, gone         leaving the loop, terminated
     zombie, dead       killed, not yet or already reaped by main            *)
DriverPC == {"start", "top", "role", "precheck", "recv", "board", "entrance",
             "seating", "answer", "postcheck", "check", "switch", "depart",
             "away", "last_depart", "last_away", "exit", "gone", "zombie",
             "dead"}

Boarding == {"entrance", "seating"}
Holding == {"seating", "answer"}
Serving == {"precheck", "recv", "board", "entrance", "seating", "answer",
            "postcheck", "check", "switch"}
Gone == {"gone", "zombie", "dead"}

DriverTypeOK ==
    /\ dpc \in [Bus -> DriverPC]
    /\ d_running \in [Bus -> BOOLEAN]
    /\ g_early_departure \in [Bus -> BOOLEAN]
    /\ was_active \in [Bus -> BOOLEAN]
    /\ request \in [Bus -> BoardingRequest \cup {NoRequest}]

DriverInit(at) ==
    /\ dpc = [b \in Bus |-> at]
    /\ d_running = [b \in Bus |-> TRUE]
    /\ g_early_departure = [b \in Bus |-> FALSE]
    /\ was_active = [b \in Bus |-> at # "start" /\ b = 0]
    /\ request = [b \in Bus |-> NoRequest]

DriverAt(b, from, to) == dpc[b] = from /\ dpc' = [dpc EXCEPT ![b] = to]

(* The driver comes to a section of SEM_SHM_MUTEX in its next step.            *)
DriverSection(b) == dpc[b] \notin {"recv", "entrance", "answer"} \cup Gone

-----------------------------------------------------------------------------
(* Registration. Driver 0 makes its bus the active one whatever another
   process has decided meanwhile.                                            *)
DriverStart(b) ==
    /\ DriverAt(b, "start", "top")
    /\ driver_pids' = [driver_pids EXCEPT ![b] = TRUE]
    /\ at_station' = [at_station EXCEPT ![b] = TRUE]
    /\ boarding_open' = [boarding_open EXCEPT ![b] = TRUE]
    /\ passenger_count' = [passenger_count EXCEPT ![b] = 0]
    /\ bike_count' = [bike_count EXCEPT ![b] = 0]
    /\ entering_count' = [entering_count EXCEPT ![b] = 0]
    /\ departure_time' = [departure_time EXCEPT ![b] = "ahead"]
    /\ active_bus_id' = IF b = 0 THEN 0 ELSE active_bus_id
    /\ was_active' = [was_active EXCEPT ![b] = b = 0]
    /\ UNCHANGED <<flagVars, counterVars, ipcVars, d_running,
                   g_early_departure, request>>

(* Waiting passengers keep the drivers at work once the station is closed.     *)
check_shutdown == ~simulation_running /\ ~(station_closed /\ passengers_waiting > 0)

(* The test of g_running, then check_shutdown and the choice of a final
   departure. The two sections under the mutex are one step: after the
   simulation stopped nobody but the driver itself writes its bus.           *)
CheckShutdown(b) ==
    /\ \/ ~d_running[b] /\ DriverAt(b, "top", "exit")
       \/ /\ d_running[b] /\ check_shutdown
          /\ IF at_station[b] /\ (passenger_count[b] > 0 \/ entering_count[b] > 0)
             THEN DriverAt(b, "top", "last_depart")
             ELSE DriverAt(b, "top", "exit")
       \/ d_running[b] /\ ~check_shutdown /\ DriverAt(b, "top", "role")
    /\ UNCHANGED <<shmVars, d_running, g_early_departure, was_active, request>>

(* Only the active bus, at the station and open, goes on to receive.           *)
MayReceive(b) == at_station[b] /\ boarding_open[b] /\ active_bus_id = b

Role(b) ==
    LET am_active == active_bus_id = b
        became_active == am_active /\ ~was_active[b] /\ at_station[b]
    IN  /\ DriverAt(b, "role",
             IF MayReceive(b)
             THEN IF PERF_MODE THEN "precheck" ELSE "recv"
             ELSE "top")
        /\ departure_time' = IF became_active
                             THEN [departure_time EXCEPT ![b] = "ahead"]
                             ELSE departure_time
        /\ was_active' = [was_active EXCEPT ![b] = am_active]
        /\ UNCHANGED <<flagVars, counterVars, at_station, boarding_open, loadVars,
                       active_bus_id, driver_pids, ipcVars, d_running,
                       g_early_departure, request>>

(* msgrcv with mtype -2: the oldest request of the lowest type. A removed
   queue makes it return -1, and the driver goes on to should_depart.        *)
RecvType(t) == boarding_queue[t] # <<>> /\ \A u \in 1 .. t - 1 : boarding_queue[u] = <<>>

Recv(b) ==
    /\ \E t \in BoardingType :
          /\ ipc_exists /\ RecvType(t)
          /\ request' = [request EXCEPT ![b] = Head(boarding_queue[t])]
          /\ boarding_queue' = [boarding_queue EXCEPT ![t] = Tail(@)]
    /\ DriverAt(b, "recv", "board")
    /\ UNCHANGED <<flagVars, counterVars, busVars, sem, ticketQueues,
                   boarding_resp, ipc_exists, d_running, g_early_departure,
                   was_active>>

RecvRemoved(b) ==
    /\ ~ipc_exists
    /\ DriverAt(b, "recv", "check")
    /\ UNCHANGED <<shmVars, d_running, g_early_departure, was_active, request>>

-----------------------------------------------------------------------------
(* process_boarding_request                                                    *)

(* Mutant: the test for one free seat, whoever asks (BUS_HAS_PASSENGER_SPACE). *)
can_board_one_seat(b, r) ==
    /\ r.has_ticket \/ r.pid \in Vips
    /\ boarding_allowed /\ at_station[b] /\ boarding_open[b]
    /\ passenger_count[b] < BUS_CAPACITY
    /\ r.pid \in Cyclists => bike_count[b] < BIKE_CAPACITY

(* Mutant: one bicycle too many.                                               *)
can_board_bikes(b, r) ==
    /\ r.has_ticket \/ r.pid \in Vips
    /\ boarding_allowed /\ at_station[b] /\ boarding_open[b]
    /\ passenger_count[b] + Seats(r.pid) <= BUS_CAPACITY
    /\ r.pid \in Cyclists => bike_count[b] <= BIKE_CAPACITY

can_board(b, r) ==
    /\ r.has_ticket \/ r.pid \in Vips
    /\ boarding_allowed
    /\ at_station[b]
    /\ boarding_open[b]
    /\ passenger_count[b] + Seats(r.pid) <= BUS_CAPACITY
    /\ r.pid \in Cyclists => bike_count[b] < BIKE_CAPACITY

AfterRequest == IF PERF_MODE THEN "postcheck" ELSE "check"
EntranceOf(p) == IF p \in Cyclists THEN "entrance_bike" ELSE "entrance_passenger"
Response(b, ok) == [bus |-> b, approved |-> ok]

(* Mutant: the passenger in the doors is not counted.                          *)
GrantUncounted(b) ==
    /\ DriverAt(b, "board", "entrance")
    /\ can_board(b, request[b])
    /\ UNCHANGED <<shmVars, d_running, g_early_departure, was_active, request>>

Grant(b) ==
    /\ DriverAt(b, "board", "entrance")
    /\ can_board(b, request[b])
    /\ entering_count' = [entering_count EXCEPT ![b] = @ + 1]
    /\ UNCHANGED <<flagVars, counterVars, at_station, boarding_open,
                   passenger_count, bike_count, departure_time, active_bus_id,
                   driver_pids, ipcVars, d_running, g_early_departure,
                   was_active, request>>

(* Mutant: a denial without a response.                                        *)
DenySilently(b) ==
    /\ DriverAt(b, "board", AfterRequest)
    /\ ~can_board(b, request[b])
    /\ request' = [request EXCEPT ![b] = NoRequest]
    /\ UNCHANGED <<shmVars, d_running, g_early_departure, was_active>>

Deny(b) ==
    /\ DriverAt(b, "board", AfterRequest)
    /\ ~can_board(b, request[b])
    /\ boarding_resp' = Sent(boarding_resp, request[b].pid, Response(b, FALSE))
    /\ request' = [request EXCEPT ![b] = NoRequest]
    /\ UNCHANGED <<flagVars, counterVars, busVars, sem, ticketQueues,
                   boarding_queue, ipc_exists, d_running, g_early_departure,
                   was_active>>

(* The entrances belong to the station, not to the bus: all drivers share
   the two semaphores.                                                       *)
EntranceLock(b) ==
    /\ DriverAt(b, "entrance", "seating")
    /\ \/ /\ CanLock(EntranceOf(request[b].pid))
          /\ sem' = Locked(EntranceOf(request[b].pid))
       \/ ~ipc_exists /\ UNCHANGED sem
    /\ UNCHANGED <<flagVars, counterVars, busVars, ticketQueues, boardingQueues,
                   ipc_exists, d_running, g_early_departure, was_active, request>>

TakeSeats(b) ==
    LET p == request[b].pid
    IN  /\ DriverAt(b, "seating", "answer")
        /\ passenger_count' = [passenger_count EXCEPT ![b] = @ + Seats(p)]
        /\ bike_count' = [bike_count EXCEPT ![b] = @ + Bikes(p)]
        /\ entering_count' = [entering_count EXCEPT ![b] = @ - 1]
        /\ passengers_waiting' = WaitingWithout(p)
        /\ boarded_people' = boarded_people + Seats(p)
        /\ UNCHANGED <<flagVars, officeCounters, total_passengers_created,
                       passengers_transported, passengers_left_early,
                       at_station, boarding_open, departure_time, active_bus_id,
                       driver_pids, ipcVars, d_running, g_early_departure,
                       was_active, request>>

(* Mutant: the driver gives back the boarding slot, as the ticket office does
   with the slot of its queue.                                               *)
AnswerReleasingSlot(b) ==
    /\ DriverAt(b, "answer", AfterRequest)
    /\ sem' = IF ipc_exists
              THEN [Unlocked(EntranceOf(request[b].pid)) EXCEPT !["boarding_slots"] = @ + 1]
              ELSE sem
    /\ boarding_resp' = Sent(boarding_resp, request[b].pid, Response(b, TRUE))
    /\ request' = [request EXCEPT ![b] = NoRequest]
    /\ UNCHANGED <<flagVars, counterVars, busVars, ticketQueues, boarding_queue,
                   ipc_exists, d_running, g_early_departure, was_active>>

(* Mutant: the entrance is released, the response forgotten.                   *)
AnswerSilently(b) ==
    /\ DriverAt(b, "answer", AfterRequest)
    /\ sem' = IF ipc_exists THEN Unlocked(EntranceOf(request[b].pid)) ELSE sem
    /\ request' = [request EXCEPT ![b] = NoRequest]
    /\ UNCHANGED <<flagVars, counterVars, busVars, ticketQueues, boardingQueues,
                   ipc_exists, d_running, g_early_departure, was_active>>

(* The entrance is released, then the response is sent.                        *)
Answer(b) ==
    /\ DriverAt(b, "answer", AfterRequest)
    /\ sem' = IF ipc_exists THEN Unlocked(EntranceOf(request[b].pid)) ELSE sem
    /\ boarding_resp' = Sent(boarding_resp, request[b].pid, Response(b, TRUE))
    /\ request' = [request EXCEPT ![b] = NoRequest]
    /\ UNCHANGED <<flagVars, counterVars, busVars, ticketQueues, boarding_queue,
                   ipc_exists, d_running, g_early_departure, was_active>>

-----------------------------------------------------------------------------
(* should_depart: the reasons in the order the code tests them. Only the last
   one consumes the SIGUSR1 flag.                                            *)
ScheduledEmpty(b) == departure_time[b] \in {"due", "overdue"}   \* mutant
SignalledEmpty(b) == g_early_departure[b]                       \* mutant

FullBus(b) == FULL_DEPART /\ passenger_count[b] >= BUS_CAPACITY
Scheduled(b) == departure_time[b] \in {"due", "overdue"} /\ passenger_count[b] > 0
Signalled(b) == g_early_departure[b] /\ passenger_count[b] > 0
should_depart(b) == FullBus(b) \/ Scheduled(b) \/ Signalled(b)

StayAt(pc) == CASE pc = "precheck" -> "recv"
                [] pc = "postcheck" -> "check"
                [] OTHER -> "top"

Check(b) ==
    /\ dpc[b] \in {"precheck", "postcheck", "check"}
    /\ dpc' = [dpc EXCEPT ![b] = IF should_depart(b) THEN "switch" ELSE StayAt(@)]
    /\ g_early_departure' =
          [g_early_departure EXCEPT ![b] = @ /\ (FullBus(b) \/ Scheduled(b) \/ ~Signalled(b))]
    /\ UNCHANGED <<shmVars, d_running, was_active, request>>

(* The loop over next_id: c is the first bus at the station after b, in the
   order of the numbers and round the end; -1 when there is none.            *)
StepsTo(b, c) == (c - b) % MAX_BUSES

NextBus(b, c) ==
    LET others == {d \in Bus \ {b} : at_station[d]}
    IN  \/ others = {} /\ c = -1
        \/ c \in others /\ \A d \in others : StepsTo(b, c) <= StepsTo(b, d)

Switch(b) ==
    /\ DriverAt(b, "switch", "depart")
    /\ active_bus_id' \in Bus \cup {-1} /\ NextBus(b, active_bus_id')
    /\ UNCHANGED <<flagVars, counterVars, at_station, boarding_open, loadVars,
                   departure_time, driver_pids, ipcVars, d_running,
                   g_early_departure, was_active, request>>

(* depart_bus up to the sleep: wait_for_entrance_clear, then the section that
   takes the bus out. Its passengers count as transported at once, and stay
   in passenger_count until the bus is back.                                 *)
Depart(b) ==
    /\ \/ DriverAt(b, "depart", "away")
       \/ DriverAt(b, "last_depart", "last_away")
    /\ entering_count[b] <= 0 \/ ~d_running[b]
    /\ boarding_open' = [boarding_open EXCEPT ![b] = FALSE]
    /\ at_station' = [at_station EXCEPT ![b] = FALSE]
    /\ passengers_transported' = passengers_transported + passenger_count[b]
    /\ UNCHANGED <<flagVars, officeCounters, total_passengers_created,
                   passengers_waiting, passengers_left_early, boarded_people,
                   loadVars, departure_time, active_bus_id, driver_pids, ipcVars,
                   d_running, g_early_departure, was_active, request>>

(* Mutant: the load is not reset.                                              *)
NotEmptied(load, b) == load

Emptied(load, b) == [load EXCEPT ![b] = 0]
ActiveAfterReturn(b) ==
    IF active_bus_id < 0 \/ ~at_station'[active_bus_id] THEN b ELSE active_bus_id

(* depart_bus after the sleep: back, empty and open, active when no bus at
   the station is.                                                           *)
Return(b) ==
    /\ \/ DriverAt(b, "away", "top")
       \/ DriverAt(b, "last_away", "exit")
    /\ at_station' = [at_station EXCEPT ![b] = TRUE]
    /\ boarding_open' = [boarding_open EXCEPT ![b] = TRUE]
    /\ passenger_count' = Emptied(passenger_count, b)
    /\ bike_count' = Emptied(bike_count, b)
    /\ departure_time' = [departure_time EXCEPT ![b] = "ahead"]
    /\ active_bus_id' = ActiveAfterReturn(b)
    /\ UNCHANGED <<flagVars, counterVars, entering_count, driver_pids, ipcVars,
                   d_running, g_early_departure, was_active, request>>

DriverExit(b) ==
    /\ DriverAt(b, "exit", "gone")
    /\ driver_pids' = [driver_pids EXCEPT ![b] = FALSE]
    /\ boarding_open' = [boarding_open EXCEPT ![b] = FALSE]
    /\ UNCHANGED <<flagVars, counterVars, at_station, loadVars, departure_time,
                   active_bus_id, ipcVars, d_running, g_early_departure,
                   was_active, request>>

-----------------------------------------------------------------------------
(* Drivers that may not have come to setup_signals yet: a signal ends them.    *)
DriverTermEnds == {b \in Bus : dpc[b] = "start" /\ d_running[b]}

(* SIGTERM or SIGINT reaches the driver: handle_shutdown, if it is installed.  *)
DriverTerm(b) ==
    /\ dpc[b] \notin Gone
    /\ d_running[b]
    /\ d_running' = [d_running EXCEPT ![b] = FALSE]
    /\ UNCHANGED dpc \/ (b \in DriverTermEnds /\ dpc' = [dpc EXCEPT ![b] = "zombie"])
    /\ UNCHANGED <<shmVars, g_early_departure, was_active, request>>

(* SIGKILL: the process is gone, what it registered and holds stays, the mutex
   too when it is in a section.                                              *)
DriverKill(b) ==
    /\ dpc[b] \notin Gone
    /\ dpc' = [dpc EXCEPT ![b] = "zombie"]
    /\ frozen' \in {frozen, frozen \/ DriverSection(b)}
    /\ UNCHANGED <<shmFlags, counterVars, busVars, ipcVars, d_running,
                   g_early_departure, was_active, request>>

DriverStep(b) ==
    \/ DriverStart(b) \/ CheckShutdown(b) \/ Role(b)
    \/ Recv(b) \/ RecvRemoved(b)
    \/ Grant(b) \/ Deny(b) \/ EntranceLock(b) \/ TakeSeats(b) \/ Answer(b)
    \/ Check(b) \/ Switch(b) \/ Depart(b) \/ Return(b) \/ DriverExit(b)
=============================================================================
