-------------------------------- MODULE CityBus --------------------------------
(* The whole simulation: the drivers, the passengers, the ticket offices, the  *)
(* dispatcher and main, interleaved over the shared state of CityBusShm.       *)
EXTENDS MainProcess, FiniteSets

vars == <<shmVars, driverVars, passengerVars, officeVars, dispatcherVars, mpc>>

(* Events says what the environment may do besides scheduling:
     "early", "close"   the user sends SIGUSR1, SIGUSR2 to the dispatcher
     "term"             SIGINT or SIGTERM reaches single processes
     "kill"             a driver is killed with SIGKILL, at any point
     "late"             a bus may be more than two seconds late
     "fork"             fork fails while main spawns passengers              *)
ASSUME EventsAssumption == Events \subseteq {"early", "close", "term", "kill", "late", "fork"}

(* Main forks one passenger at a time.                                         *)
ASSUME PassengersAssumption == IsFiniteSet(Passengers)

TypeOK == ShmTypeOK /\ DriverTypeOK /\ PassengerTypeOK /\ OfficeTypeOK
            /\ DispatcherTypeOK /\ MainTypeOK

(* Processes other than the drivers, before the first passenger.               *)
OthersInit == PassengerInit /\ OfficeInit /\ DispatcherInit /\ MainInit

(* As main starts the system: the drivers have yet to register.                *)
Init == ShmInit /\ BusesParked /\ DriverInit("start") /\ OthersInit

(* All drivers have registered and bus 0 is the active one.                    *)
UpInit == ShmInit /\ BusesReady /\ DriverInit("top") /\ OthersInit

(* All passengers have arrived, bought their tickets and entered before any of
   them has asked for a seat; main has forked its last one (--max_p).        *)
Crowd ==
    LET people == Cardinality(Passengers) + Cardinality(Parents)
    IN  /\ simulation_running = TRUE
        /\ station_open = TRUE
        /\ boarding_allowed = TRUE
        /\ spawning_stopped = TRUE
        /\ station_closed = FALSE
        /\ test_fill_queue = FALSE
        /\ frozen = FALSE
        /\ total_passengers_created = people
        /\ passengers_waiting = people
        /\ passengers_transported = 0
        /\ passengers_left_early = 0
        /\ passengers_in_office = 0
        /\ boarded_people = 0
        /\ tickets_issued = Cardinality(Passengers \ Vips)
        /\ tickets_denied = 0
        /\ EmptyStand /\ FreshIpc
        /\ ppc = [p \in Passengers |-> "board_loop"]
        /\ p_running = [p \in Passengers |-> TRUE]
        /\ has_ticket = [p \in Passengers |-> TRUE]
        /\ boarded = [p \in Passengers |-> -1]
        /\ opc = [o \in Office |-> "recv"]
        /\ o_running = [o \in Office |-> TRUE]
        /\ customer = [o \in Office |-> NoPassenger]
        /\ DispatcherInit
        /\ mpc = "monitor"

(* The crowd meets drivers that work, and drivers that are slow to start.      *)
CrowdInit == Crowd /\ BusesReady /\ DriverInit("top")
ColdCrowdInit == Crowd /\ BusesParked /\ DriverInit("start")

-----------------------------------------------------------------------------
(* A process that comes to a section of SEM_SHM_MUTEX waits for the mutex.     *)
Drive(b) ==
    /\ DriverSection(b) => MutexFree
    /\ DriverStep(b)
    /\ UNCHANGED <<passengerVars, officeVars, dispatcherVars, mpc>>

Travel(p) ==
    /\ PassengerSection(p) => MutexFree
    /\ PassengerStep(p)
    /\ UNCHANGED <<driverVars, officeVars, dispatcherVars, mpc>>

Sell(o) ==
    /\ OfficeSection(o) => MutexFree
    /\ OfficeStep(o)
    /\ UNCHANGED <<driverVars, passengerVars, dispatcherVars, mpc>>

Dispatch ==
    /\ DispatcherSection => MutexFree
    /\ DispatcherStep
    /\ UNCHANGED <<passengerVars, officeVars, mpc>>

Manage ==
    /\ MainSection => MutexFree
    /\ MainStep

(* time(NULL) passes the departure time of a bus, then two seconds more. The
   time of a bus on the road is left alone: nobody reads it before Return
   sets it anew. "late" is in Events where the two seconds matter.           *)
TimePasses(b) ==
    /\ at_station[b]
    /\ departure_time[b] = "ahead" \/ "late" \in Events
    /\ departure_time[b] \in {"ahead", "due"}
    /\ departure_time' = [departure_time EXCEPT
          ![b] = IF @ = "ahead" THEN "due" ELSE "overdue"]
    /\ UNCHANGED <<flagVars, counterVars, at_station, boarding_open, loadVars,
                   active_bus_id, driver_pids, ipcVars, driverVars,
                   passengerVars, officeVars, dispatcherVars, mpc>>

UserSignal ==
    /\ \/ "early" \in Events /\ DispatcherUsr1
       \/ "close" \in Events /\ DispatcherUsr2
       \/ "term" \in Events /\ DispatcherTerm
    /\ UNCHANGED <<passengerVars, officeVars, mpc>>

Interrupt ==
    /\ "term" \in Events
    /\ \/ /\ \E b \in Bus : DriverTerm(b)
          /\ UNCHANGED <<passengerVars, officeVars, dispatcherVars, mpc>>
       \/ /\ \E p \in Passengers : PassengerTerm(p)
          /\ UNCHANGED <<driverVars, officeVars, dispatcherVars, mpc>>
       \/ /\ \E o \in Office : OfficeTerm(o)
          /\ UNCHANGED <<driverVars, passengerVars, dispatcherVars, mpc>>
       \/ MainTerm

Kill ==
    /\ "kill" \in Events
    /\ \E b \in Bus : DriverKill(b)
    /\ UNCHANGED <<passengerVars, officeVars, dispatcherVars, mpc>>

Next ==
    \/ \E b \in Bus : Drive(b) \/ TimePasses(b)
    \/ \E p \in Passengers : Travel(p)
    \/ \E o \in Office : Sell(o)
    \/ Dispatch \/ Manage
    \/ UserSignal \/ Interrupt \/ Kill

Spec == Init /\ [][Next]_vars
UpSpec == UpInit /\ [][Next]_vars
CrowdSpec == CrowdInit /\ [][Next]_vars
ColdCrowdSpec == ColdCrowdInit /\ [][Next]_vars
=============================================================================
