----------------------------- MODULE BusLineProofs -----------------------------
(* The processes of CityBus implement the bus line of BusLine, for every       *)
(* number of buses, passengers and offices and every set of events: from the   *)
(* invariants of CityBusProofs and one more, that a driver and its bus agree   *)
(* on where the bus is.                                                        *)
EXTENDS CityBusProofs

USE DEF shmVars, flagVars, shmFlags, counterVars, officeCounters, rideCounters,
        busVars, loadVars, ipcVars, ticketQueues, boardingQueues, driverVars,
        passengerVars, officeVars, dispatcherVars, signalFlags,
        TypeOK, ShmTypeOK, DriverTypeOK

OnTheRoad == {"away", "last_away"}

(* A bus is out of the station exactly while its driver is on the road; the
   bus of a driver that has not started is empty.                            *)
DriversKnowWhere ==
    \A b \in Bus :
        /\ dpc[b] \in OnTheRoad => ~at_station[b]
        /\ dpc[b] \notin OnTheRoad \cup Gone => at_station[b]
        /\ dpc[b] = "start" => passenger_count[b] = 0 /\ bike_count[b] = 0

LEMMA WhereDrive ==
    ASSUME TypeOK, DriversKnowWhere, NEW b \in Bus, Drive(b)
    PROVE  DriversKnowWhere'
<1> USE DEF DriverAt, DriversKnowWhere, OnTheRoad, Gone
<1>1. CASE DriverStart(b)
  BY <1>1 DEF DriverStart
<1>2. CASE CheckShutdown(b)
  <2>1. \E to \in {"exit", "role", "last_depart"} : dpc' = [dpc EXCEPT ![b] = to]
    BY <1>2 DEF CheckShutdown
  <2> QED
    BY <1>2, <2>1 DEF CheckShutdown
<1>3. CASE Role(b)
  BY <1>3 DEF Role
<1>4. CASE Recv(b)
  BY <1>4 DEF Recv
<1>5. CASE RecvRemoved(b)
  BY <1>5 DEF RecvRemoved
<1>6. CASE Grant(b)
  BY <1>6 DEF Grant
<1>7. CASE Deny(b)
  BY <1>7 DEF Deny, AfterRequest
<1>8. CASE EntranceLock(b)
  BY <1>8 DEF EntranceLock
<1>9. CASE TakeSeats(b)
  BY <1>9 DEF TakeSeats
<1>10. CASE Answer(b)
  BY <1>10 DEF Answer, AfterRequest
<1>11. CASE Check(b)
  <2>1. \E to \in {"switch", "recv", "check", "top"} : dpc' = [dpc EXCEPT ![b] = to]
    BY <1>11 DEF Check, StayAt
  <2>2. dpc[b] \in {"precheck", "postcheck", "check"}
    BY <1>11 DEF Check
  <2> QED
    BY <1>11, <2>1, <2>2 DEF Check
<1>12. CASE Switch(b)
  BY <1>12 DEF Switch
<1>13. CASE Depart(b)
  BY <1>13 DEF Depart
<1>14. CASE Return(b)
  BY <1>14 DEF Return, Emptied
<1>15. CASE DriverExit(b)
  BY <1>15 DEF DriverExit
<1> QED
  BY <1>1, <1>2, <1>3, <1>4, <1>5, <1>6, <1>7,
     <1>8, <1>9, <1>10, <1>11, <1>12, <1>13, <1>14, <1>15 DEF Drive, DriverStep

LEMMA WhereElsewhere ==
    ASSUME TypeOK, DriversKnowWhere, Elsewhere PROVE DriversKnowWhere'
  BY DEF DriversKnowWhere, OnTheRoad, Gone, Elsewhere

LEMMA WhereInvariant == Spec => []DriversKnowWhere
<1>1. Init => DriversKnowWhere
  BY DEF Init, ShmInit, EmptyStand, DriverInit, DriversKnowWhere, OnTheRoad
<1>2. TypeOK /\ DriversKnowWhere /\ [Next]_vars => DriversKnowWhere'
  BY DriverOrElsewhere, WhereDrive, WhereElsewhere
<1> QED
  BY <1>1, <1>2, SpecTyped, PTL DEF Spec

-----------------------------------------------------------------------------
(* The steps of a driver, as steps of the line.                                *)
lineState == <<at_station, passenger_count, bike_count, simulation_running,
               passengers_transported>>

LEMMA TakeSeatsBoards ==
    ASSUME TypeOK, SeatsNeverOversold, DriversKnowWhere, NEW b \in Bus, TakeSeats(b)
    PROVE  \E n \in {1, 2}, k \in {0, 1} : Line!Board(b, n, k)
<1> DEFINE n == Seats(request[b].pid)
           k == Bikes(request[b].pid)
<1>1. n \in {1, 2} /\ k \in {0, 1}
  BY DEF Seats, Bikes
<1>2. /\ dpc[b] = "seating"
      /\ passenger_count' = [passenger_count EXCEPT ![b] = @ + n]
      /\ bike_count' = [bike_count EXCEPT ![b] = @ + k]
      /\ UNCHANGED <<at_station, simulation_running, passengers_transported>>
  BY DEF TakeSeats, DriverAt
<1>3. at_station[b]
  BY <1>2 DEF DriversKnowWhere, OnTheRoad, Gone
<1>4. passenger_count[b] + n <= BUS_CAPACITY /\ bike_count[b] + k <= BIKE_CAPACITY
  BY <1>2 DEF SeatsNeverOversold, Entering, EnteringBikes, Boarding
<1>5. Line!Board(b, n, k)
  BY <1>2, <1>3, <1>4 DEF Line!Board
<1> QED
  BY <1>1, <1>5

LEMMA DepartDeparts ==
    ASSUME TypeOK, LeavingIsLoaded, DriversKnowWhere, NEW b \in Bus, Depart(b)
    PROVE  Line!Depart(b)
<1>1. dpc[b] \in {"depart", "last_depart"}
  BY DEF Depart, DriverAt
<1>2. at_station[b]
  BY <1>1 DEF DriversKnowWhere, OnTheRoad, Gone
<1>3. simulation_running => passenger_count[b] > 0
  BY <1>1 DEF LeavingIsLoaded
<1> QED
  BY <1>2, <1>3 DEF Depart, Line!Depart

LEMMA ReturnReturns ==
    ASSUME TypeOK, DriversKnowWhere, NEW b \in Bus, Return(b)
    PROVE  Line!Return(b)
<1>1. ~at_station[b]
  BY DEF Return, DriverAt, DriversKnowWhere, OnTheRoad
<1> QED
  BY <1>1 DEF Return, Emptied, Line!Return

(* A driver that starts finds its bus in the station and empty: it changes
   nothing of the line.                                                      *)
LEMMA StartStutters ==
    ASSUME TypeOK, DriversKnowWhere, NEW b \in Bus, DriverStart(b)
    PROVE  UNCHANGED lineState
<1>1. at_station[b] /\ passenger_count[b] = 0 /\ bike_count[b] = 0
  BY DEF DriverStart, DriverAt, DriversKnowWhere, OnTheRoad, Gone
<1> QED
  BY <1>1 DEF DriverStart, lineState

LEMMA DriveOnTheLine ==
    ASSUME TypeOK, SeatsNeverOversold, LeavingIsLoaded, DriversKnowWhere,
           NEW b \in Bus, Drive(b)
    PROVE  Line!Next \/ UNCHANGED lineState
<1>1. CASE TakeSeats(b)
  BY <1>1, TakeSeatsBoards DEF Line!Next
<1>2. CASE Depart(b)
  BY <1>2, DepartDeparts DEF Line!Next
<1>3. CASE Return(b)
  BY <1>3, ReturnReturns DEF Line!Next
<1>4. CASE DriverStart(b)
  BY <1>4, StartStutters
<1>5. CASE ~(TakeSeats(b) \/ Depart(b) \/ Return(b) \/ DriverStart(b))
  BY <1>5 DEF Drive, DriverStep, CheckShutdown, Role, Recv, RecvRemoved, Grant, Deny,
     EntranceLock, Answer, Check, Switch, DriverExit, lineState
<1> QED
  BY <1>1, <1>2, <1>3, <1>4, <1>5

-----------------------------------------------------------------------------
(* Of all other steps only the dispatcher's Shutdown shows on the line.        *)
LEMMA OthersOnTheLine ==
    ASSUME [Next]_vars
    PROVE  (\E b \in Bus : Drive(b)) \/ Shutdown \/ UNCHANGED lineState
<1> USE DEF lineState
<1>1. ASSUME NEW p \in Passengers, Travel(p) PROVE UNCHANGED lineState
  BY <1>1 DEF Travel, PassengerStep, Arrive, Register, JoinOffice, RequestTicket,
     ReceiveTicket, TicketRemoved, ClosedCheck, FindClosed, FindOpen, EnterStation,
     EntryRefused, EntryFails, BoardLoop, FindBus, RequestBoarding, ReceiveBoarding,
     BoardingRemoved, Leave, StopWaiting, Join
<1>2. ASSUME NEW o \in Office, Sell(o) PROVE UNCHANGED lineState
  BY <1>2 DEF Sell, OfficeStep, OfficeCheck, TakeRequest, QueueRemoved, IssueTicket,
     DrainOne, DrainDone
<1>3. ASSUME Dispatch PROVE Shutdown \/ UNCHANGED lineState
  BY <1>3 DEF Dispatch, DispatcherStep, StopLoop, ForwardEarly, CloseStation,
     NothingToClose, WakeBlocked, CheckDriverHealth, FindOverdue, ForceDeparture,
     OverseerDone, CheckSimulationEnd, CleanUp
<1>4. ASSUME MainStep PROVE UNCHANGED lineState
  BY <1>4 DEF MainStep, SpawnPassenger, StopSpawning, SeeStop, Monitor,
     StopDispatcher, TerminateChildren, KillChildren
<1>5. ASSUME (\E b \in Bus : TimePasses(b)) \/ UserSignal \/ Interrupt \/ Kill
      PROVE  UNCHANGED lineState
  BY <1>5 DEF TimePasses, UserSignal, Interrupt, Kill, DispatcherUsr1, DispatcherUsr2,
     DispatcherTerm, DriverTerm, PassengerTerm, OfficeTerm, MainTerm, DriverKill
<1> QED
  BY <1>1, <1>2, <1>3, <1>4, <1>5 DEF Next, Manage, vars

LEMMA ShutdownStops == ASSUME TypeOK, Shutdown PROVE Line!Stop
<1>1. OnBuses \in Nat /\ passengers_transported \in Nat
  BY OverBusesType DEF OnBuses
<1>2. passengers_transported' >= passengers_transported
  BY <1>1 DEF Shutdown
<1> QED
  BY <1>2 DEF Shutdown, Line!Stop, Line!Empty

(* ImplementsBusLine: whatever the processes do, an onlooker at the station who
   sees only the buses, their loads and the books sees a bus line: nobody
   boards a bus that is away or full, no bus leaves empty before the end.    *)
THEOREM BusLineTheorem == Spec => ImplementsBusLine
<1>1. Init => Line!Init
  BY DEF Init, ShmInit, EmptyStand, Line!Init, Line!Empty
<1>2. /\ TypeOK /\ SeatsNeverOversold /\ LeavingIsLoaded /\ DriversKnowWhere
      /\ [Next]_vars
      => [Line!Next]_(Line!vars)
  <2> SUFFICES ASSUME TypeOK, SeatsNeverOversold, LeavingIsLoaded, DriversKnowWhere,
                      [Next]_vars
               PROVE  Line!Next \/ UNCHANGED lineState
    BY DEF Line!vars, lineState
  <2>1. CASE \E b \in Bus : Drive(b)
    BY <2>1, DriveOnTheLine
  <2>2. CASE Shutdown
    BY <2>2, ShutdownStops DEF Line!Next
  <2> QED
    BY <2>1, <2>2, OthersOnTheLine
<1> QED
  BY <1>1, <1>2, SpecTyped, SeatsTheorem, DepartureTheorem, WhereInvariant, PTL
     DEF Spec, ImplementsBusLine, Line!Spec
=============================================================================
