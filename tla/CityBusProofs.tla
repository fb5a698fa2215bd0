----------------------------- MODULE CityBusProofs -----------------------------
(* The safety properties of boarding and departure that hold for every number  *)
(* of buses, passengers and offices, every capacity, and every interleaving,   *)
(* signal and kill: proofs from the type invariant of CityBusTyping.           *)
EXTENDS CityBusTyping

USE DEF shmVars, flagVars, shmFlags, counterVars, officeCounters, rideCounters,
        busVars, loadVars, ipcVars, ticketQueues, boardingQueues, driverVars,
        passengerVars, officeVars, dispatcherVars, signalFlags,
        TypeOK, ShmTypeOK, DriverTypeOK

(* What a step of another process, a signal or the passing of time may do to
   the drivers, the loads of the buses and the entrances: a driver may be gone
   at once, and the end of the simulation empties the buses on paper.        *)
Elsewhere ==
    /\ request' = request
    /\ \A b \in Bus : dpc'[b] = dpc[b] \/ dpc'[b] \in Gone
    /\ bike_count' = bike_count
    /\ entering_count' = entering_count
    /\ at_station' = at_station
    /\ simulation_running' => simulation_running /\ passenger_count' = passenger_count
    /\ passenger_count' = passenger_count \/ passenger_count' = [b \in Bus |-> 0]
    /\ ipc_exists' => ipc_exists
    /\ \A s \in {"entrance_passenger", "entrance_bike"} : sem'[s] = sem[s]

(* Every step is an action of one driver or a step elsewhere.                  *)
LEMMA DriverOrElsewhere ==
    ASSUME TypeOK, [Next]_vars
    PROVE  (\E b \in Bus : Drive(b)) \/ Elsewhere
<1> USE DEF Elsewhere, Gone
<1>1. ASSUME NEW b \in Bus, TimePasses(b) PROVE Elsewhere
  BY <1>1 DEF TimePasses
<1>2. ASSUME NEW p \in Passengers, Travel(p) PROVE Elsewhere
  <2>1. UNCHANGED driverVars
    BY <1>2 DEF Travel
  <2>2. UNCHANGED <<flagVars, busVars, ipc_exists>>
    BY <1>2 DEF Travel, PassengerStep, Arrive, Register, JoinOffice, RequestTicket,
       ReceiveTicket, TicketRemoved, ClosedCheck, FindClosed, FindOpen, EnterStation,
       EntryRefused, EntryFails, BoardLoop, FindBus, RequestBoarding, ReceiveBoarding,
       BoardingRemoved, Leave, StopWaiting, Join
  <2>3. sem' = sem \/ \E s \in {"ticket_slots", "boarding_slots"} :
                         sem' = Locked(s) \/ sem' = Unlocked(s)
    BY <1>2 DEF Travel, PassengerStep, Arrive, Register, JoinOffice, RequestTicket,
       ReceiveTicket, TicketRemoved, ClosedCheck, FindClosed, FindOpen, EnterStation,
       EntryRefused, EntryFails, BoardLoop, FindBus, RequestBoarding, ReceiveBoarding,
       BoardingRemoved, Leave, StopWaiting, Join
  <2> QED
    BY <2>1, <2>2, <2>3 DEF Locked, Unlocked, Semaphore
<1>3. ASSUME NEW o \in Office, Sell(o) PROVE Elsewhere
  <2>1. UNCHANGED driverVars
    BY <1>3 DEF Sell
  <2>2. /\ UNCHANGED <<flagVars, busVars, ipc_exists>>
        /\ sem' = sem \/ sem' = Unlocked("ticket_slots")
    BY <1>3 DEF Sell, OfficeStep, OfficeCheck, TakeRequest, QueueRemoved, IssueTicket,
       DrainOne, DrainDone
  <2> QED
    BY <2>1, <2>2 DEF Unlocked, Semaphore
<1>4. CASE Dispatch
  <2>1. UNCHANGED <<dpc, request, bike_count, entering_count, at_station>>
    BY <1>4 DEF Dispatch, DispatcherStep, StopLoop, ForwardEarly, CloseStation,
       NothingToClose, WakeBlocked, CheckDriverHealth, FindOverdue,
       ForceDeparture, OverseerDone,
       CheckSimulationEnd, Shutdown, CleanUp
  <2>2. /\ ipc_exists' => ipc_exists
        /\ sem' = sem \/ sem' = [sem EXCEPT !["ticket_slots"] = WAKE_ALL]
    BY <1>4 DEF Dispatch, DispatcherStep, StopLoop, ForwardEarly, CloseStation,
       NothingToClose, WakeBlocked, CheckDriverHealth, FindOverdue,
       ForceDeparture, OverseerDone,
       CheckSimulationEnd, Shutdown, CleanUp
  <2>3. \/ UNCHANGED <<simulation_running, passenger_count>>
        \/ ~simulation_running' /\ passenger_count' = [b \in Bus |-> 0]
    BY <1>4 DEF Dispatch, DispatcherStep, StopLoop, ForwardEarly, CloseStation,
       NothingToClose, WakeBlocked, CheckDriverHealth, FindOverdue,
       ForceDeparture, OverseerDone,
       CheckSimulationEnd, Shutdown, CleanUp
  <2> QED
    BY <2>1, <2>2, <2>3 DEF Semaphore
<1>5. CASE MainStep
  <2>1. /\ UNCHANGED <<request, simulation_running, busVars, sem>>
        /\ ipc_exists' => ipc_exists
    BY <1>5 DEF MainStep, SpawnPassenger, StopSpawning, SeeStop, Monitor,
       StopDispatcher, TerminateChildren, KillChildren
  <2>2. \A b \in Bus : dpc'[b] = dpc[b] \/ dpc'[b] \in Gone
    BY <1>5 DEF MainStep, SpawnPassenger, StopSpawning, SeeStop, Monitor,
       StopDispatcher, TerminateChildren, KillChildren, Reaped
  <2> QED
    BY <2>1, <2>2
<1>6. CASE UserSignal \/ Interrupt
  BY <1>6 DEF UserSignal, Interrupt, DispatcherUsr1, DispatcherUsr2, DispatcherTerm,
     DriverTerm, PassengerTerm, OfficeTerm, MainTerm
<1>7. CASE Kill
  BY <1>7 DEF Kill, DriverKill
<1>8. CASE UNCHANGED vars
  BY <1>8 DEF vars
<1> QED
  BY <1>1, <1>2, <1>3, <1>4, <1>5, <1>6, <1>7, <1>8 DEF Next, Manage

-----------------------------------------------------------------------------
(* Seats and bicycle places.                                                   *)
LEMMA SeatsDrive ==
    ASSUME TypeOK, SeatsNeverOversold, NEW b \in Bus, Drive(b)
    PROVE  SeatsNeverOversold'
<1> USE SeatsType, SizesAssumption DEF DriverAt, SeatsNeverOversold, Entering,
        EnteringBikes, Boarding
<1>1. CASE DriverStart(b)
  BY <1>1 DEF DriverStart
<1>2. CASE CheckShutdown(b)
  BY <1>2 DEF CheckShutdown
<1>3. CASE Role(b)
  BY <1>3 DEF Role
<1>4. CASE Recv(b)
  BY <1>4 DEF Recv
<1>5. CASE RecvRemoved(b)
  BY <1>5 DEF RecvRemoved
<1>6. CASE Grant(b)
  <2>1. /\ passenger_count[b] + Seats(request[b].pid) <= BUS_CAPACITY
        /\ bike_count[b] + Bikes(request[b].pid) <= BIKE_CAPACITY
    BY <1>6 DEF Grant, can_board, Bikes
  <2>2. UNCHANGED <<passenger_count, bike_count, request>>
    BY <1>6 DEF Grant
  <2> QED
    BY <1>6, <2>1, <2>2 DEF Grant
<1>7. CASE Deny(b)
  BY <1>7 DEF Deny, AfterRequest
<1>8. CASE EntranceLock(b)
  BY <1>8 DEF EntranceLock
<1>9. CASE TakeSeats(b)
  <2>1. /\ dpc[b] = "seating" /\ dpc' = [dpc EXCEPT ![b] = "answer"]
        /\ passenger_count' = [passenger_count EXCEPT ![b] = @ + Seats(request[b].pid)]
        /\ bike_count' = [bike_count EXCEPT ![b] = @ + Bikes(request[b].pid)]
        /\ UNCHANGED request
    BY <1>9 DEF TakeSeats
  <2>2. ASSUME NEW c \in Bus, c # b
        PROVE  /\ dpc'[c] = dpc[c] /\ request'[c] = request[c]
               /\ passenger_count'[c] = passenger_count[c] /\ bike_count'[c] = bike_count[c]
    BY <2>1, <2>2
  <2>3. /\ passenger_count[b] + Seats(request[b].pid) <= BUS_CAPACITY
        /\ bike_count[b] + Bikes(request[b].pid) <= BIKE_CAPACITY
    BY <2>1
  <2>4. /\ passenger_count'[b] = passenger_count[b] + Seats(request[b].pid)
        /\ bike_count'[b] = bike_count[b] + Bikes(request[b].pid)
        /\ dpc'[b] = "answer"
    BY <2>1
  <2>5. ASSUME NEW c \in Bus
        PROVE  /\ passenger_count'[c] + Entering(c)' <= BUS_CAPACITY
               /\ bike_count'[c] + EnteringBikes(c)' <= BIKE_CAPACITY
    <3>1. CASE c = b
      BY <3>1, <2>3, <2>4
    <3>2. CASE c # b
      BY <3>2, <2>2
    <3> QED
      BY <3>1, <3>2
  <2> QED
    BY <2>5
<1>10. CASE Answer(b)
  BY <1>10 DEF Answer, AfterRequest
<1>11. CASE Check(b)
  <2>1. \E to \in {"switch", "recv", "check", "top"} : dpc' = [dpc EXCEPT ![b] = to]
    BY <1>11 DEF Check, StayAt
  <2> QED
    BY <1>11, <2>1 DEF Check
<1>12. CASE Switch(b)
  BY <1>12 DEF Switch
<1>13. CASE Depart(b)
  BY <1>13 DEF Depart
<1>14. CASE Return(b)
  BY <1>14 DEF Return, Emptied, ActiveAfterReturn
<1>15. CASE DriverExit(b)
  BY <1>15 DEF DriverExit
<1> QED
  BY <1>1, <1>2, <1>3, <1>4, <1>5, <1>6, <1>7,
     <1>8, <1>9, <1>10, <1>11, <1>12, <1>13, <1>14, <1>15 DEF Drive, DriverStep

LEMMA SeatsElsewhere ==
    ASSUME TypeOK, SeatsNeverOversold, Elsewhere PROVE SeatsNeverOversold'
<1> USE SeatsType, SizesAssumption DEF SeatsNeverOversold, Entering, EnteringBikes,
        Boarding, Gone, Elsewhere
<1>1. ASSUME NEW b \in Bus
      PROVE  /\ passenger_count'[b] + Entering(b)' <= BUS_CAPACITY
             /\ bike_count'[b] + EnteringBikes(b)' <= BIKE_CAPACITY
  <2>1. /\ passenger_count[b] \in Nat /\ passenger_count'[b] \in Nat
        /\ passenger_count'[b] <= passenger_count[b]
        /\ bike_count[b] \in Nat /\ bike_count'[b] = bike_count[b]
    OBVIOUS
  <2>2. /\ request'[b] = request[b]
        /\ dpc'[b] = dpc[b] \/ dpc'[b] \notin Boarding
    OBVIOUS
  <2>3. /\ passenger_count[b] + Entering(b) <= BUS_CAPACITY
        /\ bike_count[b] + EnteringBikes(b) <= BIKE_CAPACITY
    OBVIOUS
  <2>4. /\ Seats(request[b].pid) \in Nat /\ Bikes(request[b].pid) \in Nat
        /\ passenger_count[b] <= BUS_CAPACITY /\ bike_count[b] <= BIKE_CAPACITY
    <3> HIDE DEF SeatsNeverOversold, Elsewhere, Gone
    <3>1. Seats(request[b].pid) \in Nat /\ Bikes(request[b].pid) \in Nat
      BY SeatsType
    <3>2. Entering(b) \in Nat /\ EnteringBikes(b) \in Nat
      BY <3>1
    <3> HIDE DEF Entering, EnteringBikes
    <3>3. passenger_count[b] \in Nat /\ bike_count[b] \in Nat
      BY <2>1
    <3> HIDE SizesAssumption, SeatsType DEF TypeOK, ShmTypeOK, DriverTypeOK
    <3>4. BUS_CAPACITY \in Nat /\ BIKE_CAPACITY \in Nat
      BY SizesAssumption
    <3> QED
      BY <2>3, <3>1, <3>2, <3>3, <3>4
  <2>5. CASE dpc'[b] \in Boarding
    <3>1. /\ Entering(b)' = Entering(b) /\ EnteringBikes(b)' = EnteringBikes(b)
          /\ Entering(b) \in Nat
      BY <2>2, <2>4, <2>5
    <3> HIDE DEF Entering, EnteringBikes
    <3> QED
      BY <2>1, <2>3, <3>1
  <2>6. CASE dpc'[b] \notin Boarding
    BY <2>1, <2>4, <2>6
  <2> QED
    BY <2>5, <2>6
<1> QED
  BY <1>1

(* SeatsNeverOversold: whatever the capacity, no seat and no bicycle place of a
   bus is given twice, from the forks of the drivers to the end.             *)
THEOREM SeatsTheorem == Spec => []SeatsNeverOversold
<1>1. Init => SeatsNeverOversold
  BY SizesAssumption, SeatsType DEF Init, ShmInit, EmptyStand, DriverInit, SeatsNeverOversold,
     Entering, EnteringBikes, Boarding
<1>2. TypeOK /\ SeatsNeverOversold /\ [Next]_vars => SeatsNeverOversold'
  BY DriverOrElsewhere, SeatsDrive, SeatsElsewhere
<1> QED
  BY <1>1, <1>2, SpecTyped, PTL DEF Spec

-----------------------------------------------------------------------------
(* Departures.                                                                 *)
LEMMA EnteringDrive ==
    ASSUME TypeOK, EnteringIsExact, NEW b \in Bus, Drive(b)
    PROVE  EnteringIsExact'
<1> USE DEF DriverAt, EnteringIsExact, Boarding, Gone
<1>1. CASE DriverStart(b)
  BY <1>1 DEF DriverStart
<1>2. CASE CheckShutdown(b)
  BY <1>2 DEF CheckShutdown
<1>3. CASE Role(b)
  BY <1>3 DEF Role
<1>4. CASE Recv(b)
  BY <1>4 DEF Recv
<1>5. CASE RecvRemoved(b)
  BY <1>5 DEF RecvRemoved
<1>6. CASE Grant(b)
  BY <1>6 DEF Grant
<1>7. CASE Deny(b)
  BY <1>7 DEF Deny, AfterRequest
<1>8. CASE EntranceLock(b)
  BY <1>8 DEF EntranceLock
<1>9. CASE TakeSeats(b)
  BY <1>9 DEF TakeSeats
<1>10. CASE Answer(b)
  BY <1>10 DEF Answer, AfterRequest
<1>11. CASE Check(b)
  <2>1. \E to \in {"switch", "recv", "check", "top"} : dpc' = [dpc EXCEPT ![b] = to]
    BY <1>11 DEF Check, StayAt
  <2> QED
    BY <1>11, <2>1 DEF Check
<1>12. CASE Switch(b)
  BY <1>12 DEF Switch
<1>13. CASE Depart(b)
  BY <1>13 DEF Depart
<1>14. CASE Return(b)
  BY <1>14 DEF Return, Emptied, ActiveAfterReturn
<1>15. CASE DriverExit(b)
  BY <1>15 DEF DriverExit
<1> QED
  BY <1>1, <1>2, <1>3, <1>4, <1>5, <1>6, <1>7,
     <1>8, <1>9, <1>10, <1>11, <1>12, <1>13, <1>14, <1>15 DEF Drive, DriverStep

LEMMA LeavingDrive ==
    ASSUME TypeOK, LeavingIsLoaded, NEW b \in Bus, Drive(b)
    PROVE  LeavingIsLoaded'
<1> USE SizesAssumption, SeatsType DEF DriverAt, LeavingIsLoaded
<1>1. CASE DriverStart(b)
  BY <1>1 DEF DriverStart
<1>2. CASE CheckShutdown(b)
  <2>1. \/ dpc' = [dpc EXCEPT ![b] = "exit"]
        \/ dpc' = [dpc EXCEPT ![b] = "role"]
        \/ dpc' = [dpc EXCEPT ![b] = "last_depart"] /\ ~simulation_running
    BY <1>2 DEF CheckShutdown, check_shutdown
  <2>2. UNCHANGED <<simulation_running, passenger_count>>
    BY <1>2 DEF CheckShutdown
  <2> QED
    BY <2>1, <2>2
<1>3. CASE Role(b)
  BY <1>3 DEF Role
<1>4. CASE Recv(b)
  BY <1>4 DEF Recv
<1>5. CASE RecvRemoved(b)
  BY <1>5 DEF RecvRemoved
<1>6. CASE Grant(b)
  BY <1>6 DEF Grant
<1>7. CASE Deny(b)
  BY <1>7 DEF Deny, AfterRequest
<1>8. CASE EntranceLock(b)
  BY <1>8 DEF EntranceLock
<1>9. CASE TakeSeats(b)
  BY <1>9 DEF TakeSeats
<1>10. CASE Answer(b)
  BY <1>10 DEF Answer, AfterRequest
<1>11. CASE Check(b)
  <2>1. CASE should_depart(b)
    <3>1. passenger_count[b] > 0
      BY <2>1 DEF should_depart, FullBus, Scheduled, Signalled
    <3> QED
      BY <1>11, <2>1, <3>1 DEF Check
  <2>2. CASE ~should_depart(b)
    <3>1. \E to \in {"recv", "check", "top"} : dpc' = [dpc EXCEPT ![b] = to]
      BY <1>11, <2>2 DEF Check, StayAt
    <3> QED
      BY <1>11, <3>1 DEF Check
  <2> QED
    BY <2>1, <2>2
<1>12. CASE Switch(b)
  BY <1>12 DEF Switch
<1>13. CASE Depart(b)
  BY <1>13 DEF Depart
<1>14. CASE Return(b)
  BY <1>14 DEF Return, Emptied, ActiveAfterReturn
<1>15. CASE DriverExit(b)
  BY <1>15 DEF DriverExit
<1> QED
  BY <1>1, <1>2, <1>3, <1>4, <1>5, <1>6, <1>7,
     <1>8, <1>9, <1>10, <1>11, <1>12, <1>13, <1>14, <1>15 DEF Drive, DriverStep

LEMMA DepartureElsewhere ==
    ASSUME TypeOK, EnteringIsExact, LeavingIsLoaded, Elsewhere
    PROVE  EnteringIsExact' /\ LeavingIsLoaded'
  BY DEF EnteringIsExact, LeavingIsLoaded, Boarding, Gone, Elsewhere

(* EnteringIsExact and LeavingIsLoaded: entering_count of a bus with a living
   driver counts the person in its door and nobody else, and a driver that has
   decided to depart still has a loaded bus when it leaves, whatever happened
   between the decision, the hand-over and the departure.                    *)
THEOREM DepartureTheorem == Spec => [](EnteringIsExact /\ LeavingIsLoaded)
<1>1. Init => EnteringIsExact /\ LeavingIsLoaded
  BY DEF Init, ShmInit, EmptyStand, DriverInit, EnteringIsExact, LeavingIsLoaded, Boarding
<1>2. TypeOK /\ EnteringIsExact /\ LeavingIsLoaded /\ [Next]_vars
        => (EnteringIsExact /\ LeavingIsLoaded)'
  BY DriverOrElsewhere, EnteringDrive, LeavingDrive, DepartureElsewhere
<1> QED
  BY <1>1, <1>2, SpecTyped, PTL DEF Spec

(* A bus is taken out of the station by Depart alone.                          *)
LEMMA OnlyDepartLeaves ==
    ASSUME TypeOK, [Next]_vars, NEW c \in Bus, at_station[c], ~at_station'[c]
    PROVE  Depart(c)
<1>1. ~Elsewhere
  BY DEF Elsewhere
<1>2. PICK b \in Bus : Drive(b)
  BY <1>1, DriverOrElsewhere
<1>3. Depart(b)
  BY <1>2 DEF Drive, DriverStep, DriverStart, CheckShutdown, Role, Recv, RecvRemoved,
     Grant, Deny, EntranceLock, TakeSeats, Answer, Check, Switch, Return, DriverExit
<1> QED
  BY <1>3 DEF Depart

(* DepartsLoaded: while the simulation runs no bus leaves empty and none leaves
   with somebody in its doors, whatever signals arrive and whoever dies.     *)
THEOREM DepartsLoadedTheorem == Spec => DepartsLoaded
<1>1. TypeOK /\ EnteringIsExact /\ LeavingIsLoaded /\ [Next]_vars =>
        [\A b \in Bus : simulation_running /\ at_station[b] /\ ~at_station'[b] =>
           passenger_count[b] > 0 /\ entering_count[b] = 0]_vars
  <2> SUFFICES ASSUME TypeOK, EnteringIsExact, LeavingIsLoaded, [Next]_vars,
                      NEW b \in Bus, simulation_running, at_station[b], ~at_station'[b]
               PROVE  passenger_count[b] > 0 /\ entering_count[b] = 0
    OBVIOUS
  <2>1. dpc[b] \in {"depart", "last_depart"}
    BY OnlyDepartLeaves DEF Depart, DriverAt
  <2> QED
    BY <2>1 DEF EnteringIsExact, LeavingIsLoaded, Boarding, Gone
<1> QED
  BY <1>1, SpecTyped, DepartureTheorem, PTL DEF Spec, DepartsLoaded

-----------------------------------------------------------------------------
(* The entrances.                                                              *)
LEMMA DoorsDrive ==
    ASSUME TypeOK, DoorsAreExact, NEW b \in Bus, Drive(b)
    PROVE  DoorsAreExact'
<1> USE DEF DriverAt, DoorsAreExact, HoldsDoor, Holding
<1>1. CASE DriverStart(b)
  BY <1>1 DEF DriverStart
<1>2. CASE CheckShutdown(b)
  <2>1. \E to \in {"exit", "role", "last_depart"} : dpc' = [dpc EXCEPT ![b] = to]
    BY <1>2 DEF CheckShutdown
  <2> QED
    BY <1>2, <2>1 DEF CheckShutdown
<1>3. CASE Role(b)
  BY <1>3 DEF Role
<1>4. CASE Recv(b)
  BY <1>4 DEF Recv
<1>5. CASE RecvRemoved(b)
  BY <1>5 DEF RecvRemoved
<1>6. CASE Grant(b)
  BY <1>6 DEF Grant
<1>7. CASE Deny(b)
  BY <1>7 DEF Deny, AfterRequest
<1>8. CASE EntranceLock(b)
  <2> DEFINE e == EntranceOf(request[b].pid)
  <2>1. e \in {"entrance_passenger", "entrance_bike"}
    BY DEF EntranceOf
  <2>2. /\ dpc[b] = "entrance" /\ dpc' = [dpc EXCEPT ![b] = "seating"]
        /\ UNCHANGED <<request, ipc_exists>>
        /\ ipc_exists => sem[e] > 0 /\ sem' = [sem EXCEPT ![e] = @ - 1]
    BY <1>8 DEF EntranceLock, CanLock, Locked
  <2>3. ASSUME ipc_exists PROVE sem[e] = 1 /\ \A c \in Bus : ~HoldsDoor(c, e)
    <3>1. sem[e] <= 1 /\ sem[e] > 0 /\ sem[e] \in Int
      BY <2>1, <2>2, <2>3 DEF Semaphore
    <3>2. sem[e] = 1
      BY <3>1
    <3> QED
      BY <2>1, <2>3, <3>2
  <2>4. ASSUME ipc_exists, NEW s \in {"entrance_passenger", "entrance_bike"}
        PROVE  /\ sem'[s] = IF s = e THEN 0 ELSE sem[s]
               /\ \A c \in Bus : HoldsDoor(c, s)' <=> HoldsDoor(c, s) \/ (c = b /\ s = e)
    BY <2>2, <2>3, <2>4 DEF Semaphore
  <2> QED
    <3> HIDE DEF HoldsDoor, e
    <3> QED
      BY <2>1, <2>2, <2>3, <2>4
<1>9. CASE TakeSeats(b)
  BY <1>9 DEF TakeSeats
<1>10. CASE Answer(b)
  <2> DEFINE e == EntranceOf(request[b].pid)
  <2>1. e \in {"entrance_passenger", "entrance_bike"}
    BY DEF EntranceOf
  <2>2. /\ dpc[b] = "answer" /\ dpc' = [dpc EXCEPT ![b] = AfterRequest]
        /\ request' = [request EXCEPT ![b] = NoRequest]
        /\ UNCHANGED ipc_exists
        /\ ipc_exists => sem' = [sem EXCEPT ![e] = @ + 1]
    BY <1>10 DEF Answer, Unlocked
  <2>3. AfterRequest \notin Holding
    BY DEF AfterRequest
  <2>4. HoldsDoor(b, e)
    BY <2>2
  <2>5. ASSUME ipc_exists PROVE sem[e] # 1 /\ sem[e] <= 1 /\ sem[e] \in Int
    BY <2>1, <2>4, <2>5 DEF Semaphore
  <2>6. ASSUME ipc_exists, NEW s \in {"entrance_passenger", "entrance_bike"}
        PROVE  /\ sem'[s] = IF s = e THEN sem[s] + 1 ELSE sem[s]
               /\ \A c \in Bus : HoldsDoor(c, s)' <=> HoldsDoor(c, s) /\ c # b
    BY <2>2, <2>3, <2>6 DEF Semaphore
  <2>7. ASSUME NEW s, s # e PROVE ~HoldsDoor(b, s)
    BY <2>7
  <2> QED
    <3> HIDE DEF HoldsDoor, e
    <3> QED
      BY <2>1, <2>2, <2>4, <2>5, <2>6, <2>7
<1>11. CASE Check(b)
  <2>1. \E to \in {"switch", "recv", "check", "top"} : dpc' = [dpc EXCEPT ![b] = to]
    BY <1>11 DEF Check, StayAt
  <2> QED
    BY <1>11, <2>1 DEF Check
<1>12. CASE Switch(b)
  BY <1>12 DEF Switch
<1>13. CASE Depart(b)
  BY <1>13 DEF Depart
<1>14. CASE Return(b)
  BY <1>14 DEF Return, Emptied, ActiveAfterReturn
<1>15. CASE DriverExit(b)
  BY <1>15 DEF DriverExit
<1> QED
  BY <1>1, <1>2, <1>3, <1>4, <1>5, <1>6, <1>7,
     <1>8, <1>9, <1>10, <1>11, <1>12, <1>13, <1>14, <1>15 DEF Drive, DriverStep

LEMMA DoorsElsewhere ==
    ASSUME TypeOK, DoorsAreExact, Elsewhere PROVE DoorsAreExact'
  BY DEF DoorsAreExact, HoldsDoor, Holding, Gone, Elsewhere

(* DoorsAreExact: no two drivers, and no driver and the semaphore, hold the same
   entrance at once, also when drivers are killed at the door.               *)
THEOREM DoorsTheorem == Spec => []DoorsAreExact
<1>1. Init => DoorsAreExact
  BY DEF Init, ShmInit, FreshIpc, DriverInit, DoorsAreExact, HoldsDoor, Holding, Semaphore
<1>2. TypeOK /\ DoorsAreExact /\ [Next]_vars => DoorsAreExact'
  BY DriverOrElsewhere, DoorsDrive, DoorsElsewhere
<1> QED
  BY <1>1, <1>2, SpecTyped, PTL DEF Spec

-----------------------------------------------------------------------------
(* The active bus.                                                             *)

(* A driver at work is registered, and all drivers have started.               *)
AllRegistered == \A b \in Bus : dpc[b] # "start" /\ (dpc[b] \notin Gone => driver_pids[b])

LEMMA LoadsDrive ==
    ASSUME TypeOK, AllRegistered, OneBusLoads, NEW b \in Bus, Drive(b)
    PROVE  OneBusLoads' /\ AllRegistered'
<1> USE DEF DriverAt, AllRegistered, OneBusLoads, Serving, Gone
<1>1. CASE DriverStart(b)
  BY <1>1 DEF DriverStart
<1>2. CASE CheckShutdown(b)
  <2>1. \E to \in {"exit", "role", "last_depart"} : dpc' = [dpc EXCEPT ![b] = to]
    BY <1>2 DEF CheckShutdown
  <2> QED
    BY <1>2, <2>1 DEF CheckShutdown
<1>3. CASE Role(b)
  BY <1>3 DEF Role, MayReceive
<1>4. CASE Recv(b)
  BY <1>4 DEF Recv
<1>5. CASE RecvRemoved(b)
  BY <1>5 DEF RecvRemoved
<1>6. CASE Grant(b)
  BY <1>6 DEF Grant
<1>7. CASE Deny(b)
  BY <1>7 DEF Deny, AfterRequest
<1>8. CASE EntranceLock(b)
  BY <1>8 DEF EntranceLock
<1>9. CASE TakeSeats(b)
  BY <1>9 DEF TakeSeats
<1>10. CASE Answer(b)
  BY <1>10 DEF Answer, AfterRequest
<1>11. CASE Check(b)
  <2>1. \E to \in {"switch", "recv", "check", "top"} : dpc' = [dpc EXCEPT ![b] = to]
    BY <1>11 DEF Check, StayAt
  <2>2. dpc[b] \in Serving
    BY <1>11 DEF Check
  <2> QED
    BY <1>11, <2>1, <2>2 DEF Check
<1>12. CASE Switch(b)
  BY <1>12 DEF Switch
<1>13. CASE Depart(b)
  BY <1>13 DEF Depart
<1>14. CASE Return(b)
  <2>1. /\ dpc[b] \in {"away", "last_away"}
        /\ \E to \in {"top", "exit"} : dpc' = [dpc EXCEPT ![b] = to]
        /\ at_station' = [at_station EXCEPT ![b] = TRUE]
        /\ boarding_open' = [boarding_open EXCEPT ![b] = TRUE]
        /\ UNCHANGED driver_pids
    BY <1>14 DEF Return, Emptied, ActiveAfterReturn
  <2>2. active_bus_id \in Bus /\ at_station'[active_bus_id] => active_bus_id' = active_bus_id
    BY <1>14 DEF Return, Emptied, ActiveAfterReturn, Bus
  <2>3. ASSUME NEW c \in Bus, dpc'[c] \in Serving
        PROVE  active_bus_id' = c /\ at_station'[c] /\ boarding_open'[c]
    <3>1. c # b /\ dpc[c] \in Serving
      BY <2>1, <2>3
    <3>2. active_bus_id = c /\ at_station'[c] /\ boarding_open'[c]
      BY <2>1, <3>1
    <3> QED
      BY <2>2, <3>2
  <2>4. AllRegistered'
    BY <2>1
  <2> QED
    BY <2>3, <2>4
<1>15. CASE DriverExit(b)
  BY <1>15 DEF DriverExit
<1> QED
  BY <1>1, <1>2, <1>3, <1>4, <1>5, <1>6, <1>7,
     <1>8, <1>9, <1>10, <1>11, <1>12, <1>13, <1>14, <1>15 DEF Drive, DriverStep

(* Outside the drivers only the watchdog chooses an active bus, closes a bus or
   strikes a driver off.                                                     *)
LEMMA OnlyTheWatchdog ==
    ASSUME [Next]_vars
    PROVE  \/ \E b \in Bus : Drive(b)
           \/ CheckDriverHealth /\ UNCHANGED dpc
           \/ UNCHANGED <<active_bus_id, boarding_open, driver_pids>>
<1>1. ASSUME NEW p \in Passengers, Travel(p)
      PROVE  UNCHANGED <<active_bus_id, boarding_open, driver_pids>>
  BY <1>1 DEF Travel, PassengerStep, Arrive, Register, JoinOffice, RequestTicket,
     ReceiveTicket, TicketRemoved, ClosedCheck, FindClosed, FindOpen, EnterStation,
     EntryRefused, EntryFails, BoardLoop, FindBus, RequestBoarding, ReceiveBoarding,
     BoardingRemoved, Leave, StopWaiting, Join
<1>2. ASSUME NEW o \in Office, Sell(o)
      PROVE  UNCHANGED <<active_bus_id, boarding_open, driver_pids>>
  BY <1>2 DEF Sell, OfficeStep, OfficeCheck, TakeRequest, QueueRemoved, IssueTicket,
     DrainOne, DrainDone
<1>3. ASSUME Dispatch
      PROVE  \/ CheckDriverHealth /\ UNCHANGED dpc
             \/ UNCHANGED <<active_bus_id, boarding_open, driver_pids>>
  BY <1>3 DEF Dispatch, DispatcherStep, StopLoop, ForwardEarly, CloseStation,
     NothingToClose, WakeBlocked, CheckDriverHealth, FindOverdue,
       ForceDeparture, OverseerDone,
     CheckSimulationEnd, Shutdown, CleanUp
<1>4. ASSUME MainStep PROVE UNCHANGED <<active_bus_id, boarding_open, driver_pids>>
  BY <1>4 DEF MainStep, SpawnPassenger, StopSpawning, SeeStop, Monitor,
     StopDispatcher, TerminateChildren, KillChildren
<1>5. ASSUME (\E b \in Bus : TimePasses(b)) \/ UserSignal \/ Interrupt \/ Kill
      PROVE  UNCHANGED <<active_bus_id, boarding_open, driver_pids>>
  BY <1>5 DEF TimePasses, UserSignal, Interrupt, Kill, DispatcherUsr1, DispatcherUsr2,
     DispatcherTerm, DriverTerm, PassengerTerm, OfficeTerm, MainTerm, DriverKill
<1> QED
  BY <1>1, <1>2, <1>3, <1>4, <1>5 DEF Next, Manage, vars

LEMMA LoadsElsewhere ==
    ASSUME TypeOK, AllRegistered, OneBusLoads, Elsewhere,
           \/ CheckDriverHealth /\ UNCHANGED dpc
           \/ UNCHANGED <<active_bus_id, boarding_open, driver_pids>>
    PROVE  OneBusLoads' /\ AllRegistered'
<1> USE DEF AllRegistered, OneBusLoads, Serving, Gone, Elsewhere
<1>1. CASE UNCHANGED <<active_bus_id, boarding_open, driver_pids>>
  BY <1>1
<1>2. CASE CheckDriverHealth /\ UNCHANGED dpc
  <2>1. ASSUME NEW b \in Bus, dpc[b] \notin Gone PROVE Live(b)
    BY <2>1 DEF Live, SeenDead
  <2>2. AllRegistered'
    BY <1>2, <2>1 DEF CheckDriverHealth
  <2>3. ASSUME NEW b \in Bus, dpc[b] \in Serving PROVE ~Orphaned /\ b \notin SeenDead
    BY <2>1, <2>3 DEF Orphaned, SeenDead
  <2>4. ASSUME NEW b \in Bus, dpc[b] \in Serving
        PROVE  active_bus_id' = active_bus_id /\ boarding_open'[b] = boarding_open[b]
    BY <1>2, <2>3, <2>4 DEF CheckDriverHealth
  <2> QED
    BY <1>2, <2>2, <2>4
<1> QED
  BY <1>1, <1>2

(* OneBusLoads: once the drivers have registered, a driver that takes requests
   is the driver of the active bus, which stands open at the station; hence at
   most one driver receives passengers, whichever bus hands over to which.   *)
THEOREM OneBusLoadsTheorem == UpSpec => [](OneBusLoads /\ OneReceiver)
<1>1. UpInit => OneBusLoads /\ AllRegistered
  BY DEF UpInit, ShmInit, BusesReady, DriverInit, OneBusLoads, AllRegistered, Serving, Gone
<1>2. TypeOK /\ OneBusLoads /\ AllRegistered /\ [Next]_vars
        => (OneBusLoads /\ AllRegistered)'
  BY DriverOrElsewhere, OnlyTheWatchdog, LoadsDrive, LoadsElsewhere
<1>3. OneBusLoads => OneReceiver
  BY DEF OneBusLoads, OneReceiver
<1> QED
  BY <1>1, <1>2, <1>3, UpSpecTyped, PTL DEF UpSpec

-----------------------------------------------------------------------------
(* The closing of the station.                                                 *)

(* A closed station is not open; nobody opens it again.                        *)
ClosedIsShut == station_closed => ~station_open

(* Nobody adds to passengers_waiting but a passenger that finds the station
   open; drivers and passengers that give up take from it.                   *)
LEMMA OnlyEntryAdds ==
    ASSUME TypeOK, [Next]_vars
    PROVE  /\ passengers_waiting' <= passengers_waiting \/ station_open
           /\ \/ UNCHANGED <<station_open, station_closed>>
              \/ ~station_open'
<1> DEFINE Shut == UNCHANGED <<station_open, station_closed>>
           Fewer == passengers_waiting' <= passengers_waiting
<1>0. UNCHANGED <<station_open, station_closed, passengers_waiting>> => Shut /\ Fewer
  OBVIOUS
<1>1. ASSUME NEW p \in Passengers PROVE ClampAtZero(passengers_waiting - Seats(p)) <= passengers_waiting
  BY SeatsType DEF ClampAtZero
<1>2. ASSUME NEW b \in Bus, Drive(b) PROVE Shut /\ Fewer
  <2>1. CASE TakeSeats(b)
    <3>1. ClampAtZero(passengers_waiting - Seats(request[b].pid)) <= passengers_waiting
      BY SeatsType DEF ClampAtZero
    <3> QED
      BY <2>1, <3>1 DEF TakeSeats, WaitingWithout
  <2>2. CASE ~TakeSeats(b)
    <3>1. UNCHANGED <<station_open, station_closed, passengers_waiting>>
      BY <1>2, <2>2 DEF Drive, DriverStep, DriverStart, CheckShutdown, Role, Recv,
         RecvRemoved, Grant, Deny, EntranceLock, Answer, Check, Switch, Depart, Return,
         DriverExit
    <3> QED
      BY <1>0, <3>1
  <2> QED
    BY <2>1, <2>2
<1>3. ASSUME NEW p \in Passengers, Travel(p) PROVE Shut /\ (Fewer \/ station_open)
  <2>1. CASE StopWaiting(p)
    BY <1>1, <2>1 DEF StopWaiting, WaitingWithout
  <2>2. CASE EnterStation(p)
    BY <2>2 DEF EnterStation
  <2>3. CASE ~StopWaiting(p) /\ ~EnterStation(p)
    <3>1. UNCHANGED <<station_open, station_closed, passengers_waiting>>
      BY <1>3, <2>3 DEF Travel, PassengerStep, Arrive, Register, JoinOffice, RequestTicket,
         ReceiveTicket, TicketRemoved, ClosedCheck, FindClosed, FindOpen, EntryRefused,
         EntryFails, BoardLoop, FindBus, RequestBoarding, ReceiveBoarding, BoardingRemoved,
         Leave, Join
    <3> QED
      BY <1>0, <3>1
  <2> QED
    BY <2>1, <2>2, <2>3
<1>4. ASSUME NEW o \in Office, Sell(o) PROVE Shut /\ Fewer
  <2>1. UNCHANGED <<station_open, station_closed, passengers_waiting>>
    BY <1>4 DEF Sell, OfficeStep, OfficeCheck, TakeRequest, QueueRemoved, IssueTicket,
       DrainOne, DrainDone
  <2> QED
    BY <1>0, <2>1
<1>5. ASSUME Dispatch PROVE (Shut \/ ~station_open') /\ Fewer
  BY <1>5 DEF Dispatch, DispatcherStep, StopLoop, ForwardEarly, CloseStation,
     NothingToClose, WakeBlocked, CheckDriverHealth, FindOverdue,
       ForceDeparture, OverseerDone,
     CheckSimulationEnd, Shutdown, CleanUp
<1>6. ASSUME MainStep PROVE Shut /\ Fewer
  BY <1>6 DEF MainStep, SpawnPassenger, StopSpawning, SeeStop, Monitor,
     StopDispatcher, TerminateChildren, KillChildren
<1>7. ASSUME (\E b \in Bus : TimePasses(b)) \/ UserSignal \/ Interrupt \/ Kill
      PROVE  Shut /\ Fewer
  BY <1>7 DEF TimePasses, UserSignal, Interrupt, Kill, DispatcherUsr1, DispatcherUsr2,
     DispatcherTerm, DriverTerm, PassengerTerm, OfficeTerm, MainTerm, DriverKill
<1>8. ASSUME UNCHANGED vars PROVE Shut /\ Fewer
  BY <1>8 DEF vars
<1> QED
  BY <1>2, <1>3, <1>4, <1>5, <1>6, <1>7, <1>8 DEF Next, Manage

(* NoEntryAfterClose: after SIGUSR2 was processed passengers_waiting never goes
   up again, although a passenger may have seen the station open before.     *)
THEOREM NoEntryAfterCloseTheorem == Spec => NoEntryAfterClose
<1>1. Init => ClosedIsShut
  BY DEF Init, ShmInit, ClosedIsShut
<1>2. TypeOK /\ ClosedIsShut /\ [Next]_vars => ClosedIsShut'
  BY OnlyEntryAdds DEF ClosedIsShut
<1>3. TypeOK /\ ClosedIsShut /\ [Next]_vars =>
        [station_closed => passengers_waiting' <= passengers_waiting]_vars
  BY OnlyEntryAdds DEF ClosedIsShut
<1> QED
  BY <1>1, <1>2, <1>3, SpecTyped, PTL DEF Spec, NoEntryAfterClose
=============================================================================
