----------------------------- MODULE CityBusLedger -----------------------------
(* The books of the simulation, for every number of passengers, buses and      *)
(* offices: who has boarded is on a bus or transported, passengers_waiting     *)
(* counts those who are at the stand, and whoever was counted as created is    *)
(* counted once more. What the counters say of the processes is proved from    *)
(* where the requests are (CityBusQueues) and where the buses are              *)
(* (BusLineProofs).                                                            *)
EXTENDS CityBusQueues, BusLineProofs

USE DEF shmVars, flagVars, shmFlags, counterVars, officeCounters, rideCounters,
        busVars, loadVars, ipcVars, ticketQueues, boardingQueues, driverVars,
        passengerVars, officeVars, dispatcherVars, signalFlags

-----------------------------------------------------------------------------
(* The people on the buses at the station, as the sum BoardedLedger takes.     *)
OnBoard == [b \in Bus |-> IF at_station[b] THEN passenger_count[b] ELSE 0]

LEMMA OnBoardTypes ==
    ASSUME TypeOK
    PROVE  /\ at_station \in [Bus -> BOOLEAN] /\ passenger_count \in [Bus -> Nat]
           /\ OnBoard \in [Bus -> Int] /\ OverBuses(OnBoard) \in Nat
           /\ boarded_people \in Nat /\ passengers_transported \in Nat
           /\ dpc \in [Bus -> DriverPC]
<1>1. /\ at_station \in [Bus -> BOOLEAN] /\ passenger_count \in [Bus -> Nat]
      /\ boarded_people \in Nat /\ passengers_transported \in Nat
      /\ dpc \in [Bus -> DriverPC]
  BY DEF TypeOK, ShmTypeOK, DriverTypeOK
<1>2. OnBoard \in [Bus -> Nat] /\ OnBoard \in [Bus -> Int]
  BY <1>1 DEF OnBoard
<1> QED
  BY <1>1, <1>2, OverBusesType

(* One bus takes n people on board, or puts all of them ashore.                *)
LEMMA OnBoardChange ==
    ASSUME TypeOK, TypeOK', NEW b \in Bus,
           \A c \in Bus \ {b} : /\ at_station'[c] = at_station[c]
                                /\ passenger_count'[c] = passenger_count[c]
    PROVE  OverBuses(OnBoard') = OverBuses(OnBoard) + OnBoard'[b] - OnBoard[b]
<1>1. OnBoard \in [Bus -> Int] /\ OnBoard' \in [Bus -> Int]
  <2>1. OnBoard \in [Bus -> Int]
    BY OnBoardTypes
  <2>2. OnBoard' \in [Bus -> Int]
    BY DEF OnBoard, TypeOK, ShmTypeOK
  <2> QED
    BY <2>1, <2>2
<1>2. \A c \in Bus : c # b => OnBoard'[c] = OnBoard[c]
  BY DEF OnBoard
<1> QED
  BY <1>1, <1>2, OverBusesChange

ledgerVars == <<boarded_people, passengers_transported, at_station,
                passenger_count, simulation_running>>

LEMMA OthersLeaveLedger ==
    ASSUME [Next]_vars
    PROVE  \/ \E b \in Bus : Drive(b)
           \/ ~simulation_running'
           \/ UNCHANGED ledgerVars
<1> USE DEF ledgerVars
<1>1. ASSUME NEW p \in Passengers, Travel(p) PROVE UNCHANGED ledgerVars
  BY <1>1 DEF Travel, PassengerStep, Arrive, Register, JoinOffice, RequestTicket,
     ReceiveTicket, TicketRemoved, ClosedCheck, FindClosed, FindOpen, EnterStation,
     EntryRefused, EntryFails, BoardLoop, FindBus, RequestBoarding, ReceiveBoarding,
     BoardingRemoved, Leave, StopWaiting, Join
<1>2. ASSUME NEW o \in Office, Sell(o) PROVE UNCHANGED ledgerVars
  BY <1>2 DEF Sell, OfficeStep, OfficeCheck, TakeRequest, QueueRemoved, IssueTicket,
     DrainOne, DrainDone
<1>3. ASSUME Dispatch PROVE ~simulation_running' \/ UNCHANGED ledgerVars
  BY <1>3 DEF Dispatch, DispatcherStep, StopLoop, ForwardEarly, CloseStation,
     NothingToClose, WakeBlocked, CheckDriverHealth, FindOverdue, ForceDeparture,
     OverseerDone, CheckSimulationEnd, Shutdown, CleanUp
<1>4. ASSUME MainStep PROVE UNCHANGED ledgerVars
  BY <1>4 DEF MainStep, SpawnPassenger, StopSpawning, SeeStop, Monitor,
     StopDispatcher, TerminateChildren, KillChildren
<1>5. ASSUME (\E b \in Bus : TimePasses(b)) \/ UserSignal \/ Interrupt \/ Kill
      PROVE  UNCHANGED ledgerVars
  BY <1>5 DEF TimePasses, UserSignal, Interrupt, Kill, DispatcherUsr1, DispatcherUsr2,
     DispatcherTerm, DriverTerm, PassengerTerm, OfficeTerm, MainTerm, DriverKill
<1> QED
  BY <1>1, <1>2, <1>3, <1>4, <1>5 DEF Next, Manage, vars

LEMMA LedgerDrive ==
    ASSUME TypeOK, TypeOK', DriversKnowWhere, BoardedLedger, simulation_running,
           NEW b \in Bus, Drive(b)
    PROVE  BoardedLedger'
<1> USE OnBoardTypes
<1> SUFFICES boarded_people' = passengers_transported' + OverBuses(OnBoard')
  BY DEF BoardedLedger, OnBusesAtStation, OnBoard
<1>1. boarded_people = passengers_transported + OverBuses(OnBoard)
  BY DEF BoardedLedger, OnBusesAtStation, OnBoard
<1>2. CASE TakeSeats(b)
  <2> DEFINE n == Seats(request[b].pid)
  <2>1. /\ dpc[b] = "seating"
        /\ passenger_count' = [passenger_count EXCEPT ![b] = @ + n]
        /\ boarded_people' = boarded_people + n
        /\ UNCHANGED <<at_station, passengers_transported>>
    BY <1>2 DEF TakeSeats, DriverAt
  <2>2. at_station[b]
    BY <2>1 DEF DriversKnowWhere, OnTheRoad, Gone
  <2>3. n \in Nat
    BY SeatsType
  <2>4. OnBoard'[b] = OnBoard[b] + n
    BY <2>1, <2>2 DEF OnBoard
  <2>5. OverBuses(OnBoard') = OverBuses(OnBoard) + OnBoard'[b] - OnBoard[b]
    BY <2>1, OnBoardChange
  <2> HIDE DEF n
  <2> QED
    BY <1>1, <2>1, <2>3, <2>4, <2>5
<1>3. CASE Depart(b)
  <2>1. /\ dpc[b] \in {"depart", "last_depart"}
        /\ at_station' = [at_station EXCEPT ![b] = FALSE]
        /\ passengers_transported' = passengers_transported + passenger_count[b]
        /\ UNCHANGED <<passenger_count, boarded_people>>
    BY <1>3 DEF Depart, DriverAt
  <2>2. at_station[b]
    BY <2>1 DEF DriversKnowWhere, OnTheRoad, Gone
  <2>3. OnBoard'[b] = 0 /\ OnBoard[b] = passenger_count[b]
    BY <2>1, <2>2 DEF OnBoard
  <2>4. OverBuses(OnBoard') = OverBuses(OnBoard) + OnBoard'[b] - OnBoard[b]
    BY <2>1, OnBoardChange
  <2> QED
    BY <1>1, <2>1, <2>3, <2>4
<1>4. CASE Return(b) \/ DriverStart(b)
  <2>1. /\ at_station' = [at_station EXCEPT ![b] = TRUE]
        /\ passenger_count' = [passenger_count EXCEPT ![b] = 0]
        /\ UNCHANGED <<boarded_people, passengers_transported>>
    BY <1>4 DEF Return, DriverStart, Emptied
  <2>2. ~at_station[b] \/ passenger_count[b] = 0
    BY <1>4 DEF Return, DriverStart, DriverAt, DriversKnowWhere, OnTheRoad
  <2>3. OnBoard'[b] = 0 /\ OnBoard[b] = 0
    BY <2>1, <2>2 DEF OnBoard
  <2>4. OverBuses(OnBoard') = OverBuses(OnBoard) + OnBoard'[b] - OnBoard[b]
    BY <2>1, OnBoardChange
  <2> QED
    BY <1>1, <2>1, <2>3, <2>4
<1>5. CASE ~(TakeSeats(b) \/ Depart(b) \/ Return(b) \/ DriverStart(b))
  <2>1. UNCHANGED <<boarded_people, passengers_transported, at_station, passenger_count>>
    BY <1>5 DEF Drive, DriverStep, CheckShutdown, Role, Recv, RecvRemoved, Grant, Deny,
       EntranceLock, Answer, Check, Switch, DriverExit
  <2>2. OnBoard' = OnBoard
    BY <2>1 DEF OnBoard
  <2> QED
    BY <1>1, <2>1, <2>2
<1> QED
  BY <1>2, <1>3, <1>4, <1>5

(* BoardedLedger: whatever happens, kills included, until the dispatcher closes
   the books everybody counted as boarded is counted as transported or sits on
   a bus at the station, and nobody twice.                                   *)
THEOREM BoardedLedgerTheorem == Spec => []BoardedLedger
<1>1. Init => BoardedLedger
  <2> SUFFICES ASSUME Init PROVE BoardedLedger
    OBVIOUS
  <2>1. /\ boarded_people = 0 /\ passengers_transported = 0
        /\ passenger_count = [b \in Bus |-> 0]
    BY DEF Init, ShmInit, EmptyStand
  <2>2. \A b \in Bus : OnBoard[b] = 0
    BY <2>1 DEF OnBoard
  <2>3. OverBuses(OnBoard) = 0
    BY <2>2, OverBusesZero
  <2> QED
    BY <2>1, <2>3 DEF BoardedLedger, OnBusesAtStation, OnBoard
<1>2. TypeOK /\ TypeOK' /\ DriversKnowWhere /\ BoardedLedger /\ [Next]_vars
        => BoardedLedger'
  <2> SUFFICES ASSUME TypeOK, TypeOK', DriversKnowWhere, BoardedLedger, [Next]_vars,
                      simulation_running'
               PROVE  BoardedLedger'
    BY DEF BoardedLedger
  <2>1. ASSUME NEW b \in Bus, Drive(b) PROVE simulation_running
    BY <2>1 DEF Drive, DriverStep, DriverStart, CheckShutdown, Role, Recv, RecvRemoved,
       Grant, Deny, EntranceLock, TakeSeats, Answer, Check, Switch, Depart, Return,
       DriverExit
  <2>2. CASE UNCHANGED ledgerVars
    BY <2>2 DEF ledgerVars, BoardedLedger, OnBusesAtStation
  <2> QED
    BY <2>1, <2>2, LedgerDrive, OthersLeaveLedger
<1> QED
  BY <1>1, <1>2, SpecTyped, WhereInvariant, PTL DEF Spec

-----------------------------------------------------------------------------
(* How many people a set of passengers is: the adults, and a child for each
   parent.                                                                   *)
LEMMA PeopleType ==
    ASSUME NEW S, S \subseteq Passengers
    PROVE  IsFiniteSet(S) /\ IsFiniteSet(S \cap Parents) /\ People(S) \in Nat
<1>1. IsFiniteSet(S) /\ IsFiniteSet(S \cap Parents)
  BY PassengersAssumption, FS_Subset
<1>2. Cardinality(S) \in Nat /\ Cardinality(S \cap Parents) \in Nat
  BY <1>1, FS_CardinalityType
<1> QED
  BY <1>1, <1>2 DEF People

LEMMA PeopleJoined ==
    ASSUME NEW S, S \subseteq Passengers, NEW p \in Passengers, p \notin S
    PROVE  People(S \cup {p}) = People(S) + Seats(p)
<1>1. IsFiniteSet(S) /\ IsFiniteSet(S \cap Parents)
  BY PeopleType
<1>2. Cardinality(S \cup {p}) = Cardinality(S) + 1 /\ Cardinality(S) \in Nat
  BY <1>1, OneMore
<1>3. CASE p \in Parents
  <2>1. (S \cup {p}) \cap Parents = (S \cap Parents) \cup {p} /\ p \notin S \cap Parents
    BY <1>3
  <2>2. /\ Cardinality((S \cup {p}) \cap Parents) = Cardinality(S \cap Parents) + 1
        /\ Cardinality(S \cap Parents) \in Nat
    BY <1>1, <2>1, OneMore
  <2> QED
    BY <1>2, <1>3, <2>2 DEF People, Seats
<1>4. CASE p \notin Parents
  <2>1. (S \cup {p}) \cap Parents = S \cap Parents
    BY <1>4
  <2>2. Cardinality(S \cap Parents) \in Nat
    BY <1>1, FS_CardinalityType
  <2> QED
    BY <1>2, <1>4, <2>1, <2>2 DEF People, Seats
<1> QED
  BY <1>3, <1>4

LEMMA PeopleLeft ==
    ASSUME NEW S, S \subseteq Passengers, NEW p \in S
    PROVE  /\ People(S \ {p}) = People(S) - Seats(p)
           /\ Seats(p) <= People(S)
<1>1. /\ S \ {p} \subseteq Passengers /\ p \in Passengers /\ p \notin S \ {p}
      /\ (S \ {p}) \cup {p} = S
  OBVIOUS
<1>2. People(S) = People(S \ {p}) + Seats(p)
  BY <1>1, PeopleJoined
<1>3. People(S) \in Nat /\ People(S \ {p}) \in Nat /\ Seats(p) \in Nat
  BY <1>1, PeopleType, SeatsType
<1> QED
  BY <1>2, <1>3

LEMMA PeopleAmong ==
    ASSUME NEW S, NEW T, S \subseteq T, T \subseteq Passengers
    PROVE  People(S) <= People(T)
<1>1. S \subseteq Passengers
  OBVIOUS
<1>2. IsFiniteSet(T) /\ IsFiniteSet(T \cap Parents)
  BY PeopleType
<1>3. Cardinality(S) <= Cardinality(T)
  BY <1>2, FS_Subset
<1>4. Cardinality(S \cap Parents) <= Cardinality(T \cap Parents)
  <2>1. S \cap Parents \subseteq T \cap Parents
    OBVIOUS
  <2> QED
    BY <1>2, <2>1, FS_Subset
<1>5. /\ Cardinality(S) \in Nat /\ Cardinality(T) \in Nat
      /\ Cardinality(S \cap Parents) \in Nat /\ Cardinality(T \cap Parents) \in Nat
  BY <1>1, <1>2, PeopleType, FS_CardinalityType
<1> QED
  BY <1>3, <1>4, <1>5 DEF People

-----------------------------------------------------------------------------
(* The end of the simulation, step by step: the dispatcher closes the books
   before it removes the queues, and main begins to end the processes after
   that, or when SIGTERM has reached it; the station is closed by SIGUSR2
   only.                                                                     *)
EndsInOrder ==
    /\ disp_pc = "cleanup" => ~simulation_running
    /\ disp_pc = "done" \/ ~ipc_exists => ~BooksOpen
    /\ g_block_station \/ ~station_open => "close" \in Events
    /\ simulation_running /\ mpc \in {"finish", "terminate", "kill"} => "term" \in Events
    /\ BooksOpen => \A p \in Passengers : p_running[p] \/ "term" \in Events

endVars == <<disp_pc, simulation_running, ipc_exists, station_open,
             g_block_station, mpc, p_running>>

LEMMA EndsInOrderStep ==
    ASSUME TypeOK, EndsInOrder, [Next]_vars PROVE EndsInOrder'
<1> USE DEF EndsInOrder, BooksOpen
<1>0. ASSUME UNCHANGED endVars PROVE EndsInOrder'
  BY <1>0 DEF endVars
<1>1. ASSUME NEW b \in Bus, Drive(b) \/ TimePasses(b) PROVE UNCHANGED endVars
  BY <1>1 DEF endVars, Drive, DriverStep, DriverStart, CheckShutdown, Role, Recv,
     RecvRemoved, Grant, Deny, EntranceLock, TakeSeats, Answer, Check, Switch, Depart,
     Return, DriverExit, TimePasses
<1>2. ASSUME NEW p \in Passengers, Travel(p) PROVE UNCHANGED endVars
  BY <1>2 DEF endVars, Travel, PassengerStep, Arrive, Register, JoinOffice, RequestTicket,
     ReceiveTicket, TicketRemoved, ClosedCheck, FindClosed, FindOpen, EnterStation,
     EntryRefused, EntryFails, BoardLoop, FindBus, RequestBoarding, ReceiveBoarding,
     BoardingRemoved, Leave, StopWaiting, Join
<1>3. ASSUME NEW o \in Office, Sell(o) PROVE UNCHANGED endVars
  BY <1>3 DEF endVars, Sell, OfficeStep, OfficeCheck, TakeRequest, QueueRemoved,
     IssueTicket, DrainOne, DrainDone
<1>4. CASE Dispatch
  <2>1. UNCHANGED <<mpc, p_running>>
    BY <1>4 DEF Dispatch
  <2>2. CASE CloseStation
    BY <2>1, <2>2 DEF CloseStation, DispatcherAt
  <2>3. CASE Shutdown
    BY <2>1, <2>3 DEF Shutdown, DispatcherAt
  <2>4. CASE CleanUp
    BY <2>1, <2>4 DEF CleanUp, DispatcherAt
  <2>5. CASE ~(CloseStation \/ Shutdown \/ CleanUp)
    <3>1. /\ UNCHANGED <<simulation_running, ipc_exists, station_open, g_block_station>>
          /\ disp_pc' \notin {"cleanup", "done"}
      BY <1>4, <2>5 DEF Dispatch, DispatcherStep, StopLoop, ForwardEarly, NothingToClose,
         WakeBlocked, CheckDriverHealth, FindOverdue, ForceDeparture, OverseerDone,
         CheckSimulationEnd, DispatcherAt
    <3> QED
      BY <2>1, <3>1
  <2> QED
    BY <2>2, <2>3, <2>4, <2>5
<1>5. CASE MainStep
  <2> USE DEF MainAt
  <2>1. ASSUME NEW p \in Passengers, SpawnPassenger(p) PROVE EndsInOrder'
    BY <2>1 DEF SpawnPassenger
  <2>2. CASE StopSpawning \/ SeeStop
    BY <2>2 DEF StopSpawning, SeeStop
  <2>3. CASE Monitor
    BY <2>3 DEF Monitor
  <2>4. CASE StopDispatcher
    BY <2>4 DEF StopDispatcher
  <2>5. CASE TerminateChildren
    <3>1. simulation_running => "term" \in Events
      BY <2>5 DEF TerminateChildren
    <3> QED
      BY <2>5, <3>1 DEF TerminateChildren
  <2>6. CASE KillChildren
    BY <2>6 DEF KillChildren
  <2> QED
    BY <1>5, <2>1, <2>2, <2>3, <2>4, <2>5, <2>6 DEF MainStep
<1>6. CASE UserSignal
  BY <1>6 DEF UserSignal, DispatcherUsr1, DispatcherUsr2, DispatcherTerm
<1>7. CASE Interrupt
  <2>1. "term" \in Events /\ UNCHANGED <<disp_pc, simulation_running, ipc_exists,
                                         station_open, g_block_station>>
    BY <1>7 DEF Interrupt, DriverTerm, PassengerTerm, OfficeTerm, MainTerm
  <2>2. mpc' = "done" => mpc = "done"
    BY <1>7 DEF Interrupt, MainTerm, MainAt
  <2>3. mpc = "done" => mpc' = "done"
    BY <1>7 DEF Interrupt, MainTerm, MainAt
  <2> QED
    BY <2>1, <2>2, <2>3
<1>8. CASE Kill
  BY <1>0, <1>8 DEF Kill, DriverKill, endVars
<1>9. CASE UNCHANGED vars
  BY <1>0, <1>9 DEF vars, endVars
<1> QED
  BY <1>0, <1>1, <1>2, <1>3, <1>4, <1>5, <1>6, <1>7, <1>8, <1>9 DEF Next, Manage

LEMMA EndsInOrderInvariant == Spec => []EndsInOrder
<1>1. Init => EndsInOrder
  BY DEF Init, ShmInit, FreshIpc, OthersInit, DispatcherInit, MainInit, PassengerInit,
     EndsInOrder
<1>2. TypeOK /\ EndsInOrder /\ [Next]_vars => EndsInOrder'
  BY EndsInOrderStep
<1> QED
  BY <1>1, <1>2, SpecTyped, PTL DEF Spec

(* Books that are closed stay closed.                                          *)
LEMMA BooksStayClosed == ASSUME TypeOK, [Next]_vars, BooksOpen' PROVE BooksOpen
<1>1. simulation_running
  <2>1. (\E b \in Bus : Drive(b)) => UNCHANGED simulation_running
    BY DEF Drive, DriverStep, DriverStart, CheckShutdown, Role, Recv, RecvRemoved,
       Grant, Deny, EntranceLock, TakeSeats, Answer, Check, Switch, Depart, Return,
       DriverExit
  <2> QED
    BY <2>1, OthersLeaveLedger DEF ledgerVars, BooksOpen
<1>2. mpc # "done"
  <2>1. ASSUME mpc = "done" PROVE ~MainStep /\ ~MainTerm
    BY <2>1 DEF MainStep, SpawnPassenger, StopSpawning, SeeStop, Monitor,
       StopDispatcher, TerminateChildren, KillChildren, MainAt, MainTerm
  <2>2. MainStep \/ MainTerm \/ UNCHANGED mpc
    BY DEF Next, Manage, vars, Drive, Travel, Sell, Dispatch, TimePasses, UserSignal, Interrupt,
       Kill
  <2> QED
    BY <2>1, <2>2 DEF BooksOpen
<1> QED
  BY <1>1, <1>2 DEF BooksOpen

-----------------------------------------------------------------------------
(* A request has one place: what AnsweredOrLost says of the driver that holds
   it, of a passenger with a response, and of one that does not wait.        *)
LEMMA OneHolder ==
    ASSUME TypeOK, AnsweredOrLost, ipc_exists, NEW p \in Passengers
    PROVE  /\ ppc[p] # "board_wait" =>
                boarding_resp[p] = <<>> /\ \A b \in Bus : request[b].pid # p
           /\ \A b \in Bus : request[b].pid = p =>
                /\ ppc[p] = "board_wait" /\ boarding_resp[p] = <<>>
                /\ \A c \in Bus : request[c].pid = p => c = b
           /\ boarding_resp[p] # <<>> =>
                Len(boarding_resp[p]) = 1 /\ \A b \in Bus : request[b].pid # p
<1> DEFINE q == Queued(boarding_queue, p)
           h == Held(request, p)
           n == Len(boarding_resp[p])
<1>1. q + h + n = IF ppc[p] = "board_wait" THEN 1 ELSE 0
  BY RequestsCounted
<1>2. /\ q \in Nat /\ h \in Nat /\ n \in Nat
      /\ h > 0 <=> \E b \in Bus : request[b].pid = p
      /\ \A b, c \in Bus : h <= 1 /\ request[b].pid = p /\ request[c].pid = p => b = c
  BY BoardingCounts
<1>3. n = 0 <=> boarding_resp[p] = <<>>
  BY BoardingTypes
<1> HIDE DEF q, h, n
<1>4. h <= 1 /\ n <= 1 /\ (h > 0 => n = 0) /\ (h > 0 \/ n > 0 => ppc[p] = "board_wait")
  BY <1>1, <1>2
<1>5. ppc[p] # "board_wait" => h = 0 /\ n = 0
  BY <1>1, <1>2
<1>6. boarding_resp[p] # <<>> => n = 1 /\ h = 0
  BY <1>2, <1>3, <1>4
<1>7. ~(0 > 0)
  OBVIOUS
<1>8. n = Len(boarding_resp[p])
  BY DEF n
<1> QED
  BY <1>2, <1>3, <1>4, <1>5, <1>6, <1>7, <1>8

-----------------------------------------------------------------------------
(* Who is at the stand, and who of them may still be served: all but those
   whose driver was killed with their request.                               *)
Remains(p) == AtStand(p) /\ ~LostWithDriver(p)

StandsAlike(r) == /\ AtStand(r)' <=> AtStand(r)
                  /\ LostWithDriver(r)' <=> LostWithDriver(r)
OthersStandAlike(p) == \A r \in Passengers \ {p} : StandsAlike(r)

(* A step adds a passenger to the stand and to passengers_waiting, or takes it
   off both, or adds it to the stand uncounted (a passenger that SIGTERM ended
   in its attempts to enter a closed station), or leaves the number alone; a
   kill may then give back to the stand whom the driver was about to tell
   that it is aboard.                                                        *)
StandEntered(p) ==
    /\ OthersStandAlike(p) /\ ~AtStand(p) /\ Remains(p)'
    /\ passengers_waiting' = passengers_waiting + Seats(p)

StandLeft(p) ==
    /\ OthersStandAlike(p) /\ Remains(p) /\ ~AtStand(p)'
    /\ passengers_waiting' = WaitingWithout(p)

StandStrayed(p) ==
    /\ OthersStandAlike(p) /\ ~AtStand(p) /\ Remains(p)'
    /\ passengers_waiting' = passengers_waiting
    /\ ~station_open /\ ~p_running[p]

StandRests ==
    /\ \A r \in Passengers : (AtStand(r) => AtStand(r)') /\ (Remains(r)' => Remains(r))
    /\ passengers_waiting' = passengers_waiting

StandMoves ==
    \/ \E p \in Passengers : StandEntered(p) \/ StandLeft(p) \/ StandStrayed(p)
    \/ StandRests

LEMMA AllStandAlike ==
    ASSUME \A r \in Passengers : StandsAlike(r), passengers_waiting' = passengers_waiting
    PROVE  StandRests
  BY DEF StandRests, StandsAlike, Remains

(* The two parts of Seated.                                                    *)
Counted(p) == \E b \in Bus : dpc[b] = "answer" /\ request[b].pid = p
Told(p) == \E i \in 1 .. Len(boarding_resp[p]) : boarding_resp[p][i].approved
StandPC == {"board_loop", "attempt", "board_slot", "board_wait", "not_boarded"}

LEMMA StandParts ==
    ASSUME NEW p
    PROVE  /\ AtStand(p) <=> ppc[p] \in StandPC /\ ~Counted(p) /\ ~Told(p)
           /\ AtStand(p)' <=> ppc'[p] \in StandPC /\ ~Counted(p)' /\ ~Told(p)'
  BY DEF AtStand, Seated, Counted, Told, StandPC

(* A passenger that walks, the drivers and the responses at rest.              *)
LEMMA PassengerStands ==
    ASSUME TypeOK, UNCHANGED <<dpc, request, boarding_resp>>,
           NEW p \in Passengers, NEW to, ppc' = [ppc EXCEPT ![p] = to]
    PROVE  /\ OthersStandAlike(p)
           /\ LostWithDriver(p)' <=> LostWithDriver(p)
           /\ Counted(p)' <=> Counted(p)
           /\ Told(p)' <=> Told(p)
           /\ ppc'[p] = to
<1>1. ppc \in [Passengers -> PassengerPC]
  BY BoardingTypes
<1>2. \A r \in Passengers : /\ LostWithDriver(r)' <=> LostWithDriver(r)
                            /\ Counted(r)' <=> Counted(r)
                            /\ Told(r)' <=> Told(r)
  BY DEF LostWithDriver, Counted, Told
<1>3. \A r \in Passengers \ {p} : ppc'[r] = ppc[r]
  BY <1>1
<1> QED
  BY <1>1, <1>2, <1>3, StandParts DEF OthersStandAlike, StandsAlike

LEMMA NotLost ==
    ASSUME TypeOK, AnsweredOrLost, ipc_exists, NEW p \in Passengers,
           ppc[p] # "board_wait"
    PROVE  ~LostWithDriver(p) /\ ~Counted(p) /\ ~Told(p)
<1>1. boarding_resp[p] = <<>> /\ \A b \in Bus : request[b].pid # p
  BY OneHolder
<1> QED
  BY <1>1 DEF LostWithDriver, Counted, Told

-----------------------------------------------------------------------------
LEMMA PassengerAtStand ==
    ASSUME TypeOK, AnsweredOrLost, ipc_exists, ipc_exists', NEW p \in Passengers, Travel(p)
    PROVE  StandMoves
<1>1. UNCHANGED <<dpc, request>>
  BY DEF Travel
<1>2. CASE EnterStation(p)
  <2>1. /\ ppc[p] = "entry" /\ ppc' = [ppc EXCEPT ![p] = "board_loop"]
        /\ passengers_waiting' = passengers_waiting + Seats(p)
        /\ UNCHANGED boarding_resp
    BY <1>2 DEF EnterStation, PassengerAt
  <2>2. StandEntered(p)
    BY <1>1, <2>1, PassengerStands, NotLost, StandParts DEF StandEntered, Remains, StandPC
  <2> QED
    BY <2>2 DEF StandMoves
<1>3. CASE StopWaiting(p)
  <2>1. /\ ppc[p] = "not_boarded" /\ ppc' = [ppc EXCEPT ![p] = "join"]
        /\ passengers_waiting' = WaitingWithout(p)
        /\ UNCHANGED boarding_resp
    BY <1>3 DEF StopWaiting, PassengerAt
  <2>2. StandLeft(p)
    BY <1>1, <2>1, PassengerStands, NotLost, StandParts DEF StandLeft, Remains, StandPC
  <2> QED
    BY <2>2 DEF StandMoves
<1>4. CASE FindClosed(p) \/ EntryRefused(p)
  <2>1. /\ ppc[p] \in {"enter", "entry"} /\ ~station_open
        /\ UNCHANGED <<boarding_resp, passengers_waiting>>
        /\ \/ ppc' = [ppc EXCEPT ![p] = "leave"]
           \/ ~p_running[p] /\ ppc' = [ppc EXCEPT ![p] = "board_loop"]
    BY <1>4 DEF FindClosed, EntryRefused, EntryFails, PassengerAt
  <2>2. CASE ppc' = [ppc EXCEPT ![p] = "leave"]
    <3>0. /\ OthersStandAlike(p) /\ ppc'[p] = "leave"
          /\ LostWithDriver(p)' <=> LostWithDriver(p)
      BY <1>1, <2>1, <2>2, PassengerStands
    <3>1. \A r \in Passengers : StandsAlike(r)
      BY <2>1, <3>0, StandParts DEF OthersStandAlike, StandsAlike, StandPC
    <3> QED
      BY <2>1, <3>1, AllStandAlike DEF StandMoves
  <2>3. CASE ~p_running[p] /\ ppc' = [ppc EXCEPT ![p] = "board_loop"]
    <3>1. StandStrayed(p)
      BY <1>1, <2>1, <2>3, PassengerStands, NotLost, StandParts
         DEF StandStrayed, Remains, StandPC
    <3> QED
      BY <3>1 DEF StandMoves
  <2> QED
    BY <2>1, <2>2, <2>3
<1>5. CASE ReceiveBoarding(p)
  <2>1. /\ ppc[p] = "board_wait" /\ boarding_resp[p] # <<>>
        /\ boarding_resp' = [boarding_resp EXCEPT ![p] = Tail(@)]
        /\ ppc' = [ppc EXCEPT ![p] =
              IF Head(boarding_resp[p]).approved THEN "join" ELSE "board_loop"]
        /\ UNCHANGED passengers_waiting
    BY <1>5 DEF ReceiveBoarding, PassengerAt
  <2>2. /\ boarding_resp[p] \in Seq(BoardingResponse) /\ Len(boarding_resp[p]) = 1
        /\ \A b \in Bus : request[b].pid # p
    BY <2>1, BoardingTypes, OneHolder
  <2>3. /\ Head(boarding_resp[p]) = boarding_resp[p][1]
        /\ Len(Tail(boarding_resp[p])) = 0
    BY <2>1, <2>2
  <2>4. Told(p) <=> Head(boarding_resp[p]).approved
    BY <2>2, <2>3 DEF Told
  <2>5. ~Told(p)'
    BY <2>1, <2>3, BoardingTypes DEF Told
  <2>6. ~Counted(p) /\ ~Counted(p)' /\ ~LostWithDriver(p) /\ ~LostWithDriver(p)'
    BY <1>1, <2>2 DEF Counted, LostWithDriver
  <2>7. ppc'[p] = IF Head(boarding_resp[p]).approved THEN "join" ELSE "board_loop"
    BY <2>1, BoardingTypes
  <2>8. StandsAlike(p)
    BY <2>1, <2>4, <2>5, <2>6, <2>7, StandParts DEF StandsAlike, StandPC
  <2>9. ASSUME NEW r \in Passengers \ {p} PROVE StandsAlike(r)
    <3>1. ppc'[r] = ppc[r] /\ boarding_resp'[r] = boarding_resp[r]
      BY <2>1, BoardingTypes
    <3> QED
      BY <1>1, <3>1, StandParts DEF StandsAlike, Counted, Told, LostWithDriver
  <2> QED
    BY <2>1, <2>8, <2>9, AllStandAlike DEF StandMoves
<1>6. CASE BoardLoop(p) \/ FindBus(p) \/ RequestBoarding(p)
  <2>1. /\ ppc[p] \in StandPC
        /\ \E to \in StandPC : ppc' = [ppc EXCEPT ![p] = to]
        /\ UNCHANGED <<boarding_resp, passengers_waiting>>
    BY <1>6 DEF BoardLoop, FindBus, RequestBoarding, PassengerAt, StandPC
  <2>2. \A r \in Passengers : StandsAlike(r)
    BY <1>1, <2>1, PassengerStands, StandParts DEF OthersStandAlike, StandsAlike
  <2> QED
    BY <2>1, <2>2, AllStandAlike DEF StandMoves
<1>7. CASE \/ Arrive(p) \/ Register(p) \/ JoinOffice(p) \/ RequestTicket(p)
           \/ ReceiveTicket(p) \/ TicketRemoved(p) \/ ClosedCheck(p) \/ FindOpen(p)
           \/ Leave(p) \/ Join(p)
  <2>1. /\ ppc[p] \notin StandPC
        /\ \E to \in PassengerPC \ StandPC : ppc' = [ppc EXCEPT ![p] = to]
        /\ UNCHANGED <<boarding_resp, passengers_waiting>>
    BY <1>7 DEF Arrive, Register, JoinOffice, RequestTicket, ReceiveTicket,
       TicketRemoved, ClosedCheck, FindOpen, Leave, Join, PassengerAt, StandPC, PassengerPC
  <2>2. \A r \in Passengers : StandsAlike(r)
    BY <1>1, <2>1, PassengerStands, StandParts DEF OthersStandAlike, StandsAlike
  <2> QED
    BY <2>1, <2>2, AllStandAlike DEF StandMoves
<1>8. ~BoardingRemoved(p)
  BY DEF BoardingRemoved
<1> QED
  BY <1>2, <1>3, <1>4, <1>5, <1>6, <1>7, <1>8 DEF Travel, PassengerStep

(* The request of p passes through the hands of driver b: nobody else's place
   at the stand changes.                                                     *)
LEMMA DriverTouchesOne ==
    ASSUME TypeOK, UNCHANGED ppc, NEW b \in Bus, NEW p \in Passengers,
           request[b].pid = p, request'[b].pid \in {p, NoPassenger},
           \A c \in Bus \ {b} : request'[c] = request[c] /\ dpc'[c] = dpc[c],
           \A r \in Passengers \ {p} : boarding_resp'[r] = boarding_resp[r]
    PROVE  OthersStandAlike(p)
<1> SUFFICES ASSUME NEW r \in Passengers \ {p} PROVE StandsAlike(r)
  BY DEF OthersStandAlike
<1>1. request[b].pid # r /\ request'[b].pid # r
  BY ProfilesAssumption
<1>2. /\ Counted(r)' <=> Counted(r)
      /\ LostWithDriver(r)' <=> LostWithDriver(r)
  BY <1>1 DEF Counted, LostWithDriver
<1>3. Told(r)' <=> Told(r)
  BY DEF Told
<1> QED
  BY <1>2, <1>3, StandParts DEF StandsAlike

LEMMA TakeSeatsAtStand ==
    ASSUME TypeOK, AnsweredOrLost, RequestsAreHeld, ipc_exists,
           NEW b \in Bus, Drive(b), TakeSeats(b)
    PROVE  \E p \in Passengers : p = request[b].pid /\ StandLeft(p)
<1> USE BoardingTypes
<1>1. /\ dpc[b] = "seating" /\ dpc' = [dpc EXCEPT ![b] = "answer"]
      /\ UNCHANGED <<request, boarding_resp, ppc>>
      /\ passengers_waiting' = WaitingWithout(request[b].pid)
  BY DEF Drive, TakeSeats, DriverAt
<1>2. PICK p \in Passengers : p = request[b].pid
  BY <1>1 DEF RequestsAreHeld, AtWork
<1>3. /\ ppc[p] = "board_wait" /\ boarding_resp[p] = <<>>
      /\ \A c \in Bus : request[c].pid = p => c = b
  BY <1>2, OneHolder
<1>4. ~Counted(p) /\ ~Told(p) /\ ~LostWithDriver(p)
  BY <1>1, <1>3 DEF Counted, Told, LostWithDriver, Gone
<1>5. Remains(p)
  BY <1>3, <1>4, StandParts DEF Remains, StandPC
<1>6. Counted(p)'
  BY <1>1, <1>2 DEF Counted
<1>7. ~AtStand(p)'
  BY <1>6, StandParts
<1>8. OthersStandAlike(p)
  BY <1>1, <1>2, DriverTouchesOne
<1> QED
  BY <1>1, <1>2, <1>5, <1>7, <1>8 DEF StandLeft

LEMMA AnswerAtStand ==
    ASSUME TypeOK, AnsweredOrLost, RequestsAreHeld, ipc_exists,
           NEW b \in Bus, Drive(b), Deny(b) \/ Answer(b)
    PROVE  StandRests
<1> USE BoardingTypes
<1>1. PICK ok \in BOOLEAN :
        /\ boarding_resp' = Sent(boarding_resp, request[b].pid, Response(b, ok))
        /\ dpc[b] = IF ok THEN "answer" ELSE "board"
        /\ dpc'[b] \in {"postcheck", "check"}
  BY DEF Deny, Answer, DriverAt, AfterRequest
<1>2. /\ request' = [request EXCEPT ![b] = NoRequest]
      /\ \A c \in Bus \ {b} : dpc'[c] = dpc[c]
      /\ UNCHANGED <<ppc, passengers_waiting>>
  BY DEF Drive, Deny, Answer, DriverAt
<1>3. PICK p \in Passengers : p = request[b].pid
  BY <1>1 DEF RequestsAreHeld, AtWork
<1>4. /\ boarding_resp[p] = <<>>
      /\ \A c \in Bus : request[c].pid = p => c = b
  BY <1>3, OneHolder
<1>5. boarding_resp' = [boarding_resp EXCEPT ![p] = Append(@, Response(b, ok))]
  BY <1>1, <1>3 DEF Sent
<1>6. boarding_resp'[p] = <<Response(b, ok)>>
  BY <1>4, <1>5
<1>7. ~Told(p) /\ (Told(p)' <=> ok)
  <2>1. Response(b, ok).approved = ok
    BY DEF Response
  <2> QED
    BY <1>4, <1>6, <2>1 DEF Told
<1>8. /\ request'[b] = NoRequest /\ NoRequest.pid = NoPassenger /\ NoPassenger # p
      /\ \A c \in Bus \ {b} : request'[c] = request[c]
  BY <1>2, ProfilesAssumption DEF NoRequest
<1>9. (Counted(p) <=> ok) /\ ~Counted(p)'
  BY <1>1, <1>2, <1>3, <1>4, <1>8 DEF Counted
<1>10. ~LostWithDriver(p) /\ ~LostWithDriver(p)'
  BY <1>1, <1>2, <1>3, <1>4, <1>8 DEF LostWithDriver, Gone
<1>11. StandsAlike(p)
  BY <1>2, <1>7, <1>9, <1>10, StandParts DEF StandsAlike
<1>12. OthersStandAlike(p)
  BY <1>2, <1>3, <1>5, <1>8, DriverTouchesOne
<1> QED
  BY <1>2, <1>11, <1>12, AllStandAlike DEF OthersStandAlike

LEMMA DriverAtStand ==
    ASSUME TypeOK, AnsweredOrLost, RequestsAreHeld, ipc_exists, NEW b \in Bus, Drive(b)
    PROVE  StandMoves
<1> USE BoardingTypes
<1>1. CASE TakeSeats(b)
  BY <1>1, TakeSeatsAtStand DEF StandMoves
<1>2. CASE Deny(b) \/ Answer(b)
  BY <1>2, AnswerAtStand DEF StandMoves
<1>3. CASE ~(TakeSeats(b) \/ Deny(b) \/ Answer(b))
  <2>1. /\ UNCHANGED <<boarding_resp, ppc, passengers_waiting>>
        /\ \A c \in Bus \ {b} : request'[c] = request[c]
    BY <1>3 DEF Drive, DriverStep, DriverStart, CheckShutdown, Role, Recv, RecvRemoved,
       Grant, EntranceLock, Check, Switch, Depart, Return, DriverExit
  <2>2. /\ dpc[b] \notin Gone \cup {"answer"}
        /\ \E to \in DriverPC \ {"answer"} : dpc' = [dpc EXCEPT ![b] = to]
    BY <1>3 DEF Drive, DriverStep, DriverStart, CheckShutdown, Role, Recv, RecvRemoved,
       Grant, EntranceLock, Check, StayAt, Switch, Depart, Return, DriverExit, DriverAt,
       DriverPC, Gone
  <2>3. dpc'[b] \in Gone => request'[b].pid \notin Passengers
    <3>1. CASE DriverExit(b)
      <4>1. dpc[b] = "exit" /\ UNCHANGED request
        BY <3>1 DEF DriverExit, DriverAt
      <4> QED
        BY <4>1 DEF RequestsAreHeld, AtWork, Gone
    <3>2. CASE ~DriverExit(b)
      BY <1>3, <3>2 DEF Drive, DriverStep, DriverStart, CheckShutdown, Role, Recv,
         RecvRemoved, Grant, EntranceLock, Check, StayAt, Switch, Depart, Return,
         DriverAt, Gone
    <3> QED
      BY <3>1, <3>2
  <2>4. ASSUME NEW r \in Passengers PROVE StandsAlike(r)
    <3>1. Counted(r)' <=> Counted(r)
      BY <2>1, <2>2 DEF Counted
    <3>2. LostWithDriver(r)' <=> LostWithDriver(r)
      BY <2>1, <2>2, <2>3 DEF LostWithDriver
    <3>3. Told(r)' <=> Told(r)
      BY <2>1 DEF Told
    <3> QED
      BY <2>1, <3>1, <3>2, <3>3, StandParts DEF StandsAlike
  <2> QED
    BY <2>1, <2>4, AllStandAlike DEF StandMoves
<1> QED
  BY <1>1, <1>2, <1>3

(* The steps of all others: main reaps and forks, a kill takes a driver.       *)
LEMMA OthersAtStand ==
    ASSUME TypeOK, [Next]_vars, ipc_exists'
    PROVE  \/ \E b \in Bus : Drive(b)
           \/ \E p \in Passengers : Travel(p)
           \/ StandRests
<1> USE BoardingTypes
<1>1. ASSUME UNCHANGED <<dpc, request, boarding_resp, ppc, passengers_waiting>>
      PROVE  StandRests
  <2>1. ASSUME NEW r \in Passengers PROVE StandsAlike(r)
    <3>1. (Counted(r)' <=> Counted(r)) /\ (LostWithDriver(r)' <=> LostWithDriver(r))
      BY <1>1 DEF Counted, LostWithDriver
    <3>2. Told(r)' <=> Told(r)
      BY <1>1 DEF Told
    <3> QED
      BY <1>1, <3>1, <3>2, StandParts DEF StandsAlike
  <2> QED
    BY <1>1, <2>1, AllStandAlike
<1>2. ASSUME NEW o \in Office, Sell(o)
      PROVE  UNCHANGED <<dpc, request, boarding_resp, ppc, passengers_waiting>>
  BY <1>2 DEF Sell, OfficeStep, OfficeCheck, TakeRequest, QueueRemoved, IssueTicket,
     DrainOne, DrainDone
<1>3. ASSUME Dispatch
      PROVE  UNCHANGED <<dpc, request, boarding_resp, ppc, passengers_waiting>>
  BY <1>3 DEF Dispatch, DispatcherStep, StopLoop, ForwardEarly, CloseStation,
     NothingToClose, WakeBlocked, CheckDriverHealth, FindOverdue, ForceDeparture,
     OverseerDone, CheckSimulationEnd, Shutdown, CleanUp
<1>8. ASSUME Interrupt \/ TerminateChildren PROVE StandRests
  <2>1. EndedEarly
    BY <1>8, SignalsEndEarly
  <2>2. UNCHANGED <<request, boarding_resp, passengers_waiting>>
    BY <1>8 DEF TerminateChildren, Interrupt, DriverTerm, PassengerTerm, OfficeTerm,
       MainTerm
  <2>3. ASSUME NEW r \in Passengers
        PROVE  (AtStand(r) => AtStand(r)') /\ (Remains(r)' => Remains(r))
    <3>1. Counted(r)' <=> Counted(r)
      BY <2>1, <2>2 DEF Counted, EndedEarly
    <3>2. LostWithDriver(r) => LostWithDriver(r)'
      BY <2>1, <2>2 DEF LostWithDriver, EndedEarly, Gone
    <3>3. Told(r)' <=> Told(r)
      BY <2>2 DEF Told
    <3>4. ppc'[r] \in StandPC <=> ppc[r] \in StandPC
      BY <2>1 DEF EndedEarly, StandPC
    <3> QED
      BY <3>1, <3>2, <3>3, <3>4, StandParts DEF Remains
  <2> QED
    BY <2>2, <2>3 DEF StandRests
<1>4. CASE MainStep /\ ~TerminateChildren
  <2>1. /\ UNCHANGED <<request, boarding_resp, passengers_waiting>>
        /\ dpc' \in {dpc, Reaped}
    BY <1>4 DEF MainStep, SpawnPassenger, StopSpawning, SeeStop, Monitor,
       StopDispatcher, KillChildren
  <2>2. \A r \in Passengers : ppc'[r] = ppc[r] \/ {ppc[r], ppc'[r]} \cap StandPC = {}
    <3>1. \/ UNCHANGED ppc
          \/ \E p \in Passengers :
                ppc[p] = "unborn" /\ ppc' = [ppc EXCEPT ![p] = "arrive"]
      BY <1>4 DEF MainStep, SpawnPassenger, StopSpawning, SeeStop, Monitor,
         StopDispatcher, KillChildren, PassengerAt
    <3>2. "unborn" \notin StandPC /\ "arrive" \notin StandPC
      BY DEF StandPC
    <3> QED
      BY <3>1, <3>2
  <2>3. \A b \in Bus : /\ dpc'[b] = "answer" <=> dpc[b] = "answer"
                       /\ dpc'[b] \in Gone <=> dpc[b] \in Gone
    BY <2>1 DEF Reaped, Gone
  <2>4. ASSUME NEW r \in Passengers PROVE StandsAlike(r)
    <3>1. (Counted(r)' <=> Counted(r)) /\ (LostWithDriver(r)' <=> LostWithDriver(r))
      BY <2>1, <2>3 DEF Counted, LostWithDriver
    <3>2. Told(r)' <=> Told(r)
      BY <2>1 DEF Told
    <3> QED
      BY <2>2, <3>1, <3>2, StandParts DEF StandsAlike
  <2> QED
    BY <2>1, <2>4, AllStandAlike
<1>5. CASE (\E b \in Bus : TimePasses(b)) \/ UserSignal
  <2>1. UNCHANGED <<dpc, request, boarding_resp, ppc, passengers_waiting>>
    BY <1>5 DEF TimePasses, UserSignal, DispatcherUsr1, DispatcherUsr2, DispatcherTerm
  <2> QED
    BY <1>1, <2>1
<1>6. CASE Kill
  <2>1. PICK b \in Bus : DriverKill(b)
    BY <1>6 DEF Kill
  <2>2. /\ UNCHANGED <<request, boarding_resp, ppc, passengers_waiting>>
        /\ dpc' = [dpc EXCEPT ![b] = "zombie"]
    BY <1>6, <2>1 DEF Kill, DriverKill
  <2>3. ASSUME NEW r \in Passengers
        PROVE  (AtStand(r) => AtStand(r)') /\ (Remains(r)' => Remains(r))
    <3>1. Told(r)' <=> Told(r)
      BY <2>2 DEF Told
    <3>2. (Counted(r)' => Counted(r)) /\ (LostWithDriver(r) => LostWithDriver(r)')
      BY <2>2 DEF Counted, LostWithDriver, Gone
    <3>3. ~LostWithDriver(r)' => (Counted(r) => Counted(r)')
      BY <2>2 DEF Counted, LostWithDriver, Gone
    <3> QED
      BY <2>2, <3>1, <3>2, <3>3, StandParts DEF Remains
  <2> QED
    BY <2>2, <2>3 DEF StandRests
<1>7. CASE UNCHANGED vars
  BY <1>1, <1>7 DEF vars
<1> QED
  BY <1>1, <1>2, <1>3, <1>4, <1>5, <1>6, <1>7, <1>8 DEF Next, Manage

LEMMA StandStep ==
    ASSUME TypeOK, AnsweredOrLost, RequestsAreHeld, ipc_exists, ipc_exists', [Next]_vars
    PROVE  StandMoves
  BY DriverAtStand, PassengerAtStand, OthersAtStand DEF StandMoves

-----------------------------------------------------------------------------
(* The two sets of people passengers_waiting is compared with.                 *)
Stand == {p \in Passengers : AtStand(p)}
Remaining == {p \in Passengers : AtStand(p) /\ ~LostWithDriver(p)}

LEMMA StandSets ==
    /\ Stand \subseteq Passengers /\ Remaining \subseteq Stand
    /\ People(Stand) \in Nat /\ People(Remaining) \in Nat
    /\ NoGhostsWait <=> (BooksOpen => passengers_waiting <= People(Stand))
    /\ NobodyForgotten <=> (BooksOpen => People(Remaining) <= passengers_waiting)
    /\ \A p \in Passengers : Seats(p) \in Nat
<1>1. Stand \subseteq Passengers /\ Remaining \subseteq Stand
  BY DEF Stand, Remaining
<1>2. People(Stand) \in Nat /\ People(Remaining) \in Nat
  <2>1. Remaining \subseteq Passengers
    BY <1>1
  <2> QED
    BY <1>1, <2>1, PeopleType
<1> QED
  BY <1>1, <1>2, SeatsType DEF NoGhostsWait, NobodyForgotten, Stand, Remaining

LEMMA StandGrows ==
    ASSUME NEW p \in Passengers, OthersStandAlike(p), ~AtStand(p), Remains(p)'
    PROVE  /\ Stand' = Stand \cup {p} /\ p \notin Stand
           /\ Remaining' = Remaining \cup {p} /\ p \notin Remaining
           /\ People(Stand') = People(Stand) + Seats(p)
           /\ People(Remaining') = People(Remaining) + Seats(p)
<1>1. \A r \in Passengers \ {p} : /\ AtStand(r)' <=> AtStand(r)
                                  /\ LostWithDriver(r)' <=> LostWithDriver(r)
  BY DEF OthersStandAlike, StandsAlike
<1>2. AtStand(p)' /\ ~LostWithDriver(p)'
  BY DEF Remains
<1>3. Stand' = Stand \cup {p} /\ p \notin Stand
  BY <1>1, <1>2 DEF Stand
<1>4. Remaining' = Remaining \cup {p} /\ p \notin Remaining
  BY <1>1, <1>2 DEF Remaining
<1>5. Stand \subseteq Passengers /\ Remaining \subseteq Passengers
  BY DEF Stand, Remaining
<1> QED
  BY <1>3, <1>4, <1>5, PeopleJoined

LEMMA StandShrinks ==
    ASSUME NEW p \in Passengers, OthersStandAlike(p), Remains(p), ~AtStand(p)'
    PROVE  /\ People(Stand') = People(Stand) - Seats(p)
           /\ People(Remaining') = People(Remaining) - Seats(p)
           /\ Seats(p) <= People(Stand) /\ Seats(p) <= People(Remaining)
<1>1. \A r \in Passengers \ {p} : /\ AtStand(r)' <=> AtStand(r)
                                  /\ LostWithDriver(r)' <=> LostWithDriver(r)
  BY DEF OthersStandAlike, StandsAlike
<1>2. AtStand(p) /\ ~LostWithDriver(p)
  BY DEF Remains
<1>3. Stand' = Stand \ {p} /\ p \in Stand
  BY <1>1, <1>2 DEF Stand
<1>4. Remaining' = Remaining \ {p} /\ p \in Remaining
  BY <1>1, <1>2 DEF Remaining
<1>5. Stand \subseteq Passengers /\ Remaining \subseteq Passengers
  BY DEF Stand, Remaining
<1> QED
  BY <1>3, <1>4, <1>5, PeopleLeft

LEMMA StandBooks ==
    ASSUME TypeOK, EndsInOrder, EndsInOrder', [Next]_vars, BooksOpen'
    PROVE  /\ BooksOpen /\ ipc_exists /\ ipc_exists'
           /\ passengers_waiting \in Nat
  BY BooksStayClosed DEF EndsInOrder, TypeOK, ShmTypeOK

LEMMA NoGhostsStep ==
    ASSUME TypeOK, EndsInOrder, EndsInOrder', AnsweredOrLost, RequestsAreHeld,
           NoGhostsWait, [Next]_vars
    PROVE  NoGhostsWait'
<1> SUFFICES ASSUME BooksOpen' PROVE passengers_waiting' <= People(Stand')
  BY DEF NoGhostsWait, Stand
<1>1. /\ BooksOpen /\ ipc_exists /\ ipc_exists' /\ passengers_waiting \in Nat
      /\ passengers_waiting <= People(Stand) /\ People(Stand) \in Nat
  BY StandBooks, StandSets
<1>2. ASSUME NEW p \in Passengers, StandEntered(p) PROVE passengers_waiting' <= People(Stand')
  BY <1>1, <1>2, StandGrows, SeatsType DEF StandEntered
<1>3. ASSUME NEW p \in Passengers, StandStrayed(p) PROVE passengers_waiting' <= People(Stand')
  BY <1>1, <1>3, StandGrows, SeatsType DEF StandStrayed
<1>4. ASSUME NEW p \in Passengers, StandLeft(p) PROVE passengers_waiting' <= People(Stand')
  <2>1. /\ People(Stand') = People(Stand) - Seats(p) /\ Seats(p) <= People(Stand)
        /\ passengers_waiting' = WaitingWithout(p) /\ Seats(p) \in Nat
    BY <1>4, StandShrinks, SeatsType DEF StandLeft
  <2> QED
    BY <1>1, <2>1 DEF WaitingWithout, ClampAtZero
<1>5. CASE StandRests
  <2>1. Stand \subseteq Stand' /\ Stand' \subseteq Passengers
    BY <1>5 DEF StandRests, Stand
  <2>2. People(Stand) <= People(Stand') /\ People(Stand') \in Nat
    BY <2>1, PeopleAmong, PeopleType
  <2> QED
    BY <1>1, <1>5, <2>2 DEF StandRests
<1> QED
  BY <1>1, <1>2, <1>3, <1>4, <1>5, StandStep DEF StandMoves

(* NoGhostsWait: whatever happens, kills and SIGTERM at any moment included,
   passengers_waiting counts nobody who is not at the stand.                 *)
THEOREM NoGhostsTheorem == Spec => []NoGhostsWait
<1>1. Init => NoGhostsWait
  <2>1. Init => passengers_waiting = 0
    BY DEF Init, ShmInit
  <2> QED
    BY <2>1, StandSets
<1>2. /\ TypeOK /\ EndsInOrder /\ EndsInOrder' /\ AnsweredOrLost /\ RequestsAreHeld
      /\ NoGhostsWait /\ [Next]_vars
      => NoGhostsWait'
  BY NoGhostsStep
<1> QED
  BY <1>1, <1>2, SpecTyped, EndsInOrderInvariant, AnsweredTheorem, PTL DEF Spec

-----------------------------------------------------------------------------
(* A passenger that SIGTERM ends while it tries to enter a closed station joins
   the boarding loop uncounted, and takes itself off the count later. That
   takes both signals: what follows holds where the user sends one of them
   only.                                                                     *)
OneSignalOnly == ~({"close", "term"} \subseteq Events)

LEMMA NobodyStrays ==
    ASSUME OneSignalOnly, EndsInOrder, BooksOpen, NEW p \in Passengers
    PROVE  ~StandStrayed(p)
  BY DEF OneSignalOnly, EndsInOrder, StandStrayed

LEMMA NobodyForgottenStep ==
    ASSUME OneSignalOnly, TypeOK, EndsInOrder, EndsInOrder', AnsweredOrLost,
           RequestsAreHeld, NobodyForgotten, [Next]_vars
    PROVE  NobodyForgotten'
<1> SUFFICES ASSUME BooksOpen' PROVE People(Remaining') <= passengers_waiting'
  BY DEF NobodyForgotten, Remaining
<1>1. /\ BooksOpen /\ ipc_exists /\ ipc_exists' /\ passengers_waiting \in Nat
      /\ People(Remaining) <= passengers_waiting /\ People(Remaining) \in Nat
  BY StandBooks, StandSets
<1>2. ASSUME NEW p \in Passengers, StandEntered(p)
      PROVE  People(Remaining') <= passengers_waiting'
  BY <1>1, <1>2, StandGrows, SeatsType DEF StandEntered
<1>3. ASSUME NEW p \in Passengers, StandLeft(p)
      PROVE  People(Remaining') <= passengers_waiting'
  <2>1. /\ People(Remaining') = People(Remaining) - Seats(p)
        /\ passengers_waiting' = WaitingWithout(p) /\ Seats(p) \in Nat
    BY <1>3, StandShrinks, SeatsType DEF StandLeft
  <2> QED
    BY <1>1, <2>1 DEF WaitingWithout, ClampAtZero
<1>4. CASE StandRests
  <2>1. Remaining' \subseteq Remaining /\ Remaining \subseteq Passengers
    BY <1>4 DEF StandRests, Remaining, Remains
  <2>2. Remaining' \subseteq Passengers
    BY <2>1
  <2>3. People(Remaining') <= People(Remaining) /\ People(Remaining') \in Nat
    BY <2>1, <2>2, PeopleAmong, PeopleType
  <2> QED
    BY <1>1, <1>4, <2>3 DEF StandRests
<1> QED
  BY <1>1, <1>2, <1>3, <1>4, StandStep, NobodyStrays DEF StandMoves

(* NobodyForgotten: nobody at the stand is missing in passengers_waiting, but
   for the passengers of a killed driver, so drivers and dispatcher do not go
   home while somebody waits.                                                *)
THEOREM NobodyForgottenTheorem ==
    ASSUME OneSignalOnly PROVE Spec => []NobodyForgotten
<1>1. Init => NobodyForgotten
  <2> SUFFICES ASSUME Init PROVE NobodyForgotten
    OBVIOUS
  <2>1. passengers_waiting = 0 /\ ppc = [p \in Passengers |-> "unborn"]
    BY DEF Init, ShmInit, OthersInit, PassengerInit
  <2>2. Remaining = {}
    BY <2>1 DEF Remaining, AtStand
  <2>3. {} \cap Parents = {}
    OBVIOUS
  <2>4. People(Remaining) = 0
    BY <2>2, <2>3, FS_EmptySet DEF People
  <2> QED
    BY <2>1, <2>4, StandSets
<1>2. /\ TypeOK /\ EndsInOrder /\ EndsInOrder' /\ AnsweredOrLost /\ RequestsAreHeld
      /\ NobodyForgotten /\ [Next]_vars
      => NobodyForgotten'
  BY NobodyForgottenStep
<1> QED
  BY <1>1, <1>2, SpecTyped, EndsInOrderInvariant, AnsweredTheorem, PTL DEF Spec

(* WaitingIsExact: without kills no passenger is lost with its driver, and
   passengers_waiting is the number of people at the stand.                  *)
THEOREM WaitingTheorem ==
    ASSUME OneSignalOnly, "kill" \notin Events PROVE Spec => []WaitingIsExact
<1>1. /\ TypeOK /\ EndsInOrder /\ GoneHoldNothing /\ NoGhostsWait /\ NobodyForgotten
      => WaitingIsExact
  <2> SUFFICES ASSUME TypeOK, EndsInOrder, GoneHoldNothing, NoGhostsWait,
                      NobodyForgotten, BooksOpen
               PROVE  passengers_waiting = People(Stand)
    BY DEF WaitingIsExact, Stand
  <2>1. ipc_exists
    BY DEF EndsInOrder
  <2>2. Remaining = Stand
    BY <2>1 DEF GoneHoldNothing, LostWithDriver, Remaining, Stand
  <2>3. passengers_waiting \in Nat
    BY DEF TypeOK, ShmTypeOK
  <2> QED
    BY <2>2, <2>3, StandSets
<1> QED
  BY <1>1, SpecTyped, EndsInOrderInvariant, GoneHoldNothingInvariant, NoGhostsTheorem,
     NobodyForgottenTheorem, PTL

-----------------------------------------------------------------------------
(* The sum of everybody. A step moves the people of one passenger from one
   counter, or from the way, to another, or leaves all of them alone.        *)
Way == {p \in Passengers : OnTheWay(p)}
WayPC == {"office", "ticket_slot", "ticket_wait", "closed_check", "enter", "entry", "leave"}

Accounted == /\ total_passengers_created \in Nat /\ boarded_people \in Nat
             /\ passengers_left_early \in Nat /\ passengers_waiting \in Nat
             /\ People(Way) \in Nat
             /\ total_passengers_created = boarded_people + passengers_left_early
                                             + passengers_waiting + People(Way)

LEMMA WaySets ==
    ASSUME TypeOK
    PROVE  EverybodyAccounted <=> (BooksOpen => Accounted)
<1>1. Way \subseteq Passengers
  BY DEF Way
<1>2. People(Way) \in Nat
  BY <1>1, PeopleType
<1> QED
  BY <1>2 DEF EverybodyAccounted, Accounted, Way, TypeOK, ShmTypeOK

(* One passenger walks on.                                                     *)
LEMMA WayMoves ==
    ASSUME TypeOK, NEW p \in Passengers, NEW to, ppc' = [ppc EXCEPT ![p] = to]
    PROVE  /\ (ppc[p] \in WayPC <=> to \in WayPC) => Way' = Way
           /\ ppc[p] \notin WayPC /\ to \in WayPC => People(Way') = People(Way) + Seats(p)
           /\ ppc[p] \in WayPC /\ to \notin WayPC =>
                People(Way') = People(Way) - Seats(p) /\ Seats(p) <= People(Way)
<1>1. \A r \in Passengers : OnTheWay(r) <=> ppc[r] \in WayPC
  BY DEF OnTheWay, WayPC
<1>2. \A r \in Passengers : OnTheWay(r)' <=> ppc'[r] \in WayPC
  BY DEF OnTheWay, WayPC
<1>3. ppc'[p] = to /\ \A r \in Passengers \ {p} : ppc'[r] = ppc[r]
  BY BoardingTypes
<1>4. (ppc[p] \in WayPC <=> to \in WayPC) => Way' = Way
  BY <1>1, <1>2, <1>3 DEF Way
<1>5. ASSUME ppc[p] \notin WayPC, to \in WayPC
      PROVE  Way' = Way \cup {p} /\ p \notin Way
  BY <1>1, <1>2, <1>3, <1>5 DEF Way
<1>6. ASSUME ppc[p] \in WayPC, to \notin WayPC
      PROVE  Way' = Way \ {p} /\ p \in Way
  BY <1>1, <1>2, <1>3, <1>6 DEF Way
<1>7. Way \subseteq Passengers
  BY DEF Way
<1> QED
  BY <1>4, <1>5, <1>6, <1>7, PeopleJoined, PeopleLeft

(* A passenger that remains at the stand is counted there: the correction of a
   negative number is never needed.                                          *)
LEMMA RemainingAreCounted ==
    ASSUME TypeOK, NobodyForgotten, BooksOpen, NEW p \in Passengers, Remains(p)
    PROVE  WaitingWithout(p) = passengers_waiting - Seats(p) /\ Seats(p) <= passengers_waiting
<1>1. p \in Remaining /\ Remaining \subseteq Passengers
  BY DEF Remaining, Remains
<1>2. Seats(p) <= People(Remaining)
  BY <1>1, PeopleLeft
<1>3. People(Remaining) <= passengers_waiting /\ People(Remaining) \in Nat
  BY StandSets
<1>4. passengers_waiting \in Nat /\ Seats(p) \in Nat
  BY SeatsType DEF TypeOK, ShmTypeOK
<1>5. Seats(p) <= passengers_waiting
  BY <1>2, <1>3, <1>4
<1> QED
  BY <1>4, <1>5 DEF WaitingWithout, ClampAtZero

accountVars == <<total_passengers_created, boarded_people, passengers_left_early,
                 passengers_waiting>>

LEMMA PassengerIsAccounted ==
    ASSUME TypeOK, Accounted, NobodyForgotten, BooksOpen, AnsweredOrLost, ipc_exists,
           OneSignalOnly, EndsInOrder, NEW p \in Passengers, Travel(p)
    PROVE  Accounted'
<1> USE DEF Accounted
<1>1. Seats(p) \in Nat
  BY SeatsType
<1>2. CASE Register(p)
  <2>1. /\ ppc[p] \notin WayPC
        /\ \E to \in WayPC : ppc' = [ppc EXCEPT ![p] = to]
        /\ total_passengers_created' = total_passengers_created + Seats(p)
        /\ UNCHANGED <<boarded_people, passengers_left_early, passengers_waiting>>
    BY <1>2 DEF Register, PassengerAt, WayPC
  <2>2. People(Way') = People(Way) + Seats(p)
    BY <2>1, WayMoves
  <2> QED
    BY <1>1, <2>1, <2>2
<1>3. CASE EnterStation(p)
  <2>1. /\ ppc[p] \in WayPC
        /\ ppc' = [ppc EXCEPT ![p] = "board_loop"] /\ "board_loop" \notin WayPC
        /\ passengers_waiting' = passengers_waiting + Seats(p)
        /\ UNCHANGED <<boarded_people, passengers_left_early, total_passengers_created>>
    BY <1>3 DEF EnterStation, PassengerAt, WayPC
  <2>2. People(Way') = People(Way) - Seats(p) /\ Seats(p) <= People(Way)
    BY <2>1, WayMoves
  <2> QED
    BY <1>1, <2>1, <2>2
<1>4. CASE Leave(p)
  <2>1. /\ ppc[p] \in WayPC
        /\ ppc' = [ppc EXCEPT ![p] = "join"] /\ "join" \notin WayPC
        /\ passengers_left_early' = passengers_left_early + Seats(p)
        /\ UNCHANGED <<boarded_people, passengers_waiting, total_passengers_created>>
    BY <1>4 DEF Leave, PassengerAt, WayPC
  <2>2. People(Way') = People(Way) - Seats(p) /\ Seats(p) <= People(Way)
    BY <2>1, WayMoves
  <2> QED
    BY <1>1, <2>1, <2>2
<1>5. CASE StopWaiting(p)
  <2>1. /\ ppc[p] = "not_boarded" /\ ppc[p] \notin WayPC
        /\ ppc' = [ppc EXCEPT ![p] = "join"] /\ "join" \notin WayPC
        /\ passengers_left_early' = passengers_left_early + Seats(p)
        /\ passengers_waiting' = WaitingWithout(p)
        /\ UNCHANGED <<boarded_people, total_passengers_created>>
    BY <1>5 DEF StopWaiting, PassengerAt, WayPC
  <2>2. Way' = Way
    BY <2>1, WayMoves
  <2>3. Remains(p)
    BY <2>1, NotLost, StandParts DEF Remains, StandPC
  <2>4. WaitingWithout(p) = passengers_waiting - Seats(p) /\ Seats(p) <= passengers_waiting
    BY <2>3, RemainingAreCounted
  <2> QED
    BY <1>1, <2>1, <2>2, <2>4
<1>6. CASE FindClosed(p) \/ EntryRefused(p)
  <2>1. station_open \/ p_running[p]
    BY DEF OneSignalOnly, EndsInOrder
  <2>2. /\ ppc[p] \in WayPC /\ "leave" \in WayPC
        /\ ppc' = [ppc EXCEPT ![p] = "leave"]
        /\ UNCHANGED accountVars
    BY <1>6, <2>1 DEF FindClosed, EntryRefused, EntryFails, PassengerAt, WayPC, accountVars
  <2>3. Way' = Way
    BY <2>2, WayMoves
  <2> QED
    BY <2>2, <2>3 DEF accountVars
<1>7. CASE \/ Arrive(p) \/ JoinOffice(p) \/ RequestTicket(p) \/ ReceiveTicket(p)
           \/ ClosedCheck(p) \/ FindOpen(p) \/ BoardLoop(p) \/ FindBus(p)
           \/ RequestBoarding(p) \/ ReceiveBoarding(p) \/ Join(p)
  <2>1. UNCHANGED accountVars
    BY <1>7 DEF Arrive, JoinOffice, RequestTicket, ReceiveTicket, ClosedCheck, FindOpen,
       BoardLoop, FindBus, RequestBoarding, ReceiveBoarding, Join, accountVars
  <2>2. \E to : ppc' = [ppc EXCEPT ![p] = to] /\ (ppc[p] \in WayPC <=> to \in WayPC)
    BY <1>7 DEF Arrive, JoinOffice, RequestTicket, ReceiveTicket, ClosedCheck, FindOpen,
       BoardLoop, FindBus, RequestBoarding, ReceiveBoarding, Join, PassengerAt, WayPC
  <2>3. Way' = Way
    BY <2>2, WayMoves
  <2> QED
    BY <2>1, <2>3 DEF accountVars
<1>8. ~BoardingRemoved(p) /\ ~TicketRemoved(p)
  BY DEF BoardingRemoved, TicketRemoved
<1> QED
  BY <1>2, <1>3, <1>4, <1>5, <1>6, <1>7, <1>8 DEF Travel, PassengerStep

LEMMA DriverAccounts ==
    ASSUME TypeOK, Accounted, NobodyForgotten, BooksOpen, AnsweredOrLost,
           RequestsAreHeld, ipc_exists, NEW b \in Bus, Drive(b)
    PROVE  Accounted'
<1> USE DEF Accounted
<1>1. Way' = Way
  BY DEF Drive, Way, OnTheWay
<1>2. CASE TakeSeats(b)
  <2>1. PICK p \in Passengers : p = request[b].pid /\ StandLeft(p)
    BY <1>2, TakeSeatsAtStand
  <2>2. /\ boarded_people' = boarded_people + Seats(p)
        /\ passengers_waiting' = WaitingWithout(p)
        /\ UNCHANGED <<total_passengers_created, passengers_left_early>>
    BY <1>2, <2>1 DEF TakeSeats
  <2>3. WaitingWithout(p) = passengers_waiting - Seats(p) /\ Seats(p) <= passengers_waiting
    BY <2>1, RemainingAreCounted DEF StandLeft
  <2>4. Seats(p) \in Nat
    BY SeatsType
  <2> QED
    BY <1>1, <2>2, <2>3, <2>4
<1>3. CASE ~TakeSeats(b)
  <2>1. UNCHANGED accountVars
    BY <1>3 DEF Drive, DriverStep, DriverStart, CheckShutdown, Role, Recv, RecvRemoved,
       Grant, Deny, EntranceLock, Answer, Check, Switch, Depart, Return, DriverExit,
       accountVars
  <2> QED
    BY <1>1, <2>1 DEF accountVars
<1> QED
  BY <1>2, <1>3

LEMMA OthersAccount ==
    ASSUME TypeOK, [Next]_vars, BooksOpen'
    PROVE  \/ \E b \in Bus : Drive(b)
           \/ \E p \in Passengers : Travel(p)
           \/ UNCHANGED accountVars /\ Way' = Way
<1>1. ASSUME UNCHANGED ppc PROVE Way' = Way
  BY <1>1 DEF Way, OnTheWay
<1>2. ASSUME NEW o \in Office, Sell(o) PROVE UNCHANGED <<ppc, accountVars>>
  BY <1>2 DEF Sell, OfficeStep, OfficeCheck, TakeRequest, QueueRemoved, IssueTicket,
     DrainOne, DrainDone, accountVars
<1>3. ASSUME Dispatch PROVE UNCHANGED <<ppc, accountVars>>
  BY <1>3 DEF Dispatch, DispatcherStep, StopLoop, ForwardEarly, CloseStation,
     NothingToClose, WakeBlocked, CheckDriverHealth, FindOverdue, ForceDeparture,
     OverseerDone, CheckSimulationEnd, Shutdown, CleanUp, accountVars
<1>4. ASSUME NEW p \in Passengers, SpawnPassenger(p) PROVE UNCHANGED accountVars /\ Way' = Way
  <2>1. /\ ppc[p] = "unborn" /\ ppc' = [ppc EXCEPT ![p] = "arrive"]
        /\ UNCHANGED accountVars
    BY <1>4 DEF SpawnPassenger, PassengerAt, accountVars
  <2>2. "unborn" \notin WayPC /\ "arrive" \notin WayPC
    BY DEF WayPC
  <2> QED
    BY <2>1, <2>2, WayMoves
<1>9. ASSUME Interrupt \/ TerminateChildren PROVE UNCHANGED accountVars /\ Way' = Way
  <2>1. EndedEarly
    BY <1>9, SignalsEndEarly
  <2>2. UNCHANGED accountVars
    BY <1>9 DEF TerminateChildren, Interrupt, DriverTerm, PassengerTerm, OfficeTerm,
       MainTerm, accountVars
  <2>3. \A p \in Passengers : OnTheWay(p)' <=> OnTheWay(p)
    BY <2>1 DEF OnTheWay, EndedEarly
  <2> QED
    BY <2>2, <2>3 DEF Way
<1>5. ASSUME StopSpawning \/ SeeStop \/ Monitor \/ StopDispatcher
      PROVE  UNCHANGED <<ppc, accountVars>>
  BY <1>5 DEF StopSpawning, SeeStop, Monitor, StopDispatcher, accountVars
<1>6. ~KillChildren
  BY DEF KillChildren, MainAt, BooksOpen
<1>7. ASSUME (\E b \in Bus : TimePasses(b)) \/ UserSignal \/ Kill
      PROVE  UNCHANGED <<ppc, accountVars>>
  BY <1>7 DEF TimePasses, UserSignal, Kill, DispatcherUsr1, DispatcherUsr2,
     DispatcherTerm, DriverKill, accountVars
<1>8. ASSUME UNCHANGED vars PROVE UNCHANGED <<ppc, accountVars>>
  BY <1>8 DEF vars, accountVars
<1> QED
  BY <1>1, <1>2, <1>3, <1>4, <1>5, <1>6, <1>7, <1>8, <1>9
     DEF Next, Manage, MainStep

(* EverybodyAccounted: as long as the user sends one of SIGUSR2 and SIGTERM only,
   whoever was counted as created is counted once more, whatever order the
   processes run in and whichever drivers are killed: as boarded, as left, as
   waiting, or on the way to the station.                                    *)
THEOREM EverybodyTheorem ==
    ASSUME OneSignalOnly PROVE Spec => []EverybodyAccounted
<1>1. Init => EverybodyAccounted
  <2> SUFFICES ASSUME Init PROVE Accounted
    BY InitTyped, WaySets
  <2>1. /\ total_passengers_created = 0 /\ boarded_people = 0
        /\ passengers_left_early = 0 /\ passengers_waiting = 0
        /\ ppc = [p \in Passengers |-> "unborn"]
    BY DEF Init, ShmInit, OthersInit, PassengerInit
  <2>2. Way = {}
    BY <2>1 DEF Way, OnTheWay
  <2>3. {} \cap Parents = {}
    OBVIOUS
  <2>4. People(Way) = 0
    BY <2>2, <2>3, FS_EmptySet DEF People
  <2> QED
    BY <2>1, <2>4 DEF Accounted
<1>2. /\ TypeOK /\ TypeOK' /\ EndsInOrder /\ EndsInOrder' /\ AnsweredOrLost
      /\ RequestsAreHeld /\ NobodyForgotten /\ EverybodyAccounted /\ [Next]_vars
      => EverybodyAccounted'
  <2> SUFFICES ASSUME TypeOK, TypeOK', EndsInOrder, EndsInOrder', AnsweredOrLost,
                      RequestsAreHeld, NobodyForgotten, EverybodyAccounted, [Next]_vars,
                      BooksOpen'
               PROVE  EverybodyAccounted'
    BY DEF EverybodyAccounted
  <2>1. BooksOpen /\ ipc_exists
    BY StandBooks
  <2>2. Accounted
    BY <2>1, WaySets
  <2>3. Accounted'
    <3>1. CASE UNCHANGED accountVars /\ Way' = Way
      BY <2>2, <3>1 DEF Accounted, accountVars
    <3> QED
      BY <2>1, <2>2, <3>1, OthersAccount, PassengerIsAccounted, DriverAccounts
  <2> QED
    BY <2>3 DEF EverybodyAccounted, Accounted, Way
<1> QED
  BY <1>1, <1>2, SpecTyped, EndsInOrderInvariant, AnsweredTheorem,
     NobodyForgottenTheorem, PTL DEF Spec
=============================================================================
