------------------------------ MODULE CityBusQueues -----------------------------
(* The requests of the passengers, for every number of slots, passengers, buses *)
(* and offices. Slots: none is lost or given back twice, although those of one  *)
(* queue are taken and given back by different processes. Answers: a request is *)
(* in one queue, in the hands of one server, or has one response, until a       *)
(* server is killed with it. And who is counted in the office is in it.         *)
EXTENDS CityBusProofs, FiniteSetTheorems, FunctionTheorems

USE DEF shmVars, flagVars, shmFlags, counterVars, officeCounters, rideCounters,
        busVars, loadVars, ipcVars, ticketQueues, boardingQueues, driverVars,
        passengerVars, officeVars, dispatcherVars, signalFlags

(* What TypeOK says of the queues and their users.                             *)
LEMMA SlotTypes ==
    ASSUME TypeOK
    PROVE  /\ sem \in [Semaphore -> Int]
           /\ ppc \in [Passengers -> PassengerPC]
           /\ ticket_queue \in Seq(Passengers)
           /\ opc \in [Office -> OfficePC]
  BY DEF TypeOK, ShmTypeOK, PassengerTypeOK, OfficeTypeOK

-----------------------------------------------------------------------------
(* The boarding queue: a slot is taken with the request and given back with the
   response, by the passenger.                                               *)
Waiting == {p \in Passengers : ppc[p] = "board_wait"}

(* Every other step leaves the slots and their holders alone, or comes when the
   semaphores are removed, or removes them.                                  *)
NoSlotMoves ==
    \/ ~ipc_exists'
    \/ ipc_exists /\ sem'["boarding_slots"] = sem["boarding_slots"] /\ Waiting' = Waiting

LEMMA OthersKeepSlots ==
    ASSUME TypeOK, [Next]_vars,
           ~\E p \in Passengers : RequestBoarding(p) \/ ReceiveBoarding(p)
    PROVE  NoSlotMoves
<1> USE SlotTypes DEF NoSlotMoves, Waiting, PassengerAt
<1>1. ASSUME NEW p \in Passengers, Travel(p) PROVE NoSlotMoves
  <2>1. CASE Arrive(p) \/ Register(p) \/ JoinOffice(p) \/ ReceiveTicket(p)
    BY <2>1 DEF Arrive, Register, JoinOffice, ReceiveTicket
  <2>2. CASE RequestTicket(p)
    BY <2>2 DEF RequestTicket, Locked, Semaphore
  <2>3. CASE TicketRemoved(p) \/ BoardingRemoved(p)
    BY <2>3 DEF TicketRemoved, BoardingRemoved
  <2>4. CASE ClosedCheck(p) \/ FindClosed(p) \/ FindOpen(p) \/ EnterStation(p)
               \/ EntryRefused(p)
    BY <2>4 DEF ClosedCheck, FindClosed, FindOpen, EnterStation, EntryRefused, EntryFails
  <2>5. CASE BoardLoop(p) \/ FindBus(p) \/ Leave(p) \/ StopWaiting(p) \/ Join(p)
    BY <2>5 DEF BoardLoop, FindBus, Leave, StopWaiting, Join
  <2> QED
    BY <1>1, <2>1, <2>2, <2>3, <2>4, <2>5 DEF Travel, PassengerStep
<1>2. ASSUME NEW b \in Bus, Drive(b) PROVE NoSlotMoves
  <2>1. UNCHANGED <<ppc, ipc_exists>>
    BY <1>2 DEF Drive, DriverStep, DriverStart, CheckShutdown, Role, Recv,
       RecvRemoved, Grant, Deny, EntranceLock, TakeSeats, Answer, Check, Switch,
       Depart, Return, DriverExit
  <2>2. sem' = sem \/ \E p \in Passengers \cup {NoPassenger} :
                         sem' = Locked(EntranceOf(p)) \/ sem' = Unlocked(EntranceOf(p))
    <3>1. request[b].pid \in Passengers \cup {NoPassenger}
      BY DEF TypeOK, DriverTypeOK, BoardingRequest, NoRequest
    <3> QED
      BY <1>2, <3>1 DEF Drive, DriverStep, DriverStart, CheckShutdown, Role, Recv,
         RecvRemoved, Grant, Deny, EntranceLock, TakeSeats, Answer, Check, Switch,
         Depart, Return, DriverExit
  <2> QED
    BY <2>1, <2>2 DEF Locked, Unlocked, EntranceOf, Semaphore
<1>3. ASSUME NEW o \in Office, Sell(o) PROVE NoSlotMoves
  <2>1. /\ UNCHANGED <<ppc, ipc_exists>>
        /\ sem' = sem \/ sem' = Unlocked("ticket_slots")
    BY <1>3 DEF Sell, OfficeStep, OfficeCheck, TakeRequest, QueueRemoved, IssueTicket,
       DrainOne, DrainDone
  <2> QED
    BY <2>1 DEF Unlocked, Semaphore
<1>4. CASE Dispatch
  <2>1. /\ UNCHANGED ppc /\ (ipc_exists' => ipc_exists)
        /\ sem' = sem \/ sem' = [sem EXCEPT !["ticket_slots"] = WAKE_ALL]
    BY <1>4 DEF Dispatch, DispatcherStep, StopLoop, ForwardEarly, CloseStation,
       NothingToClose, WakeBlocked, CheckDriverHealth, FindOverdue, ForceDeparture,
       OverseerDone, CheckSimulationEnd, Shutdown, CleanUp
  <2> QED
    BY <2>1 DEF Semaphore
<1>8. CASE Interrupt \/ TerminateChildren
  <2>1. EndedEarly
    BY <1>8, SignalsEndEarly
  <2>2. UNCHANGED <<sem, ipc_exists>>
    BY <1>8 DEF TerminateChildren, Interrupt, DriverTerm, PassengerTerm, OfficeTerm,
       MainTerm
  <2> QED
    BY <2>1, <2>2 DEF EndedEarly
<1>5. CASE MainStep
  <2>1. ASSUME NEW p \in Passengers, SpawnPassenger(p) PROVE NoSlotMoves
    BY <2>1 DEF SpawnPassenger
  <2> QED
    BY <1>5, <2>1, <1>8 DEF MainStep, StopSpawning, SeeStop, Monitor, StopDispatcher,
       KillChildren
<1>6. CASE (\E b \in Bus : TimePasses(b)) \/ UserSignal \/ Kill
  BY <1>6 DEF TimePasses, UserSignal, Kill, DispatcherUsr1, DispatcherUsr2,
     DispatcherTerm, DriverKill
<1>7. CASE UNCHANGED vars
  BY <1>7 DEF vars
<1> QED
  BY <1>1, <1>2, <1>3, <1>4, <1>5, <1>6, <1>7, <1>8 DEF Next, Manage

LEMMA RequestTakesSlot ==
    ASSUME TypeOK, BoardingSlotsAccounted, NEW p \in Passengers, RequestBoarding(p)
    PROVE  BoardingSlotsAccounted'
<1>1. Waiting' = Waiting \cup {p} /\ p \notin Waiting
  BY SlotTypes DEF RequestBoarding, PassengerAt, Waiting
<1>2. sem'["boarding_slots"] = sem["boarding_slots"] - 1 /\ ipc_exists
  BY SlotTypes DEF RequestBoarding, CanLock, Locked, Semaphore
<1>3. IsFiniteSet(Waiting)
  BY PassengersAssumption, FS_Subset DEF Waiting
<1>4. Cardinality(Waiting') = Cardinality(Waiting) + 1 /\ Cardinality(Waiting) \in Nat
  BY <1>1, <1>3, FS_AddElement, FS_CardinalityType
<1>5. sem["boarding_slots"] \in Int
  BY SlotTypes DEF Semaphore
<1> QED
  BY <1>2, <1>4, <1>5 DEF BoardingSlotsAccounted, Waiting

LEMMA ResponseReturnsSlot ==
    ASSUME TypeOK, BoardingSlotsAccounted, NEW p \in Passengers, ReceiveBoarding(p)
    PROVE  BoardingSlotsAccounted'
<1>1. Waiting' = Waiting \ {p} /\ p \in Waiting
  BY SlotTypes DEF ReceiveBoarding, PassengerAt, Waiting
<1>2. sem'["boarding_slots"] = sem["boarding_slots"] + 1 /\ ipc_exists
  BY SlotTypes DEF ReceiveBoarding, Unlocked, Semaphore
<1>3. IsFiniteSet(Waiting)
  BY PassengersAssumption, FS_Subset DEF Waiting
<1>4. Cardinality(Waiting') = Cardinality(Waiting) - 1 /\ Cardinality(Waiting) \in Nat
  BY <1>1, <1>3, FS_RemoveElement, FS_CardinalityType
<1>5. sem["boarding_slots"] \in Int
  BY SlotTypes DEF Semaphore
<1> QED
  BY <1>2, <1>4, <1>5 DEF BoardingSlotsAccounted, Waiting

(* BoardingSlotsAccounted: at every moment the free slots and the passengers
   between request and response make up the MAX_BOARDING_QUEUE_REQUESTS.     *)
THEOREM BoardingSlotsTheorem == Spec => []BoardingSlotsAccounted
<1>1. Init => BoardingSlotsAccounted
  <2> SUFFICES ASSUME Init PROVE BoardingSlotsAccounted
    OBVIOUS
  <2>1. Waiting = {}
    BY DEF Init, OthersInit, PassengerInit, Waiting
  <2>2. sem["boarding_slots"] = MAX_BOARDING_QUEUE_REQUESTS
    BY DEF Init, ShmInit, FreshIpc, Semaphore
  <2> QED
    BY <2>1, <2>2, FS_EmptySet, SizesAssumption DEF BoardingSlotsAccounted, Waiting
<1>2. TypeOK /\ BoardingSlotsAccounted /\ [Next]_vars => BoardingSlotsAccounted'
  <2>1. ASSUME BoardingSlotsAccounted, NoSlotMoves PROVE BoardingSlotsAccounted'
    BY <2>1 DEF BoardingSlotsAccounted, NoSlotMoves, Waiting
  <2> QED
    BY <2>1, OthersKeepSlots, RequestTakesSlot, ResponseReturnsSlot
<1> QED
  BY <1>1, <1>2, SpecTyped, PTL DEF Spec

-----------------------------------------------------------------------------
(* The ticket queue: a slot is taken by the passenger and given back by the
   office, until the dispatcher overwrites their number.                     *)
Counting == ~station_closed \/ disp_pc = "wake"
TicketSlotsOf(q, s) == s["ticket_slots"] + Len(q)

(* The dispatcher is about to overwrite the semaphore only once the station is
   closed.                                                                   *)
ClosedBeforeWake == disp_pc = "wake" => station_closed

(* Every step keeps the sum of free slots and requests, is the overwriting, or
   comes when there are no semaphores after it.                              *)
SlotsAndRequestsMove ==
    /\ ipc_exists' => ipc_exists
    /\ Counting' => Counting
    /\ ClosedBeforeWake'
    /\ ipc_exists' /\ Counting' =>
          TicketSlotsOf(ticket_queue', sem') = TicketSlotsOf(ticket_queue, sem)

LEMMA RequestAndSlot ==
    ASSUME TypeOK
    PROVE  /\ \A p \in Passengers :
                TicketSlotsOf(Append(ticket_queue, p), Locked("ticket_slots"))
                  = TicketSlotsOf(ticket_queue, sem)
           /\ ticket_queue # <<>> =>
                TicketSlotsOf(Tail(ticket_queue), Unlocked("ticket_slots"))
                  = TicketSlotsOf(ticket_queue, sem)
           /\ \A s \in Semaphore \ {"ticket_slots"} :
                /\ TicketSlotsOf(ticket_queue, Locked(s)) = TicketSlotsOf(ticket_queue, sem)
                /\ TicketSlotsOf(ticket_queue, Unlocked(s)) = TicketSlotsOf(ticket_queue, sem)
<1>1. sem \in [Semaphore -> Int] /\ "ticket_slots" \in Semaphore
  BY SlotTypes DEF Semaphore
<1>2. Len(ticket_queue) \in Nat
  BY SlotTypes
<1>3. \A p \in Passengers : Len(Append(ticket_queue, p)) = Len(ticket_queue) + 1
  BY SlotTypes
<1>4. ticket_queue # <<>> => Len(Tail(ticket_queue)) = Len(ticket_queue) - 1
  BY SlotTypes, HeadTailProperties
<1> QED
  BY <1>1, <1>2, <1>3, <1>4 DEF TicketSlotsOf, Locked, Unlocked

LEMMA TicketSlotsMove ==
    ASSUME TypeOK, ClosedBeforeWake, [Next]_vars
    PROVE  SlotsAndRequestsMove
<1> USE SlotTypes, RequestAndSlot DEF SlotsAndRequestsMove, ClosedBeforeWake, Counting
<1>1. ASSUME NEW p \in Passengers, Travel(p) PROVE SlotsAndRequestsMove
  <2>1. UNCHANGED <<ipc_exists, station_closed, disp_pc>>
    BY <1>1 DEF Travel, PassengerStep, Arrive, Register, JoinOffice, RequestTicket,
       ReceiveTicket, TicketRemoved, ClosedCheck, FindClosed, FindOpen, EnterStation,
       EntryRefused, EntryFails, BoardLoop, FindBus, RequestBoarding, ReceiveBoarding,
       BoardingRemoved, Leave, StopWaiting, Join
  <2>2. CASE RequestTicket(p)
    BY <2>1, <2>2 DEF RequestTicket
  <2>3. CASE RequestBoarding(p) \/ ReceiveBoarding(p)
    BY <2>1, <2>3 DEF RequestBoarding, ReceiveBoarding, Semaphore
  <2>4. CASE ~(RequestTicket(p) \/ RequestBoarding(p) \/ ReceiveBoarding(p))
    <3>1. UNCHANGED <<sem, ticket_queue>>
      BY <1>1, <2>4 DEF Travel, PassengerStep, Arrive, Register, JoinOffice,
         ReceiveTicket, TicketRemoved, ClosedCheck, FindClosed, FindOpen, EnterStation,
         EntryRefused, EntryFails, BoardLoop, FindBus, BoardingRemoved, Leave,
         StopWaiting, Join
    <3> QED
      BY <2>1, <3>1
  <2> QED
    BY <2>2, <2>3, <2>4
<1>2. ASSUME NEW b \in Bus, Drive(b) PROVE SlotsAndRequestsMove
  <2>1. UNCHANGED <<ipc_exists, station_closed, disp_pc, ticket_queue>>
    BY <1>2 DEF Drive, DriverStep, DriverStart, CheckShutdown, Role, Recv,
       RecvRemoved, Grant, Deny, EntranceLock, TakeSeats, Answer, Check, Switch,
       Depart, Return, DriverExit
  <2>2. sem' = sem \/ \E s \in Semaphore \ {"ticket_slots"} :
                         sem' = Locked(s) \/ sem' = Unlocked(s)
    <3>1. \A p : EntranceOf(p) \in Semaphore \ {"ticket_slots"}
      BY DEF EntranceOf, Semaphore
    <3> QED
      BY <1>2, <3>1 DEF Drive, DriverStep, DriverStart, CheckShutdown, Role, Recv,
         RecvRemoved, Grant, Deny, EntranceLock, TakeSeats, Answer, Check, Switch,
         Depart, Return, DriverExit
  <2> QED
    BY <2>1, <2>2
<1>3. ASSUME NEW o \in Office, Sell(o) PROVE SlotsAndRequestsMove
  <2>1. UNCHANGED <<ipc_exists, station_closed, disp_pc>>
    BY <1>3 DEF Sell, OfficeStep, OfficeCheck, TakeRequest, QueueRemoved, IssueTicket,
       DrainOne, DrainDone
  <2>2. \/ UNCHANGED <<sem, ticket_queue>>
        \/ /\ ticket_queue # <<>>
           /\ sem' = Unlocked("ticket_slots") /\ ticket_queue' = Tail(ticket_queue)
    BY <1>3 DEF Sell, OfficeStep, OfficeCheck, TakeRequest, QueueRemoved, IssueTicket,
       DrainOne, DrainDone
  <2> QED
    BY <2>1, <2>2
<1>4. CASE Dispatch
  <2>1. CASE CloseStation
    BY <2>1 DEF CloseStation, DispatcherAt
  <2>2. CASE WakeBlocked
    BY <2>2 DEF WakeBlocked, DispatcherAt
  <2>3. CASE CleanUp
    BY <2>3 DEF CleanUp, DispatcherAt
  <2>4. CASE ~(CloseStation \/ WakeBlocked \/ CleanUp)
    <3>1. /\ UNCHANGED <<ipc_exists, station_closed, sem, ticket_queue>>
          /\ disp_pc' # "wake"
      BY <1>4, <2>4 DEF Dispatch, DispatcherStep, StopLoop, ForwardEarly,
         NothingToClose, CheckDriverHealth, FindOverdue, ForceDeparture, OverseerDone,
         CheckSimulationEnd, Shutdown, DispatcherAt
    <3> QED
      BY <3>1
  <2> QED
    BY <2>1, <2>2, <2>3, <2>4
<1>5. CASE MainStep
  <2>1. CASE KillChildren
    BY <2>1 DEF KillChildren
  <2>2. CASE ~KillChildren
    <3>1. UNCHANGED <<ipc_exists, station_closed, sem, ticket_queue, disp_pc>>
      BY <1>5, <2>2 DEF MainStep, SpawnPassenger, StopSpawning, SeeStop, Monitor,
         StopDispatcher, TerminateChildren
    <3> QED
      BY <3>1
  <2> QED
    BY <2>1, <2>2
<1>6. CASE (\E b \in Bus : TimePasses(b)) \/ UserSignal \/ Interrupt \/ Kill \/ UNCHANGED vars
  <2>1. UNCHANGED <<ipc_exists, station_closed, sem, ticket_queue, disp_pc>>
    BY <1>6 DEF TimePasses, UserSignal, Interrupt, Kill, DispatcherUsr1, DispatcherUsr2,
       DispatcherTerm, DriverTerm, PassengerTerm, OfficeTerm, MainTerm, DriverKill, vars
  <2> QED
    BY <2>1
<1> QED
  BY <1>1, <1>2, <1>3, <1>4, <1>5, <1>6 DEF Next, Manage

(* TicketSlotsAccounted: until the station is closed the free slots and the
   requests in the ticket queue make up the MAX_TICKET_QUEUE_REQUESTS.       *)
THEOREM TicketSlotsTheorem == Spec => []TicketSlotsAccounted
<1>1. Init => TicketSlotsAccounted /\ ClosedBeforeWake
  <2> SUFFICES ASSUME Init PROVE TicketSlotsAccounted /\ ClosedBeforeWake
    OBVIOUS
  <2>1. sem["ticket_slots"] = MAX_TICKET_QUEUE_REQUESTS /\ Len(ticket_queue) = 0
    BY DEF Init, ShmInit, FreshIpc, Semaphore
  <2> QED
    BY <2>1, SizesAssumption
       DEF Init, OthersInit, DispatcherInit, TicketSlotsAccounted, ClosedBeforeWake
<1>2. TypeOK /\ TicketSlotsAccounted /\ ClosedBeforeWake /\ [Next]_vars
        => (TicketSlotsAccounted /\ ClosedBeforeWake)'
  BY TicketSlotsMove
     DEF SlotsAndRequestsMove, TicketSlotsAccounted, Counting, TicketSlotsOf
<1> QED
  BY <1>1, <1>2, SpecTyped, PTL DEF Spec

-----------------------------------------------------------------------------
(* Where the members of S stand in a queue, and what sending and receiving do
   to their number.                                                          *)
Places(q, S) == {i \in 1 .. Len(q) : q[i] \in S}

LEMMA PlacesType ==
    ASSUME NEW M, NEW q \in Seq(M), NEW S
    PROVE  IsFiniteSet(Places(q, S)) /\ Cardinality(Places(q, S)) \in Nat
<1>1. IsFiniteSet(1 .. Len(q))
  BY FS_Interval
<1> QED
  BY <1>1, FS_Subset, FS_CardinalityType DEF Places

LEMMA PlacesSent ==
    ASSUME NEW M, NEW q \in Seq(M), NEW x \in M, NEW S
    PROVE  Cardinality(Places(Append(q, x), S))
             = Cardinality(Places(q, S)) + IF x \in S THEN 1 ELSE 0
<1>1. /\ Len(q) \in Nat /\ Len(Append(q, x)) = Len(q) + 1
      /\ \A i \in 1 .. Len(q) : Append(q, x)[i] = q[i]
      /\ Append(q, x)[Len(q) + 1] = x
  OBVIOUS
<1>2. Len(q) + 1 \notin Places(q, S)
  BY <1>1 DEF Places
<1>3. CASE x \in S
  <2>1. Places(Append(q, x), S) = Places(q, S) \cup {Len(q) + 1}
    BY <1>1, <1>3 DEF Places
  <2> QED
    BY <1>2, <1>3, <2>1, PlacesType, FS_AddElement
<1>4. CASE x \notin S
  <2>1. Places(Append(q, x), S) = Places(q, S)
    BY <1>1, <1>4 DEF Places
  <2> QED
    BY <1>4, <2>1, PlacesType
<1> QED
  BY <1>3, <1>4

LEMMA PlacesReceived ==
    ASSUME NEW M, NEW q \in Seq(M), q # <<>>, NEW S
    PROVE  Cardinality(Places(q, S))
             = Cardinality(Places(Tail(q), S)) + IF Head(q) \in S THEN 1 ELSE 0
<1>1. /\ Len(q) \in Nat \ {0} /\ Tail(q) \in Seq(M) /\ Len(Tail(q)) = Len(q) - 1
      /\ Head(q) = q[1] /\ \A i \in 1 .. Len(q) - 1 : Tail(q)[i] = q[i + 1]
  BY HeadTailProperties
<1> DEFINE Rest == Places(q, S) \ {1}
<1> DEFINE shift == [i \in Places(Tail(q), S) |-> i + 1]
<1>2. \A i \in Places(Tail(q), S) : i \in Int /\ i + 1 \in Rest
  BY <1>1 DEF Places
<1>3. \A j \in Rest : j - 1 \in Places(Tail(q), S) /\ (j - 1) + 1 = j
  BY <1>1 DEF Places
<1>4. ExistsBijection(Places(Tail(q), S), Rest)
  <2>1. shift \in [Places(Tail(q), S) -> Rest]
    BY <1>2
  <2>2. \A i, j \in Places(Tail(q), S) : shift[i] = shift[j] => i = j
    BY <1>2
  <2>3. \A j \in Rest : \E i \in Places(Tail(q), S) : shift[i] = j
    BY <1>3
  <2> HIDE DEF shift, Rest
  <2>4. shift \in Bijection(Places(Tail(q), S), Rest)
    BY <2>1, <2>2, <2>3, Fun_IsBij
  <2> QED
    BY <2>4, Fun_ExistsBij
<1>5. Cardinality(Rest) = Cardinality(Places(Tail(q), S))
  <2>1. IsFiniteSet(Places(Tail(q), S))
    BY <1>1, PlacesType
  <2> HIDE DEF Rest
  <2> QED
    BY <1>4, <2>1, FS_Bijection
<1>6. 1 \in Places(q, S) <=> Head(q) \in S
  BY <1>1 DEF Places
<1>7. Cardinality(Rest) = IF 1 \in Places(q, S) THEN Cardinality(Places(q, S)) - 1
                                               ELSE Cardinality(Places(q, S))
  BY PlacesType, FS_RemoveElement
<1>8. Cardinality(Places(q, S)) \in Nat
  BY PlacesType
<1> QED
  BY <1>5, <1>6, <1>7, <1>8

(* A counter moves by one when one member comes or goes.                       *)
LEMMA OneFewer ==
    ASSUME NEW S, IsFiniteSet(S), NEW x \in S, NEW T, T = S \ {x}
    PROVE  Cardinality(T) = Cardinality(S) - 1 /\ Cardinality(S) \in Nat
  BY FS_RemoveElement, FS_CardinalityType

LEMMA OneMore ==
    ASSUME NEW S, IsFiniteSet(S), NEW x, x \notin S, NEW T, T = S \cup {x}
    PROVE  Cardinality(T) = Cardinality(S) + 1 /\ Cardinality(S) \in Nat
  BY FS_AddElement, FS_CardinalityType
-----------------------------------------------------------------------------
(* The tickets. How often a passenger stands in the queue, and at how many
   counters.                                                                 *)
Placed(q, p) == Cardinality(Places(q, {p}))
Served(c, p) == Cardinality({o \in Office : c[o] = p})

LEMMA OfficesAreFinite == IsFiniteSet(Office)
  BY SizesAssumption, FS_Interval DEF Office

LEMMA TicketCounts ==
    ASSUME NEW q \in Seq(Passengers), NEW c, NEW p
    PROVE  /\ Placed(q, p) \in Nat /\ Served(c, p) \in Nat
           /\ Placed(q, p) > 0 <=> \E i \in 1 .. Len(q) : q[i] = p
           /\ Served(c, p) > 0 <=> \E o \in Office : c[o] = p
<1>1. IsFiniteSet(Places(q, {p})) /\ Placed(q, p) \in Nat
  BY PlacesType DEF Placed
<1>2. IsFiniteSet({o \in Office : c[o] = p})
  BY OfficesAreFinite, FS_Subset
<1>3. Served(c, p) \in Nat
  BY <1>2, FS_CardinalityType DEF Served
<1>4. Placed(q, p) = 0 <=> Places(q, {p}) = {}
  BY <1>1, FS_EmptySet DEF Placed
<1>5. Served(c, p) = 0 <=> {o \in Office : c[o] = p} = {}
  BY <1>2, FS_EmptySet, Zenon DEF Served
<1>6. Places(q, {p}) = {} <=> ~\E i \in 1 .. Len(q) : q[i] = p
  BY DEF Places
<1>7. {o \in Office : c[o] = p} = {} <=> ~\E o \in Office : c[o] = p
  OBVIOUS
<1>8. \A n \in Nat : n > 0 <=> n # 0
  OBVIOUS
<1>9. Placed(q, p) > 0 <=> \E i \in 1 .. Len(q) : q[i] = p
  BY <1>1, <1>4, <1>6, <1>8, Zenon
<1>10. Served(c, p) > 0 <=> \E o \in Office : c[o] = p
  BY <1>3, <1>5, <1>7, <1>8, Zenon
<1> QED
  BY <1>1, <1>3, <1>9, <1>10, Zenon

(* An office comes to serve h, or has served h.                                *)
LEMMA ServedChange ==
    ASSUME NEW c \in [Office -> Passengers \cup {NoPassenger}],
           NEW o \in Office, NEW h \in Passengers, NEW p \in Passengers
    PROVE  /\ c[o] \notin Passengers =>
                Served([c EXCEPT ![o] = h], p) = Served(c, p) + IF p = h THEN 1 ELSE 0
           /\ c[o] = h =>
                Served([c EXCEPT ![o] = NoPassenger], p)
                  = Served(c, p) - IF p = h THEN 1 ELSE 0
<1> DEFINE At(d) == {n \in Office : d[n] = p}
<1>1. IsFiniteSet(At(c)) /\ Cardinality(At(c)) \in Nat
  BY OfficesAreFinite, FS_Subset, FS_CardinalityType
<1>2. NoPassenger # p
  BY ProfilesAssumption
<1>3. ASSUME c[o] \notin Passengers
      PROVE  /\ p = h => o \notin At(c) /\ At([c EXCEPT ![o] = h]) = At(c) \cup {o}
             /\ p # h => At([c EXCEPT ![o] = h]) = At(c)
  BY <1>3
<1>4. ASSUME c[o] = h
      PROVE  /\ p = h => o \in At(c) /\ At([c EXCEPT ![o] = NoPassenger]) = At(c) \ {o}
             /\ p # h => At([c EXCEPT ![o] = NoPassenger]) = At(c)
  BY <1>2, <1>4
<1>5. \A d : Served(d, p) = Cardinality(At(d))
  BY DEF Served
<1> HIDE DEF At
<1>6. ASSUME c[o] \notin Passengers, p = h
      PROVE  Served([c EXCEPT ![o] = h], p) = Served(c, p) + 1
  <2>1. At([c EXCEPT ![o] = h]) = At(c) \cup {o} /\ o \notin At(c)
    BY <1>3, <1>6
  <2>2. Cardinality(At([c EXCEPT ![o] = h])) = Cardinality(At(c)) + 1
    BY <1>1, <2>1, OneMore, Zenon
  <2> QED
    BY <1>5, <2>2
<1>7. ASSUME c[o] = h, p = h
      PROVE  Served([c EXCEPT ![o] = NoPassenger], p) = Served(c, p) - 1
  <2>1. At([c EXCEPT ![o] = NoPassenger]) = At(c) \ {o} /\ o \in At(c)
    BY <1>4, <1>7
  <2>2. Cardinality(At([c EXCEPT ![o] = NoPassenger])) = Cardinality(At(c)) - 1
    BY <1>1, <2>1, OneFewer, Zenon
  <2> QED
    BY <1>5, <2>2
<1> QED
  BY <1>1, <1>3, <1>4, <1>5, <1>6, <1>7

(* An office has a customer exactly while it processes a request.              *)
CustomersAreServed ==
    ipc_exists => \A o \in Office : opc[o] = "process" <=> customer[o] \in Passengers

(* The steps that neither send nor receive tickets or requests.                *)
TicketsRest ==
    \/ ~ipc_exists'
    \/ /\ ipc_exists
       /\ UNCHANGED <<ticket_queue, ticket_resp, customer, passengers_in_office>>
       /\ \A p \in Passengers :
            /\ ppc'[p] = "ticket_wait" <=> ppc[p] = "ticket_wait"
            /\ ppc'[p] = "ticket_slot" <=> ppc[p] = "ticket_slot"
       /\ \A o \in Office : opc'[o] = "process" <=> opc[o] = "process"

AtTheOffice(p) == JoinOffice(p) \/ RequestTicket(p) \/ ReceiveTicket(p)
AtTheCounter(o) == TakeRequest(o) \/ IssueTicket(o) \/ DrainOne(o)

LEMMA OthersLeaveTickets ==
    ASSUME TypeOK, [Next]_vars
    PROVE  \/ \E p \in Passengers : Travel(p) /\ AtTheOffice(p)
           \/ \E o \in Office : Sell(o) /\ AtTheCounter(o)
           \/ TicketsRest
<1> USE SlotTypes DEF TicketsRest
<1>1. ASSUME NEW p \in Passengers, Travel(p), ~AtTheOffice(p) PROVE TicketsRest
  <2>1. CASE TicketRemoved(p) \/ BoardingRemoved(p)
    BY <2>1 DEF TicketRemoved, BoardingRemoved
  <2>2. CASE ~(TicketRemoved(p) \/ BoardingRemoved(p))
    <3>1. UNCHANGED <<ipc_exists, ticket_queue, ticket_resp, customer,
                      passengers_in_office, opc>>
      BY <1>1, <2>2 DEF AtTheOffice, Travel, PassengerStep, Arrive, Register, ClosedCheck,
         FindClosed, FindOpen, EnterStation, EntryRefused, EntryFails, BoardLoop, FindBus,
         RequestBoarding, ReceiveBoarding, Leave, StopWaiting, Join
    <3>2. \E from, to \in PassengerPC \ {"ticket_slot", "ticket_wait"} :
             PassengerAt(p, from, to)
      BY <1>1, <2>2 DEF AtTheOffice, Travel, PassengerStep, Arrive, Register, ClosedCheck,
         FindClosed, FindOpen, EnterStation, EntryRefused, EntryFails, BoardLoop, FindBus,
         RequestBoarding, ReceiveBoarding, Leave, StopWaiting, Join, PassengerPC,
         PassengerAt
    <3> QED
      BY <3>1, <3>2 DEF PassengerAt
  <2> QED
    BY <2>1, <2>2
<1>2. ASSUME NEW b \in Bus, Drive(b) PROVE TicketsRest
  <2>1. UNCHANGED <<ipc_exists, ticket_queue, ticket_resp, customer,
                    passengers_in_office, opc, ppc>>
    BY <1>2 DEF Drive, DriverStep, DriverStart, CheckShutdown, Role, Recv,
       RecvRemoved, Grant, Deny, EntranceLock, TakeSeats, Answer, Check, Switch,
       Depart, Return, DriverExit
  <2> QED
    BY <2>1
<1>3. ASSUME NEW o \in Office, Sell(o), ~AtTheCounter(o) PROVE TicketsRest
  <2>1. UNCHANGED <<ipc_exists, ticket_queue, ticket_resp, customer,
                    passengers_in_office, ppc>>
    BY <1>3 DEF AtTheCounter, Sell, OfficeStep, OfficeCheck, QueueRemoved, DrainDone
  <2>2. \E from, to \in OfficePC \ {"process"} : OfficeAt(o, from, to)
    BY <1>3 DEF AtTheCounter, Sell, OfficeStep, OfficeCheck, QueueRemoved, DrainDone,
       OfficePC, OfficeAt
  <2> QED
    BY <2>1, <2>2 DEF OfficeAt
<1>4. CASE Dispatch
  <2>1. /\ ipc_exists' => ipc_exists
        /\ UNCHANGED <<ticket_queue, ticket_resp, customer, passengers_in_office,
                       opc, ppc>>
    BY <1>4 DEF Dispatch, DispatcherStep, StopLoop, ForwardEarly, CloseStation,
       NothingToClose, WakeBlocked, CheckDriverHealth, FindOverdue, ForceDeparture,
       OverseerDone, CheckSimulationEnd, Shutdown, CleanUp
  <2> QED
    BY <2>1
<1>8. CASE Interrupt \/ TerminateChildren
  <2>1. EndedEarly
    BY <1>8, SignalsEndEarly
  <2>2. UNCHANGED <<ipc_exists, ticket_queue, ticket_resp, customer, passengers_in_office, opc>>
    BY <1>8 DEF TerminateChildren, Interrupt, DriverTerm, PassengerTerm, OfficeTerm,
       MainTerm
  <2> QED
    BY <2>1, <2>2 DEF EndedEarly
<1>5. CASE MainStep
  <2>1. ASSUME NEW p \in Passengers, SpawnPassenger(p) PROVE TicketsRest
    BY <2>1 DEF SpawnPassenger, PassengerAt
  <2>2. CASE KillChildren
    BY <2>2 DEF KillChildren
  <2>3. CASE StopSpawning \/ SeeStop \/ Monitor \/ StopDispatcher
    BY <2>3 DEF StopSpawning, SeeStop, Monitor, StopDispatcher
  <2> QED
    BY <1>5, <1>8, <2>1, <2>2, <2>3 DEF MainStep
<1>6. CASE (\E b \in Bus : TimePasses(b)) \/ UserSignal \/ Kill
  BY <1>6 DEF TimePasses, UserSignal, Kill, DispatcherUsr1, DispatcherUsr2,
     DispatcherTerm, DriverKill
<1>7. CASE UNCHANGED vars
  BY <1>7 DEF vars
<1> QED
  BY <1>1, <1>2, <1>3, <1>4, <1>5, <1>6, <1>7, <1>8 DEF Next, Manage

-----------------------------------------------------------------------------
(* A step of a passenger or an office moves the requests, the customers and the
   answers of one passenger p by dq, dc and dr, and nobody else's.           *)
TicketsMove(p, dq, dc, dr) ==
    \A r \in Passengers :
        /\ Placed(ticket_queue', r) = Placed(ticket_queue, r) + IF r = p THEN dq ELSE 0
        /\ Served(customer', r) = Served(customer, r) + IF r = p THEN dc ELSE 0
        /\ Len(ticket_resp'[r]) = Len(ticket_resp[r]) + IF r = p THEN dr ELSE 0

(* What TypeOK says of tickets.                                                *)
LEMMA TicketTypes ==
    ASSUME TypeOK
    PROVE  /\ ticket_queue \in Seq(Passengers)
           /\ ticket_resp \in [Passengers -> Seq(BOOLEAN)]
           /\ customer \in [Office -> Passengers \cup {NoPassenger}]
           /\ opc \in [Office -> OfficePC]
           /\ ppc \in [Passengers -> PassengerPC]
           /\ passengers_in_office \in Int
           /\ \A r \in Passengers : /\ Placed(ticket_queue, r) \in Nat
                                    /\ Served(customer, r) \in Nat
                                    /\ Len(ticket_resp[r]) \in Nat
<1>1. /\ ticket_queue \in Seq(Passengers)
      /\ ticket_resp \in [Passengers -> Seq(BOOLEAN)]
      /\ customer \in [Office -> Passengers \cup {NoPassenger}]
      /\ opc \in [Office -> OfficePC]
      /\ ppc \in [Passengers -> PassengerPC]
      /\ passengers_in_office \in Int
  BY DEF TypeOK, ShmTypeOK, PassengerTypeOK, OfficeTypeOK
<1>2. \A r \in Passengers : Len(ticket_resp[r]) \in Nat
  BY <1>1
<1> QED
  BY <1>1, <1>2, TicketCounts

(* Sending and receiving one message of one passenger.                         *)
LEMMA PlacedSent ==
    ASSUME NEW q \in Seq(Passengers), NEW p \in Passengers, NEW r
    PROVE  Placed(Append(q, p), r) = Placed(q, r) + IF r = p THEN 1 ELSE 0
  BY PlacesSent DEF Placed

LEMMA PlacedReceived ==
    ASSUME NEW q \in Seq(Passengers), q # <<>>, NEW r
    PROVE  /\ Head(q) \in Passengers
           /\ Placed(Tail(q), r) = Placed(q, r) + IF r = Head(q) THEN -1 ELSE 0
<1>1. Placed(q, r) = Placed(Tail(q), r) + IF Head(q) \in {r} THEN 1 ELSE 0
  BY PlacesReceived DEF Placed
<1>2. Head(q) \in Passengers /\ Tail(q) \in Seq(Passengers)
  BY QueueParts
<1>3. Placed(Tail(q), r) \in Nat
  BY <1>2, PlacesType DEF Placed
<1> QED
  BY <1>1, <1>2, <1>3

LEMMA AnswerSent ==
    ASSUME TypeOK, ipc_exists, NEW p \in Passengers, NEW ok \in BOOLEAN, NEW r \in Passengers
    PROVE  Len(Sent(ticket_resp, p, ok)[r]) = Len(ticket_resp[r]) + IF r = p THEN 1 ELSE 0
  BY TicketTypes DEF Sent

LEMMA RequestTicketMoves ==
    ASSUME TypeOK, NEW p \in Passengers, RequestTicket(p), UNCHANGED customer
    PROVE  TicketsMove(p, 1, 0, 0)
<1>1. /\ ticket_queue' = Append(ticket_queue, p)
      /\ UNCHANGED ticket_resp
  BY DEF RequestTicket
<1> QED
  BY <1>1, TicketTypes, PlacedSent DEF TicketsMove

LEMMA ReceiveTicketMoves ==
    ASSUME TypeOK, NEW p \in Passengers, ReceiveTicket(p), UNCHANGED customer
    PROVE  TicketsMove(p, 0, 0, -1)
<1>1. /\ UNCHANGED ticket_queue /\ ticket_resp[p] # <<>>
      /\ ticket_resp' = [ticket_resp EXCEPT ![p] = Tail(@)]
  BY DEF ReceiveTicket
<1>2. Len(Tail(ticket_resp[p])) = Len(ticket_resp[p]) - 1
  BY <1>1, TicketTypes, HeadTailProperties
<1> QED
  BY <1>1, <1>2, TicketTypes DEF TicketsMove

LEMMA TakeRequestMoves ==
    ASSUME TypeOK, CustomersAreServed, NEW o \in Office, TakeRequest(o)
    PROVE  TicketsMove(Head(ticket_queue), -1, 1, 0)
<1>1. /\ ipc_exists /\ ticket_queue # <<>> /\ opc[o] = "recv"
      /\ ticket_queue' = Tail(ticket_queue) /\ UNCHANGED ticket_resp
      /\ customer' = [customer EXCEPT ![o] = Head(ticket_queue)]
  BY DEF TakeRequest, OfficeAt
<1>2. customer[o] \notin Passengers
  BY <1>1 DEF CustomersAreServed
<1> DEFINE h == Head(ticket_queue)
<1>3. h \in Passengers
  BY <1>1, TicketTypes, PlacedReceived
<1>4. ASSUME NEW r \in Passengers
      PROVE  Placed(ticket_queue', r) = Placed(ticket_queue, r) + IF r = h THEN -1 ELSE 0
  BY <1>1, TicketTypes, PlacedReceived
<1> HIDE DEF h
<1>5. ASSUME NEW r \in Passengers
      PROVE  Served(customer', r) = Served(customer, r) + IF r = h THEN 1 ELSE 0
  <2>1. customer' = [customer EXCEPT ![o] = h]
    BY <1>1 DEF h
  <2>2. customer \in [Office -> Passengers \cup {NoPassenger}]
    BY TicketTypes
  <2> QED
    BY <1>2, <1>3, <2>1, <2>2, ServedChange
<1>6. ASSUME NEW r \in Passengers
      PROVE  Len(ticket_resp'[r]) = Len(ticket_resp[r]) + IF r = h THEN 0 ELSE 0
  BY <1>1, TicketTypes
<1>7. TicketsMove(h, -1, 1, 0)
  BY <1>4, <1>5, <1>6 DEF TicketsMove
<1> QED
  BY <1>7 DEF h

LEMMA IssueTicketMoves ==
    ASSUME TypeOK, CustomersAreServed, ipc_exists, NEW o \in Office, IssueTicket(o)
    PROVE  customer[o] \in Passengers /\ TicketsMove(customer[o], 0, -1, 1)
<1>1. /\ opc[o] = "process" /\ UNCHANGED ticket_queue
      /\ ticket_resp' = Sent(ticket_resp, customer[o], TRUE)
      /\ customer' = [customer EXCEPT ![o] = NoPassenger]
  BY DEF IssueTicket, OfficeAt
<1>2. customer[o] \in Passengers
  BY <1>1 DEF CustomersAreServed
<1>3. \A r \in Passengers :
        Served(customer', r) = Served(customer, r) + IF r = customer[o] THEN -1 ELSE 0
  <2> TAKE r \in Passengers
  <2>1. Served(customer', r) = Served(customer, r) - IF r = customer[o] THEN 1 ELSE 0
    BY <1>1, <1>2, TicketTypes, ServedChange
  <2> QED
    BY <2>1, TicketTypes
<1>4. ASSUME NEW r \in Passengers
      PROVE  Len(ticket_resp'[r])
               = Len(ticket_resp[r]) + IF r = customer[o] THEN 1 ELSE 0
  BY <1>1, <1>2, AnswerSent
<1>5. ASSUME NEW r \in Passengers
      PROVE  Placed(ticket_queue', r)
               = Placed(ticket_queue, r) + IF r = customer[o] THEN 0 ELSE 0
  BY <1>1, TicketTypes
<1> QED
  BY <1>2, <1>3, <1>4, <1>5 DEF TicketsMove

LEMMA DrainOneMoves ==
    ASSUME TypeOK, NEW o \in Office, DrainOne(o)
    PROVE  TicketsMove(Head(ticket_queue), -1, 0, 1)
<1>1. /\ ipc_exists /\ ticket_queue # <<>>
      /\ ticket_queue' = Tail(ticket_queue) /\ UNCHANGED customer
      /\ ticket_resp' = Sent(ticket_resp, Head(ticket_queue), FALSE)
  BY DEF DrainOne
<1>2. Head(ticket_queue) \in Passengers
  BY <1>1, TicketTypes, PlacedReceived
<1>3. ASSUME NEW r \in Passengers
      PROVE  Placed(ticket_queue', r)
               = Placed(ticket_queue, r) + IF r = Head(ticket_queue) THEN -1 ELSE 0
  BY <1>1, TicketTypes, PlacedReceived
<1>4. ASSUME NEW r \in Passengers
      PROVE  Len(ticket_resp'[r])
               = Len(ticket_resp[r]) + IF r = Head(ticket_queue) THEN 1 ELSE 0
  BY <1>1, <1>2, AnswerSent
<1>5. ASSUME NEW r \in Passengers
      PROVE  Served(customer', r)
               = Served(customer, r) + IF r = Head(ticket_queue) THEN 0 ELSE 0
  BY <1>1, TicketTypes
<1> QED
  BY <1>3, <1>4, <1>5 DEF TicketsMove

-----------------------------------------------------------------------------
(* All that answers or will answer the request of passenger p.                 *)
Answering(q, c, r, p) == Placed(q, p) + Served(c, p) + Len(r[p])

LEMMA TicketAnswersCounted ==
    OneTicketAnswer <=>
      (ipc_exists => \A p \in Passengers :
         Answering(ticket_queue, customer, ticket_resp, p)
           = IF ppc[p] = "ticket_wait" THEN 1 ELSE 0)
<1>1. \A q, p : Places(q, {p}) = {i \in 1 .. Len(q) : q[i] = p}
  BY DEF Places
<1>2. \A p : Answering(ticket_queue, customer, ticket_resp, p)
               = Cardinality({i \in 1 .. Len(ticket_queue) : ticket_queue[i] = p})
                   + Cardinality({o \in Office : customer[o] = p}) + Len(ticket_resp[p])
  BY <1>1 DEF Answering, Placed, Served
<1> QED
  BY <1>2, Zenon DEF OneTicketAnswer

(* A move that changes an answer only together with its passenger's wait keeps
   OneTicketAnswer.                                                          *)
LEMMA AnswersKept ==
    ASSUME TypeOK, OneTicketAnswer, ipc_exists,
           NEW p \in Passengers, NEW dq \in Int, NEW dc \in Int, NEW dr \in Int,
           TicketsMove(p, dq, dc, dr),
           \A r \in Passengers \ {p} : ppc'[r] = ppc[r],
           (IF ppc'[p] = "ticket_wait" THEN 1 ELSE 0)
             = (IF ppc[p] = "ticket_wait" THEN 1 ELSE 0) + dq + dc + dr
    PROVE  OneTicketAnswer'
<1>1. ASSUME NEW r \in Passengers
      PROVE  Answering(ticket_queue', customer', ticket_resp', r)
               = IF ppc'[r] = "ticket_wait" THEN 1 ELSE 0
  <2>1. Answering(ticket_queue, customer, ticket_resp, r)
          = IF ppc[r] = "ticket_wait" THEN 1 ELSE 0
    BY TicketAnswersCounted
  <2>2. CASE r = p
    BY <2>1, <2>2, TicketTypes DEF TicketsMove, Answering
  <2>3. CASE r # p
    <3>1. ppc'[r] = ppc[r]
      BY <2>3
    <3> QED
      BY <2>1, <2>3, <3>1, TicketTypes DEF TicketsMove, Answering
  <2> QED
    BY <2>2, <2>3
<1>2. \A q, r : Places(q, {r}) = {i \in 1 .. Len(q) : q[i] = r}
  BY DEF Places
<1> QED
  BY <1>1, <1>2 DEF OneTicketAnswer, Answering, Placed, Served

(* At a ticket request, its answer, and everything between them.               *)
LEMMA TicketStep ==
    ASSUME TypeOK, OneTicketAnswer, CustomersAreServed, [Next]_vars
    PROVE  OneTicketAnswer' /\ CustomersAreServed'
<1>1. ASSUME NEW p \in Passengers, Travel(p), AtTheOffice(p)
      PROVE  OneTicketAnswer' /\ CustomersAreServed'
  <2>1. UNCHANGED <<customer, opc>>
    BY <1>1 DEF Travel
  <2>2. UNCHANGED ipc_exists
    BY <1>1 DEF AtTheOffice, JoinOffice, RequestTicket, ReceiveTicket
  <2>3. CASE JoinOffice(p)
    <3>1. /\ UNCHANGED <<ticket_queue, ticket_resp>>
          /\ ppc[p] = "office" /\ ppc' = [ppc EXCEPT ![p] = "ticket_slot"]
      BY <2>3 DEF JoinOffice, PassengerAt
    <3>2. \A r \in Passengers : ppc'[r] = "ticket_wait" <=> ppc[r] = "ticket_wait"
      BY <3>1, TicketTypes
    <3> QED
      BY <2>1, <2>2, <3>1, <3>2 DEF OneTicketAnswer, CustomersAreServed
  <2>4. CASE RequestTicket(p)
    <3>1. /\ ipc_exists /\ ppc[p] = "ticket_slot"
          /\ ppc' = [ppc EXCEPT ![p] = "ticket_wait"]
      BY <2>4 DEF RequestTicket, PassengerAt, CanLock
    <3>2. TicketsMove(p, 1, 0, 0)
      BY <2>1, <2>4, RequestTicketMoves
    <3>3. OneTicketAnswer'
      BY <3>1, <3>2, TicketTypes, AnswersKept
    <3> QED
      BY <2>1, <2>2, <3>3 DEF CustomersAreServed
  <2>5. CASE ReceiveTicket(p)
    <3>1. /\ ipc_exists /\ ppc[p] = "ticket_wait"
          /\ \E to \in {"closed_check", "leave"} : ppc' = [ppc EXCEPT ![p] = to]
      BY <2>5 DEF ReceiveTicket, PassengerAt
    <3>2. TicketsMove(p, 0, 0, -1)
      BY <2>1, <2>5, ReceiveTicketMoves
    <3>3. OneTicketAnswer'
      BY <3>1, <3>2, TicketTypes, AnswersKept
    <3> QED
      BY <2>1, <2>2, <3>3 DEF CustomersAreServed
  <2> QED
    BY <1>1, <2>3, <2>4, <2>5 DEF AtTheOffice
<1>2. ASSUME NEW o \in Office, Sell(o), AtTheCounter(o)
      PROVE  OneTicketAnswer' /\ CustomersAreServed'
  <2>1. UNCHANGED <<ppc, ipc_exists>>
    BY <1>2 DEF Sell, AtTheCounter, TakeRequest, IssueTicket, DrainOne
  <2>2. CASE ~ipc_exists
    BY <2>1, <2>2 DEF OneTicketAnswer, CustomersAreServed
  <2>3. CASE ipc_exists /\ TakeRequest(o)
    <3>1. /\ opc' = [opc EXCEPT ![o] = "process"] /\ ticket_queue # <<>>
          /\ customer' = [customer EXCEPT ![o] = Head(ticket_queue)]
      BY <2>3 DEF TakeRequest, OfficeAt
    <3>2. Head(ticket_queue) \in Passengers
      BY <3>1, TicketTypes, PlacedReceived
    <3>3. CustomersAreServed'
      BY <2>1, <2>3, <3>1, <3>2, TicketTypes DEF CustomersAreServed
    <3>4. TicketsMove(Head(ticket_queue), -1, 1, 0)
      BY <2>3, TakeRequestMoves
    <3>5. OneTicketAnswer'
      BY <2>1, <2>3, <3>2, <3>4, TicketTypes, AnswersKept
    <3> QED
      BY <3>3, <3>5
  <2>4. CASE ipc_exists /\ IssueTicket(o)
    <3>1. /\ opc' = [opc EXCEPT ![o] = "top"]
          /\ customer' = [customer EXCEPT ![o] = NoPassenger]
      BY <2>4 DEF IssueTicket, OfficeAt
    <3>2. CustomersAreServed'
      BY <2>1, <2>4, <3>1, TicketTypes, ProfilesAssumption DEF CustomersAreServed
    <3>3. customer[o] \in Passengers /\ TicketsMove(customer[o], 0, -1, 1)
      BY <2>4, IssueTicketMoves
    <3>4. OneTicketAnswer'
      BY <2>1, <2>4, <3>3, TicketTypes, AnswersKept
    <3> QED
      BY <3>2, <3>4
  <2>5. CASE ipc_exists /\ DrainOne(o)
    <3>1. UNCHANGED <<opc, customer>> /\ ticket_queue # <<>>
      BY <2>5 DEF DrainOne
    <3>2. CustomersAreServed'
      BY <2>1, <3>1 DEF CustomersAreServed
    <3>3. Head(ticket_queue) \in Passengers
      BY <3>1, TicketTypes, PlacedReceived
    <3>4. TicketsMove(Head(ticket_queue), -1, 0, 1)
      BY <2>5, DrainOneMoves
    <3>5. OneTicketAnswer'
      BY <2>1, <2>5, <3>3, <3>4, TicketTypes, AnswersKept
    <3> QED
      BY <3>2, <3>5
  <2> QED
    BY <1>2, <2>2, <2>3, <2>4, <2>5 DEF AtTheCounter
<1>3. CASE TicketsRest
  <2>1. CASE ~ipc_exists'
    BY <2>1 DEF OneTicketAnswer, CustomersAreServed
  <2>2. CASE ipc_exists'
    <3>1. /\ ipc_exists
          /\ UNCHANGED <<ticket_queue, ticket_resp, customer>>
          /\ \A p \in Passengers : ppc'[p] = "ticket_wait" <=> ppc[p] = "ticket_wait"
          /\ \A o \in Office : opc'[o] = "process" <=> opc[o] = "process"
      BY <1>3, <2>2, Zenon DEF TicketsRest
    <3>2. CustomersAreServed'
      BY <3>1 DEF CustomersAreServed
    <3>3. OneTicketAnswer'
      BY <3>1, Zenon DEF OneTicketAnswer
    <3> QED
      BY <3>2, <3>3
  <2> QED
    BY <2>1, <2>2
<1> QED
  BY <1>1, <1>2, <1>3, OthersLeaveTickets

(* OneTicketAnswer: whatever signals arrive and whoever dies, a passenger that
   waits for its ticket has one request, one clerk or one answer.            *)
THEOREM OneTicketAnswerTheorem == Spec => [](OneTicketAnswer /\ CustomersAreServed)
<1>1. Init => OneTicketAnswer /\ CustomersAreServed
  <2> SUFFICES ASSUME Init PROVE OneTicketAnswer /\ CustomersAreServed
    OBVIOUS
  <2>1. /\ ticket_queue = <<>> /\ customer = [o \in Office |-> NoPassenger]
        /\ ticket_resp = [p \in Passengers |-> <<>>]
        /\ ppc = [p \in Passengers |-> "unborn"] /\ opc = [o \in Office |-> "top"]
    BY DEF Init, ShmInit, FreshIpc, OthersInit, PassengerInit, OfficeInit
  <2>2. ASSUME NEW p \in Passengers
        PROVE  /\ {i \in 1 .. Len(ticket_queue) : ticket_queue[i] = p} = {}
               /\ {o \in Office : customer[o] = p} = {}
               /\ Len(ticket_resp[p]) = 0 /\ ppc[p] # "ticket_wait"
    BY <2>1, ProfilesAssumption
  <2>3. OneTicketAnswer
    <3>1. ASSUME NEW p \in Passengers
          PROVE  Cardinality({i \in 1 .. Len(ticket_queue) : ticket_queue[i] = p})
                   + Cardinality({o \in Office : customer[o] = p}) + Len(ticket_resp[p]) = 0
      <4>1. /\ Cardinality({i \in 1 .. Len(ticket_queue) : ticket_queue[i] = p}) = 0
            /\ Cardinality({o \in Office : customer[o] = p}) = 0
        BY <2>2, FS_EmptySet, Zenon
      <4> QED
        BY <2>2, <4>1
    <3> QED
      BY <2>2, <3>1, Zenon DEF OneTicketAnswer
  <2>4. CustomersAreServed
    BY <2>1, ProfilesAssumption DEF CustomersAreServed
  <2> QED
    BY <2>3, <2>4
<1>2. TypeOK /\ OneTicketAnswer /\ CustomersAreServed /\ [Next]_vars
        => (OneTicketAnswer /\ CustomersAreServed)'
  BY TicketStep
<1> QED
  BY <1>1, <1>2, SpecTyped, PTL DEF Spec

-----------------------------------------------------------------------------
(* The passengers in the office: one joins, one is served or turned away.      *)
LEMMA AtOfficeCounted ==
    ASSUME TypeOK, NEW r \in Passengers
    PROVE  AtOffice(r) <=> \/ ppc[r] = "ticket_slot"
                           \/ Placed(ticket_queue, r) > 0
                           \/ Served(customer, r) > 0
<1>1. ticket_queue \in Seq(Passengers)
  BY TicketTypes
<1> QED
  BY <1>1, TicketCounts, Zenon DEF AtOffice

LEMMA AtOfficeCountedNext ==
    ASSUME TypeOK', NEW r \in Passengers
    PROVE  AtOffice(r)' <=> \/ ppc'[r] = "ticket_slot"
                            \/ Placed(ticket_queue', r) > 0
                            \/ Served(customer', r) > 0
<1>1. ticket_queue' \in Seq(Passengers)
  BY DEF TypeOK, ShmTypeOK
<1> QED
  BY <1>1, TicketCounts, Zenon DEF AtOffice

(* Nobody but p comes or goes with a move of p's messages.                     *)
LEMMA OthersStayInOffice ==
    ASSUME TypeOK, TypeOK', NEW p, NEW dq, NEW dc, NEW dr,
           TicketsMove(p, dq, dc, dr), NEW r \in Passengers, r # p, ppc'[r] = ppc[r]
    PROVE  AtOffice(r)' <=> AtOffice(r)
<1>1. /\ Placed(ticket_queue', r) = Placed(ticket_queue, r)
      /\ Served(customer', r) = Served(customer, r)
  BY TicketTypes DEF TicketsMove
<1> QED
  BY <1>1, AtOfficeCounted, AtOfficeCountedNext

InOffice == {p \in Passengers : AtOffice(p)}

LEMMA InOfficeFinite == IsFiniteSet(InOffice)
  BY PassengersAssumption, FS_Subset DEF InOffice

(* A step at which p stays in the office or out of it, and the counter stays.  *)
LEMMA OfficeStays ==
    ASSUME InOfficeIsExact, ipc_exists, NEW p \in Passengers,
           UNCHANGED passengers_in_office,
           \A r \in Passengers \ {p} : AtOffice(r)' <=> AtOffice(r),
           AtOffice(p)' <=> AtOffice(p)
    PROVE  InOfficeIsExact'
<1>1. InOffice' = InOffice
  BY DEF InOffice
<1> QED
  BY <1>1 DEF InOfficeIsExact, InOffice

LEMMA OfficeJoined ==
    ASSUME InOfficeIsExact, ipc_exists, NEW p \in Passengers,
           passengers_in_office' = passengers_in_office + 1,
           \A r \in Passengers \ {p} : AtOffice(r)' <=> AtOffice(r),
           AtOffice(p)', ~AtOffice(p)
    PROVE  InOfficeIsExact'
<1>1. InOffice' = InOffice \cup {p} /\ p \notin InOffice
  BY DEF InOffice
<1>2. Cardinality(InOffice') = Cardinality(InOffice) + 1
  BY <1>1, InOfficeFinite, OneMore
<1> QED
  BY <1>2 DEF InOfficeIsExact, InOffice

LEMMA OfficeLeft ==
    ASSUME InOfficeIsExact, ipc_exists, NEW p \in Passengers,
           passengers_in_office' = passengers_in_office - 1,
           \A r \in Passengers \ {p} : AtOffice(r)' <=> AtOffice(r),
           ~AtOffice(p)', AtOffice(p)
    PROVE  InOfficeIsExact'
<1>1. InOffice' = InOffice \ {p} /\ p \in InOffice
  BY DEF InOffice
<1>2. Cardinality(InOffice') = Cardinality(InOffice) - 1
  BY <1>1, InOfficeFinite, OneFewer
<1> QED
  BY <1>2 DEF InOfficeIsExact, InOffice

(* One place at most, and none without a request.                              *)
LEMMA OnePlace ==
    ASSUME TypeOK, OneTicketAnswer, ipc_exists, NEW p \in Passengers
    PROVE  /\ Placed(ticket_queue, p) + Served(customer, p) + Len(ticket_resp[p])
                = IF ppc[p] = "ticket_wait" THEN 1 ELSE 0
           /\ Placed(ticket_queue, p) \in Nat /\ Served(customer, p) \in Nat
           /\ Len(ticket_resp[p]) \in Nat
  BY TicketAnswersCounted, TicketTypes DEF Answering

LEMMA OfficeOfPassenger ==
    ASSUME TypeOK, TypeOK', OneTicketAnswer, InOfficeIsExact, ipc_exists,
           NEW p \in Passengers, Travel(p), AtTheOffice(p)
    PROVE  InOfficeIsExact'
<1>1. UNCHANGED customer
  BY DEF Travel
<1>2. CASE JoinOffice(p)
  <2>1. /\ UNCHANGED <<ticket_queue, ticket_resp>>
        /\ ppc[p] = "office" /\ ppc' = [ppc EXCEPT ![p] = "ticket_slot"]
        /\ passengers_in_office' = passengers_in_office + 1
    BY <1>2 DEF JoinOffice, PassengerAt
  <2>2. ASSUME NEW r \in Passengers \ {p} PROVE AtOffice(r)' <=> AtOffice(r)
    <3>1. ppc'[r] = ppc[r]
      BY <2>1, TicketTypes
    <3> QED
      BY <1>1, <2>1, <3>1 DEF AtOffice
  <2>3. AtOffice(p)' /\ ~AtOffice(p)
    <3>1. ppc'[p] = "ticket_slot"
      BY <2>1, TicketTypes
    <3>2. Placed(ticket_queue, p) = 0 /\ Served(customer, p) = 0
      BY <2>1, OnePlace
    <3> QED
      BY <2>1, <3>1, <3>2, AtOfficeCounted, AtOfficeCountedNext
  <2> QED
    BY <2>1, <2>2, <2>3, OfficeJoined
<1>3. CASE RequestTicket(p)
  <2>1. /\ ppc[p] = "ticket_slot" /\ ppc' = [ppc EXCEPT ![p] = "ticket_wait"]
        /\ UNCHANGED passengers_in_office
    BY <1>3 DEF RequestTicket, PassengerAt
  <2>2. TicketsMove(p, 1, 0, 0)
    BY <1>1, <1>3, RequestTicketMoves
  <2>3. \A r \in Passengers \ {p} : AtOffice(r)' <=> AtOffice(r)
    <3> TAKE r \in Passengers \ {p}
    <3>1. ppc'[r] = ppc[r]
      BY <2>1, TicketTypes
    <3> QED
      BY <2>2, <3>1, OthersStayInOffice
  <2>4. Placed(ticket_queue', p) > 0
    BY <2>2, TicketTypes DEF TicketsMove
  <2>5. AtOffice(p)' /\ AtOffice(p)
    BY <2>1, <2>4, AtOfficeCounted, AtOfficeCountedNext
  <2> QED
    BY <2>1, <2>3, <2>5, OfficeStays
<1>4. CASE ReceiveTicket(p)
  <2>1. /\ ppc[p] = "ticket_wait" /\ UNCHANGED passengers_in_office
        /\ \E to \in {"closed_check", "leave"} : ppc' = [ppc EXCEPT ![p] = to]
        /\ ticket_resp[p] # <<>>
    BY <1>4 DEF ReceiveTicket, PassengerAt
  <2>2. TicketsMove(p, 0, 0, -1)
    BY <1>1, <1>4, ReceiveTicketMoves
  <2>3. \A r \in Passengers \ {p} : AtOffice(r)' <=> AtOffice(r)
    <3> TAKE r \in Passengers \ {p}
    <3>1. ppc'[r] = ppc[r]
      BY <2>1, TicketTypes
    <3> QED
      BY <2>2, <3>1, OthersStayInOffice
  <2>4. /\ Placed(ticket_queue', p) = Placed(ticket_queue, p)
        /\ Served(customer', p) = Served(customer, p)
    BY <2>2, TicketTypes DEF TicketsMove
  <2>5. ppc'[p] # "ticket_slot" /\ ppc[p] # "ticket_slot"
    BY <2>1, TicketTypes
  <2>6. AtOffice(p)' <=> AtOffice(p)
    BY <2>4, <2>5, AtOfficeCounted, AtOfficeCountedNext
  <2> QED
    BY <2>1, <2>3, <2>6, OfficeStays
<1> QED
  BY <1>2, <1>3, <1>4 DEF AtTheOffice

LEMMA OfficeOfClerk ==
    ASSUME TypeOK, TypeOK', OneTicketAnswer, CustomersAreServed, InOfficeIsExact,
           ipc_exists, NEW o \in Office, Sell(o), AtTheCounter(o)
    PROVE  InOfficeIsExact'
<1>1. UNCHANGED ppc
  BY DEF Sell
<1>2. CASE TakeRequest(o)
  <2>1. ticket_queue # <<>> /\ UNCHANGED passengers_in_office
    BY <1>2 DEF TakeRequest
  <2>2. PICK p \in Passengers : p = Head(ticket_queue) /\ TicketsMove(p, -1, 1, 0)
    BY <1>2, <2>1, TicketTypes, PlacedReceived, TakeRequestMoves
  <2>3. Placed(ticket_queue, p) > 0
    <3>1. ticket_queue \in Seq(Passengers) /\ Len(ticket_queue) > 0
      BY <2>1, TicketTypes
    <3>2. ticket_queue[1] = p /\ 1 \in 1 .. Len(ticket_queue)
      BY <2>2, <3>1
    <3> QED
      BY <3>1, <3>2, TicketCounts
  <2>4. Served(customer', p) > 0
    BY <2>2, TicketTypes DEF TicketsMove
  <2>5. AtOffice(p)' /\ AtOffice(p)
    BY <2>2, <2>3, <2>4, AtOfficeCounted, AtOfficeCountedNext
  <2>6. \A r \in Passengers \ {p} : AtOffice(r)' <=> AtOffice(r)
    BY <1>1, <2>2, OthersStayInOffice
  <2> QED
    BY <2>1, <2>2, <2>5, <2>6, OfficeStays
<1>3. CASE IssueTicket(o)
  <2>1. passengers_in_office' = passengers_in_office - 1
    BY <1>3 DEF IssueTicket
  <2>2. PICK p \in Passengers : p = customer[o] /\ TicketsMove(p, 0, -1, 1)
    BY <1>3, IssueTicketMoves
  <2>3. Served(customer, p) > 0
    <3>1. ticket_queue \in Seq(Passengers)
      BY TicketTypes
    <3> QED
      BY <2>2, <3>1, TicketCounts
  <2>4. /\ ppc[p] = "ticket_wait" /\ Placed(ticket_queue, p) = 0
        /\ Served(customer, p) = 1
    BY <2>2, <2>3, OnePlace
  <2>5. Served(customer', p) = 0 /\ Placed(ticket_queue', p) = 0
    <3>1. /\ Served(customer', p) = Served(customer, p) + IF p = p THEN -1 ELSE 0
          /\ Placed(ticket_queue', p) = Placed(ticket_queue, p) + IF p = p THEN 0 ELSE 0
      BY <2>2, Zenon DEF TicketsMove
    <3> QED
      BY <2>4, <3>1
  <2>6. AtOffice(p) /\ ~AtOffice(p)'
    BY <1>1, <2>2, <2>3, <2>4, <2>5, AtOfficeCounted, AtOfficeCountedNext
  <2>7. \A r \in Passengers \ {p} : AtOffice(r)' <=> AtOffice(r)
    BY <1>1, <2>2, OthersStayInOffice
  <2> QED
    BY <2>1, <2>2, <2>6, <2>7, OfficeLeft
<1>4. CASE DrainOne(o)
  <2>1. /\ ticket_queue # <<>>
        /\ passengers_in_office' = passengers_in_office - 1
    BY <1>4 DEF DrainOne
  <2>2. PICK p \in Passengers : p = Head(ticket_queue) /\ TicketsMove(p, -1, 0, 1)
    BY <1>4, <2>1, TicketTypes, PlacedReceived, DrainOneMoves
  <2>3. Placed(ticket_queue, p) > 0
    <3>1. ticket_queue \in Seq(Passengers) /\ Len(ticket_queue) > 0
      BY <2>1, TicketTypes
    <3>2. ticket_queue[1] = p /\ 1 \in 1 .. Len(ticket_queue)
      BY <2>2, <3>1
    <3> QED
      BY <3>1, <3>2, TicketCounts
  <2>4. /\ ppc[p] = "ticket_wait" /\ Placed(ticket_queue, p) = 1
        /\ Served(customer, p) = 0
    BY <2>2, <2>3, OnePlace
  <2>5. Served(customer', p) = 0 /\ Placed(ticket_queue', p) = 0
    <3>1. /\ Served(customer', p) = Served(customer, p) + IF p = p THEN 0 ELSE 0
          /\ Placed(ticket_queue', p) = Placed(ticket_queue, p) + IF p = p THEN -1 ELSE 0
      BY <2>2, Zenon DEF TicketsMove
    <3> QED
      BY <2>4, <3>1
  <2>6. AtOffice(p) /\ ~AtOffice(p)'
    BY <1>1, <2>2, <2>3, <2>4, <2>5, AtOfficeCounted, AtOfficeCountedNext
  <2>7. \A r \in Passengers \ {p} : AtOffice(r)' <=> AtOffice(r)
    BY <1>1, <2>2, OthersStayInOffice
  <2> QED
    BY <2>1, <2>2, <2>6, <2>7, OfficeLeft
<1> QED
  BY <1>2, <1>3, <1>4 DEF AtTheCounter

LEMMA InOfficeStep ==
    ASSUME TypeOK, TypeOK', OneTicketAnswer, CustomersAreServed, [Next]_vars,
           InOfficeIsExact
    PROVE  InOfficeIsExact'
<1>1. CASE ~ipc_exists'
  BY <1>1 DEF InOfficeIsExact
<1>2. ASSUME ipc_exists', NEW p \in Passengers, Travel(p), AtTheOffice(p)
      PROVE  InOfficeIsExact'
  <2>1. ipc_exists
    BY <1>2 DEF AtTheOffice, JoinOffice, RequestTicket, ReceiveTicket
  <2> QED
    BY <1>2, <2>1, OfficeOfPassenger
<1>3. ASSUME ipc_exists', NEW o \in Office, Sell(o), AtTheCounter(o)
      PROVE  InOfficeIsExact'
  <2>1. ipc_exists
    BY <1>3 DEF AtTheCounter, TakeRequest, IssueTicket, DrainOne
  <2> QED
    BY <1>3, <2>1, OfficeOfClerk
<1>4. CASE TicketsRest /\ ipc_exists'
  <2>1. \A p \in Passengers : AtOffice(p)' <=> AtOffice(p)
    BY <1>4 DEF TicketsRest, AtOffice
  <2>2. InOffice' = InOffice
    BY <2>1 DEF InOffice
  <2> QED
    BY <1>4, <2>2 DEF TicketsRest, InOfficeIsExact, InOffice
<1> QED
  BY <1>1, <1>2, <1>3, <1>4, OthersLeaveTickets

(* InOfficeIsExact: passengers_in_office, which passengers and offices change
   in turns, is the number of passengers that queue for a ticket or stand at a
   counter, for as long as the queues exist.                                 *)
THEOREM InOfficeTheorem == Spec => []InOfficeIsExact
<1>1. Init => InOfficeIsExact
  <2> SUFFICES ASSUME Init PROVE InOfficeIsExact
    OBVIOUS
  <2>1. /\ ticket_queue = <<>> /\ customer = [o \in Office |-> NoPassenger]
        /\ ppc = [p \in Passengers |-> "unborn"] /\ passengers_in_office = 0
    BY DEF Init, ShmInit, FreshIpc, OthersInit, PassengerInit, OfficeInit
  <2>2. {p \in Passengers : AtOffice(p)} = {}
    BY <2>1, ProfilesAssumption DEF AtOffice
  <2> QED
    BY <2>1, <2>2, FS_EmptySet DEF InOfficeIsExact
<1>2. /\ TypeOK /\ TypeOK' /\ OneTicketAnswer /\ CustomersAreServed /\ [Next]_vars
      /\ InOfficeIsExact
      => InOfficeIsExact'
  BY InOfficeStep
<1> QED
  BY <1>1, <1>2, SpecTyped, OneTicketAnswerTheorem, PTL DEF Spec

-----------------------------------------------------------------------------
(* The boarding requests. How many of a passenger's are in the queue, and how
   many drivers hold one.                                                    *)
Asking(p) == [pid : {p}, has_ticket : BOOLEAN]
Queued(q, p) == Cardinality(Places(q[MTypeOf(p)], Asking(p)))
Held(rq, p) == Cardinality({b \in Bus : rq[b].pid = p})

LEMMA BoardingTypes ==
    ASSUME TypeOK
    PROVE  /\ boarding_queue \in [BoardingType -> Seq(BoardingRequest)]
           /\ boarding_resp \in [Passengers -> Seq(BoardingResponse)]
           /\ request \in [Bus -> BoardingRequest \cup {NoRequest}]
           /\ dpc \in [Bus -> DriverPC]
           /\ ppc \in [Passengers -> PassengerPC]
  BY DEF TypeOK, ShmTypeOK, DriverTypeOK, PassengerTypeOK

LEMMA BusesAreFinite == IsFiniteSet(Bus)
  BY SizesAssumption, FS_Interval DEF Bus

LEMMA MTypes == \A p : MTypeOf(p) \in BoardingType
  BY DEF MTypeOf, BoardingType

LEMMA BoardingCounts ==
    ASSUME TypeOK, NEW p \in Passengers
    PROVE  /\ Queued(boarding_queue, p) \in Nat
           /\ Held(request, p) \in Nat
           /\ Len(boarding_resp[p]) \in Nat
           /\ Queued(boarding_queue, p) = InBoardingQueue(p)
           /\ Held(request, p) = InAnyHands(p)
           /\ Held(request, p) > 0 <=> \E b \in Bus : request[b].pid = p
           /\ \A b, c \in Bus : Held(request, p) <= 1 /\ request[b].pid = p
                                /\ request[c].pid = p => b = c
<1>1. boarding_queue[MTypeOf(p)] \in Seq(BoardingRequest)
  BY BoardingTypes, MTypes
<1>2. Queued(boarding_queue, p) \in Nat
  BY <1>1, PlacesType DEF Queued
<1> DEFINE H == {b \in Bus : request[b].pid = p}
<1>3. IsFiniteSet(H) /\ Cardinality(H) \in Nat
  BY BusesAreFinite, FS_Subset, FS_CardinalityType
<1>4. Held(request, p) = Cardinality(H)
  BY DEF Held
<1>5. Places(boarding_queue[MTypeOf(p)], Asking(p))
        = {i \in 1 .. Len(boarding_queue[MTypeOf(p)]) : boarding_queue[MTypeOf(p)][i].pid = p}
  <2>1. \A i \in 1 .. Len(boarding_queue[MTypeOf(p)]) :
           boarding_queue[MTypeOf(p)][i] \in BoardingRequest
    BY <1>1
  <2>2. \A r \in BoardingRequest : r \in Asking(p) <=> r.pid = p
    BY DEF BoardingRequest, Asking
  <2> QED
    BY <2>1, <2>2 DEF Places
<1>6. Held(request, p) > 0 <=> \E b \in Bus : request[b].pid = p
  <2>1. Cardinality(H) = 0 <=> H = {}
    BY <1>3, FS_EmptySet
  <2>2. H = {} <=> ~\E b \in Bus : request[b].pid = p
    OBVIOUS
  <2> HIDE DEF H
  <2> QED
    BY <1>3, <1>4, <2>1, <2>2
<1>7. ASSUME NEW b \in Bus, NEW c \in Bus, Held(request, p) <= 1,
             request[b].pid = p, request[c].pid = p
      PROVE  b = c
  <2>1. b \in H /\ c \in H
    BY <1>7
  <2> HIDE DEF H
  <2>2. Cardinality(H \ {b}) = Cardinality(H) - 1
    BY <1>3, <2>1, OneFewer, Zenon
  <2>3. IsFiniteSet(H \ {b})
    BY <1>3, FS_Subset
  <2>4. Cardinality(H \ {b}) = 0
    <3>1. Cardinality(H \ {b}) \in Nat
      BY <2>3, FS_CardinalityType
    <3> QED
      BY <1>3, <1>4, <1>7, <2>2, <3>1
  <2>5. H \ {b} = {}
    BY <2>3, <2>4, FS_EmptySet
  <2> QED
    BY <2>1, <2>5
<1>8. Len(boarding_resp[p]) \in Nat
  BY BoardingTypes
<1>9. Queued(boarding_queue, p) = InBoardingQueue(p)
  BY <1>5 DEF Queued, InBoardingQueue
<1>10. Held(request, p) = InAnyHands(p)
  BY DEF Held, InAnyHands
<1> QED
  BY <1>2, <1>3, <1>4, <1>6, <1>7, <1>8, <1>9, <1>10

(* A driver comes to hold a request of p, or has answered it.                  *)
LEMMA HeldChange ==
    ASSUME NEW rq \in [Bus -> BoardingRequest \cup {NoRequest}],
           NEW b \in Bus, NEW x \in BoardingRequest, NEW p \in Passengers
    PROVE  /\ rq[b].pid \notin Passengers =>
                Held([rq EXCEPT ![b] = x], p) = Held(rq, p) + IF p = x.pid THEN 1 ELSE 0
           /\ rq[b] = x =>
                Held([rq EXCEPT ![b] = NoRequest], p)
                  = Held(rq, p) + IF p = x.pid THEN -1 ELSE 0
<1> DEFINE At(d) == {n \in Bus : d[n].pid = p}
<1>1. IsFiniteSet(At(rq)) /\ Cardinality(At(rq)) \in Nat
  BY BusesAreFinite, FS_Subset, FS_CardinalityType
<1>2. NoRequest.pid # p
  BY ProfilesAssumption DEF NoRequest
<1>3. ASSUME rq[b].pid \notin Passengers
      PROVE  /\ p = x.pid => b \notin At(rq) /\ At([rq EXCEPT ![b] = x]) = At(rq) \cup {b}
             /\ p # x.pid => At([rq EXCEPT ![b] = x]) = At(rq)
  BY <1>3
<1>4. ASSUME rq[b] = x
      PROVE  /\ p = x.pid => b \in At(rq) /\ At([rq EXCEPT ![b] = NoRequest]) = At(rq) \ {b}
             /\ p # x.pid => At([rq EXCEPT ![b] = NoRequest]) = At(rq)
  BY <1>2, <1>4
<1>5. \A d : Held(d, p) = Cardinality(At(d))
  BY DEF Held
<1> HIDE DEF At
<1>6. ASSUME rq[b].pid \notin Passengers, p = x.pid
      PROVE  Held([rq EXCEPT ![b] = x], p) = Held(rq, p) + 1
  <2>1. At([rq EXCEPT ![b] = x]) = At(rq) \cup {b} /\ b \notin At(rq)
    BY <1>3, <1>6
  <2>2. Cardinality(At([rq EXCEPT ![b] = x])) = Cardinality(At(rq)) + 1
    BY <1>1, <2>1, OneMore, Zenon
  <2> QED
    BY <1>5, <2>2
<1>7. ASSUME rq[b] = x, p = x.pid
      PROVE  Held([rq EXCEPT ![b] = NoRequest], p) = Held(rq, p) - 1
  <2>1. At([rq EXCEPT ![b] = NoRequest]) = At(rq) \ {b} /\ b \in At(rq)
    BY <1>4, <1>7
  <2>2. Cardinality(At([rq EXCEPT ![b] = NoRequest])) = Cardinality(At(rq)) - 1
    BY <1>1, <2>1, OneFewer, Zenon
  <2> QED
    BY <1>5, <2>2
<1> QED
  BY <1>1, <1>3, <1>4, <1>5, <1>6, <1>7

(* A driver holds a request from its receipt to its answer, or for ever once it
   is killed.                                                                *)
AtWork == {"board", "entrance", "seating", "answer"}

RequestsAreHeld ==
    \A b \in Bus : /\ dpc[b] \in AtWork => request[b].pid \in Passengers
                   /\ request[b].pid \in Passengers => dpc[b] \in AtWork \cup Gone

LEMMA RequestsHeldStep ==
    ASSUME TypeOK, RequestsAreHeld, [Next]_vars PROVE RequestsAreHeld'
<1> USE BoardingTypes DEF RequestsAreHeld, AtWork, Gone
<1>1. ASSUME NEW b \in Bus, Drive(b) PROVE RequestsAreHeld'
  <2> USE DEF DriverAt
  <2>1. CASE Recv(b)
    <3>1. /\ dpc' = [dpc EXCEPT ![b] = "board"]
          /\ \E t \in BoardingType : /\ boarding_queue[t] # <<>>
                /\ request' = [request EXCEPT ![b] = Head(boarding_queue[t])]
      BY <2>1 DEF Recv, RecvType
    <3>2. \E x \in BoardingRequest : request' = [request EXCEPT ![b] = x]
      BY <3>1, QueueParts
    <3>3. \A x \in BoardingRequest : x.pid \in Passengers
      BY DEF BoardingRequest
    <3> QED
      BY <3>1, <3>2, <3>3
  <2>2. CASE Deny(b) \/ Answer(b)
    <3>1. /\ request' = [request EXCEPT ![b] = NoRequest]
          /\ \E to \in {"postcheck", "check"} : dpc' = [dpc EXCEPT ![b] = to]
      BY <2>2 DEF Deny, Answer, AfterRequest
    <3>2. NoRequest.pid \notin Passengers
      BY ProfilesAssumption DEF NoRequest
    <3> QED
      BY <3>1, <3>2
  <2>3. CASE Grant(b) \/ EntranceLock(b) \/ TakeSeats(b)
    BY <2>3 DEF Grant, EntranceLock, TakeSeats
  <2>4. CASE ~(Recv(b) \/ Deny(b) \/ Answer(b) \/ Grant(b) \/ EntranceLock(b) \/ TakeSeats(b))
    <3>1. /\ UNCHANGED request /\ dpc[b] \notin AtWork \cup Gone
          /\ \E to \in DriverPC \ AtWork : dpc' = [dpc EXCEPT ![b] = to]
      BY <1>1, <2>4 DEF Drive, DriverStep, DriverStart, CheckShutdown, Role, RecvRemoved,
         Check, StayAt, Switch, Depart, Return, DriverExit, DriverPC
    <3> QED
      BY <3>1
  <2> QED
    BY <2>1, <2>2, <2>3, <2>4
<1>2. CASE Elsewhere
  BY <1>2 DEF Elsewhere
<1> QED
  BY <1>1, <1>2, DriverOrElsewhere

-----------------------------------------------------------------------------
(* A step of a passenger or a driver moves the queued requests, the drivers and
   the responses of one passenger p by dq, dh and dr, and nobody else's.     *)
RequestsMove(p, dq, dh, dr) ==
    \A r \in Passengers :
        /\ Queued(boarding_queue', r) = Queued(boarding_queue, r) + IF r = p THEN dq ELSE 0
        /\ Held(request', r) = Held(request, r) + IF r = p THEN dh ELSE 0
        /\ Len(boarding_resp'[r]) = Len(boarding_resp[r]) + IF r = p THEN dr ELSE 0

(* Requests stand in the queue of their type.                                  *)
QueuedByType ==
    ipc_exists => \A t \in BoardingType : \A i \in 1 .. Len(boarding_queue[t]) :
        MTypeOf(boarding_queue[t][i].pid) = t

(* The steps that neither send nor receive requests or responses.              *)
RequestsRest ==
    \/ ~ipc_exists'
    \/ /\ ipc_exists
       /\ UNCHANGED <<boarding_queue, boarding_resp, request>>
       /\ \A p \in Passengers : ppc'[p] = "board_wait" <=> ppc[p] = "board_wait"

AtTheQueue(p) == RequestBoarding(p) \/ ReceiveBoarding(p)
AtTheDoor(b) == Recv(b) \/ Deny(b) \/ Answer(b)

LEMMA OthersLeaveRequests ==
    ASSUME TypeOK, [Next]_vars
    PROVE  \/ \E p \in Passengers : Travel(p) /\ AtTheQueue(p)
           \/ \E b \in Bus : Drive(b) /\ AtTheDoor(b)
           \/ RequestsRest
<1> USE BoardingTypes DEF RequestsRest
<1>1. ASSUME NEW p \in Passengers, Travel(p), ~AtTheQueue(p) PROVE RequestsRest
  <2>1. CASE TicketRemoved(p) \/ BoardingRemoved(p)
    BY <2>1 DEF TicketRemoved, BoardingRemoved
  <2>2. CASE ~(TicketRemoved(p) \/ BoardingRemoved(p))
    <3>1. UNCHANGED <<ipc_exists, boarding_queue, boarding_resp, request>>
      BY <1>1, <2>2 DEF AtTheQueue, Travel, PassengerStep, Arrive, Register, JoinOffice,
         RequestTicket, ReceiveTicket, ClosedCheck, FindClosed, FindOpen, EnterStation,
         EntryRefused, EntryFails, BoardLoop, FindBus, Leave, StopWaiting, Join
    <3>2. \E from, to \in PassengerPC \ {"board_wait"} : PassengerAt(p, from, to)
      BY <1>1, <2>2 DEF AtTheQueue, Travel, PassengerStep, Arrive, Register, JoinOffice,
         RequestTicket, ReceiveTicket, ClosedCheck, FindClosed, FindOpen, EnterStation,
         EntryRefused, EntryFails, BoardLoop, FindBus, Leave, StopWaiting, Join,
         PassengerPC, PassengerAt
    <3> QED
      BY <3>1, <3>2 DEF PassengerAt
  <2> QED
    BY <2>1, <2>2
<1>2. ASSUME NEW b \in Bus, Drive(b), ~AtTheDoor(b) PROVE RequestsRest
  <2>1. UNCHANGED <<ipc_exists, boarding_queue, boarding_resp, request, ppc>>
    BY <1>2 DEF AtTheDoor, Drive, DriverStep, DriverStart, CheckShutdown, Role,
       RecvRemoved, Grant, EntranceLock, TakeSeats, Check, Switch, Depart, Return,
       DriverExit
  <2> QED
    BY <2>1
<1>3. ASSUME NEW o \in Office, Sell(o) PROVE RequestsRest
  <2>1. UNCHANGED <<ipc_exists, boarding_queue, boarding_resp, request, ppc>>
    BY <1>3 DEF Sell, OfficeStep, OfficeCheck, TakeRequest, QueueRemoved, IssueTicket,
       DrainOne, DrainDone
  <2> QED
    BY <2>1
<1>4. CASE Dispatch
  <2>1. /\ ipc_exists' => ipc_exists
        /\ UNCHANGED <<boarding_queue, boarding_resp, request, ppc>>
    BY <1>4 DEF Dispatch, DispatcherStep, StopLoop, ForwardEarly, CloseStation,
       NothingToClose, WakeBlocked, CheckDriverHealth, FindOverdue, ForceDeparture,
       OverseerDone, CheckSimulationEnd, Shutdown, CleanUp
  <2> QED
    BY <2>1
<1>8. CASE Interrupt \/ TerminateChildren
  <2>1. EndedEarly
    BY <1>8, SignalsEndEarly
  <2>2. UNCHANGED <<ipc_exists, boarding_queue, boarding_resp, request>>
    BY <1>8 DEF TerminateChildren, Interrupt, DriverTerm, PassengerTerm, OfficeTerm,
       MainTerm
  <2> QED
    BY <2>1, <2>2 DEF EndedEarly
<1>5. CASE MainStep
  <2>1. ASSUME NEW p \in Passengers, SpawnPassenger(p) PROVE RequestsRest
    BY <2>1 DEF SpawnPassenger, PassengerAt
  <2>2. CASE KillChildren
    BY <2>2 DEF KillChildren
  <2>3. CASE StopSpawning \/ SeeStop \/ Monitor \/ StopDispatcher
    BY <2>3 DEF StopSpawning, SeeStop, Monitor, StopDispatcher
  <2> QED
    BY <1>5, <1>8, <2>1, <2>2, <2>3 DEF MainStep
<1>6. CASE (\E b \in Bus : TimePasses(b)) \/ UserSignal \/ Kill
  BY <1>6 DEF TimePasses, UserSignal, Kill, DispatcherUsr1, DispatcherUsr2,
     DispatcherTerm, DriverKill
<1>7. CASE UNCHANGED vars
  BY <1>7 DEF vars
<1> QED
  BY <1>1, <1>2, <1>3, <1>4, <1>5, <1>6, <1>7, <1>8 DEF Next, Manage

LEMMA ResponseSent ==
    ASSUME TypeOK, ipc_exists, NEW p \in Passengers, NEW x, NEW r \in Passengers
    PROVE  Len(Sent(boarding_resp, p, x)[r]) = Len(boarding_resp[r]) + IF r = p THEN 1 ELSE 0
<1>1. Len(Append(boarding_resp[p], x)) = Len(boarding_resp[p]) + 1
  BY BoardingTypes
<1> QED
  BY <1>1, BoardingTypes DEF Sent

LEMMA RequestBoardingMoves ==
    ASSUME TypeOK, NEW p \in Passengers, RequestBoarding(p), UNCHANGED request
    PROVE  RequestsMove(p, 1, 0, 0)
<1> DEFINE x == [pid |-> p, has_ticket |-> has_ticket[p]]
<1>1. /\ boarding_queue' = [boarding_queue EXCEPT ![MTypeOf(p)] = Append(@, x)]
      /\ UNCHANGED boarding_resp
  BY DEF RequestBoarding
<1>2. x \in BoardingRequest /\ \A r : x \in Asking(r) <=> r = p
  BY DEF TypeOK, PassengerTypeOK, BoardingRequest, Asking
<1>3. ASSUME NEW r \in Passengers
      PROVE  Queued(boarding_queue', r) = Queued(boarding_queue, r) + IF r = p THEN 1 ELSE 0
  <2>1. MTypeOf(r) \in BoardingType /\ boarding_queue[MTypeOf(r)] \in Seq(BoardingRequest)
    BY BoardingTypes, MTypes
  <2>2. CASE MTypeOf(r) = MTypeOf(p)
    <3>1. boarding_queue'[MTypeOf(r)] = Append(boarding_queue[MTypeOf(r)], x)
      BY <1>1, <2>1, <2>2, BoardingTypes
    <3> HIDE DEF x
    <3> QED
      BY <1>2, <2>1, <3>1, PlacesSent DEF Queued
  <2>3. CASE MTypeOf(r) # MTypeOf(p)
    <3>1. boarding_queue'[MTypeOf(r)] = boarding_queue[MTypeOf(r)] /\ r # p
      BY <1>1, <2>1, <2>3, BoardingTypes
    <3> QED
      BY <3>1, BoardingCounts DEF Queued
  <2> QED
    BY <2>2, <2>3
<1>4. \A r \in Passengers :
        /\ Held(request', r) = Held(request, r) + IF r = p THEN 0 ELSE 0
        /\ Len(boarding_resp'[r]) = Len(boarding_resp[r]) + IF r = p THEN 0 ELSE 0
  BY <1>1, BoardingCounts
<1> QED
  BY <1>3, <1>4 DEF RequestsMove

LEMMA ReceiveBoardingMoves ==
    ASSUME TypeOK, NEW p \in Passengers, ReceiveBoarding(p), UNCHANGED request
    PROVE  RequestsMove(p, 0, 0, -1)
<1>1. /\ UNCHANGED boarding_queue /\ boarding_resp[p] # <<>>
      /\ boarding_resp' = [boarding_resp EXCEPT ![p] = Tail(@)]
  BY DEF ReceiveBoarding
<1>2. Len(Tail(boarding_resp[p])) = Len(boarding_resp[p]) - 1
  BY <1>1, BoardingTypes, HeadTailProperties
<1>3. \A r \in Passengers :
        Len(boarding_resp'[r]) = Len(boarding_resp[r]) + IF r = p THEN -1 ELSE 0
  BY <1>1, <1>2, BoardingTypes
<1>4. \A r \in Passengers :
        /\ Queued(boarding_queue', r) = Queued(boarding_queue, r) + IF r = p THEN 0 ELSE 0
        /\ Held(request', r) = Held(request, r) + IF r = p THEN 0 ELSE 0
  BY <1>1, BoardingCounts
<1> QED
  BY <1>3, <1>4 DEF RequestsMove

LEMMA RecvMoves ==
    ASSUME TypeOK, RequestsAreHeld, QueuedByType, NEW b \in Bus, Recv(b)
    PROVE  \E p \in Passengers : /\ request' = [request EXCEPT ![b] = request'[b]]
                                 /\ request'[b].pid = p
                                 /\ RequestsMove(p, -1, 1, 0)
<1>1. PICK t \in BoardingType :
        /\ ipc_exists /\ boarding_queue[t] # <<>>
        /\ request' = [request EXCEPT ![b] = Head(boarding_queue[t])]
        /\ boarding_queue' = [boarding_queue EXCEPT ![t] = Tail(@)]
  BY DEF Recv, RecvType
<1>2. UNCHANGED boarding_resp /\ dpc[b] = "recv"
  BY DEF Recv, DriverAt
<1>3. request[b].pid \notin Passengers
  BY <1>2 DEF RequestsAreHeld, AtWork, Gone
<1>4. boarding_queue[t] \in Seq(BoardingRequest)
  BY BoardingTypes
<1>5. PICK x \in BoardingRequest : x = Head(boarding_queue[t])
  BY <1>1, <1>4, QueueParts
<1>6. MTypeOf(x.pid) = t /\ x.pid \in Passengers
  <2>1. 1 \in 1 .. Len(boarding_queue[t]) /\ boarding_queue[t][1] = x
    BY <1>1, <1>4, <1>5
  <2>2. x.pid \in Passengers
    BY DEF BoardingRequest
  <2> QED
    BY <1>1, <2>1, <2>2 DEF QueuedByType
<1>7. ASSUME NEW r \in Passengers
      PROVE  Queued(boarding_queue', r)
               = Queued(boarding_queue, r) + IF r = x.pid THEN -1 ELSE 0
  <2>1. MTypeOf(r) \in BoardingType
    BY MTypes
  <2>2. CASE MTypeOf(r) = t
    <3>1. boarding_queue'[MTypeOf(r)] = Tail(boarding_queue[t])
      BY <1>1, <2>1, <2>2, BoardingTypes
    <3>2. x \in Asking(r) <=> r = x.pid
      BY DEF BoardingRequest, Asking
    <3>3. Cardinality(Places(boarding_queue[t], Asking(r)))
            = Cardinality(Places(Tail(boarding_queue[t]), Asking(r)))
                + IF x \in Asking(r) THEN 1 ELSE 0
      BY <1>1, <1>4, <1>5, PlacesReceived
    <3>4. Cardinality(Places(Tail(boarding_queue[t]), Asking(r))) \in Nat
      BY <1>1, <1>4, QueueParts, PlacesType
    <3> QED
      BY <2>2, <3>1, <3>2, <3>3, <3>4 DEF Queued
  <2>3. CASE MTypeOf(r) # t
    <3>1. boarding_queue'[MTypeOf(r)] = boarding_queue[MTypeOf(r)] /\ r # x.pid
      BY <1>1, <1>6, <2>1, <2>3, BoardingTypes
    <3> QED
      BY <3>1, BoardingCounts DEF Queued
  <2> QED
    BY <2>2, <2>3
<1>8. ASSUME NEW r \in Passengers
      PROVE  Held(request', r) = Held(request, r) + IF r = x.pid THEN 1 ELSE 0
  <2>1. request' = [request EXCEPT ![b] = x] /\ request \in [Bus -> BoardingRequest \cup {NoRequest}]
    BY <1>1, <1>5, BoardingTypes
  <2> QED
    BY <1>3, <2>1, HeldChange
<1>9. \A r \in Passengers :
        Len(boarding_resp'[r]) = Len(boarding_resp[r]) + IF r = x.pid THEN 0 ELSE 0
  BY <1>2, BoardingCounts
<1>10. RequestsMove(x.pid, -1, 1, 0)
  BY <1>7, <1>8, <1>9 DEF RequestsMove
<1>11. request'[b] = x /\ request' = [request EXCEPT ![b] = x]
  BY <1>1, <1>5, BoardingTypes
<1> QED
  BY <1>6, <1>10, <1>11

LEMMA AnswerMoves ==
    ASSUME TypeOK, RequestsAreHeld, ipc_exists, NEW b \in Bus, Deny(b) \/ Answer(b)
    PROVE  \E p \in Passengers : p = request[b].pid /\ RequestsMove(p, 0, -1, 1)
<1>1. /\ dpc[b] \in AtWork /\ UNCHANGED boarding_queue
      /\ request' = [request EXCEPT ![b] = NoRequest]
      /\ \E ok \in BOOLEAN :
            boarding_resp' = Sent(boarding_resp, request[b].pid, Response(b, ok))
  BY DEF Deny, Answer, DriverAt, AtWork
<1>2. request[b].pid \in Passengers /\ request[b] \in BoardingRequest
  <2>1. NoRequest.pid \notin Passengers
    BY ProfilesAssumption DEF NoRequest
  <2>2. request[b] \in BoardingRequest \cup {NoRequest}
    BY BoardingTypes
  <2> QED
    BY <1>1, <2>1, <2>2 DEF RequestsAreHeld
<1>3. PICK p \in Passengers, ok \in BOOLEAN :
        p = request[b].pid /\ boarding_resp' = Sent(boarding_resp, p, Response(b, ok))
  BY <1>1, <1>2
<1>4. ASSUME NEW r \in Passengers
      PROVE  Held(request', r) = Held(request, r) + IF r = p THEN -1 ELSE 0
  BY <1>1, <1>2, <1>3, BoardingTypes, HeldChange
<1>5. ASSUME NEW r \in Passengers
      PROVE  Len(boarding_resp'[r]) = Len(boarding_resp[r]) + IF r = p THEN 1 ELSE 0
  BY <1>3, ResponseSent
<1>6. \A r \in Passengers :
        Queued(boarding_queue', r) = Queued(boarding_queue, r) + IF r = p THEN 0 ELSE 0
  BY <1>1, BoardingCounts
<1>7. RequestsMove(p, 0, -1, 1)
  BY <1>4, <1>5, <1>6 DEF RequestsMove
<1> QED
  BY <1>3, <1>7

(* Requests are sent to the queue of their type and leave it in their order.   *)
LEMMA QueuedByTypeStep ==
    ASSUME TypeOK, QueuedByType, [Next]_vars PROVE QueuedByType'
<1>1. CASE ~ipc_exists'
  BY <1>1 DEF QueuedByType
<1>2. CASE RequestsRest /\ ipc_exists'
  BY <1>2 DEF RequestsRest, QueuedByType
<1>3. ASSUME NEW p \in Passengers, Travel(p), AtTheQueue(p) PROVE QueuedByType'
  <2>1. CASE ReceiveBoarding(p)
    BY <2>1 DEF ReceiveBoarding, QueuedByType
  <2>2. CASE RequestBoarding(p)
    <3> DEFINE x == [pid |-> p, has_ticket |-> has_ticket[p]]
               q == boarding_queue[MTypeOf(p)]
    <3>1. /\ ipc_exists
          /\ boarding_queue' = [boarding_queue EXCEPT ![MTypeOf(p)] = Append(@, x)]
      BY <2>2 DEF RequestBoarding, CanLock
    <3>2. q \in Seq(BoardingRequest) /\ x \in BoardingRequest /\ x.pid = p
      BY BoardingTypes, MTypes DEF TypeOK, PassengerTypeOK, BoardingRequest
    <3> HIDE DEF x
    <3>3. /\ \A i \in 1 .. Len(Append(q, x)) : i \in 1 .. Len(q) \/ i = Len(q) + 1
          /\ \A i \in 1 .. Len(q) : Append(q, x)[i] = q[i]
          /\ Append(q, x)[Len(q) + 1] = x
      BY <3>2
    <3>4. ASSUME NEW i \in 1 .. Len(Append(q, x)) PROVE MTypeOf(Append(q, x)[i].pid) = MTypeOf(p)
      BY <3>1, <3>2, <3>3, MTypes DEF QueuedByType
    <3> HIDE DEF q
    <3>5. ASSUME NEW t \in BoardingType, NEW i \in 1 .. Len(boarding_queue'[t])
          PROVE  MTypeOf(boarding_queue'[t][i].pid) = t
      <4>1. CASE t = MTypeOf(p)
        <5>1. boarding_queue'[t] = Append(q, x)
          BY <3>1, <4>1, BoardingTypes, MTypes DEF q
        <5> QED
          BY <3>4, <4>1, <5>1
      <4>2. CASE t # MTypeOf(p)
        <5>1. boarding_queue'[t] = boarding_queue[t]
          BY <3>1, <4>2, BoardingTypes
        <5> QED
          BY <3>1, <5>1 DEF QueuedByType
      <4> QED
        BY <4>1, <4>2
    <3> QED
      BY <3>5 DEF QueuedByType
  <2> QED
    BY <1>3, <2>1, <2>2 DEF AtTheQueue
<1>4. ASSUME NEW b \in Bus, Drive(b), AtTheDoor(b), ipc_exists' PROVE QueuedByType'
  <2>0. ipc_exists
    BY <1>4 DEF AtTheDoor, Recv, Deny, Answer
  <2>1. CASE Deny(b) \/ Answer(b)
    BY <2>0, <2>1 DEF Deny, Answer, QueuedByType
  <2>2. CASE Recv(b)
    <3>1. PICK t \in BoardingType :
            /\ boarding_queue[t] # <<>>
            /\ boarding_queue' = [boarding_queue EXCEPT ![t] = Tail(@)]
      BY <2>2 DEF Recv, RecvType
    <3>2. boarding_queue[t] \in Seq(BoardingRequest)
      BY BoardingTypes
    <3>3. /\ \A i \in 1 .. Len(Tail(boarding_queue[t])) :
               /\ i + 1 \in 1 .. Len(boarding_queue[t])
               /\ Tail(boarding_queue[t])[i] = boarding_queue[t][i + 1]
      BY <3>1, <3>2, HeadTailProperties
    <3>4. ASSUME NEW u \in BoardingType, NEW i \in 1 .. Len(boarding_queue'[u])
          PROVE  MTypeOf(boarding_queue'[u][i].pid) = u
      <4>1. CASE u = t
        <5>1. boarding_queue'[u] = Tail(boarding_queue[t])
          BY <3>1, <4>1, BoardingTypes
        <5> QED
          BY <2>0, <3>3, <4>1, <5>1 DEF QueuedByType
      <4>2. CASE u # t
        <5>1. boarding_queue'[u] = boarding_queue[u]
          BY <3>1, <4>2, BoardingTypes
        <5> QED
          BY <2>0, <5>1 DEF QueuedByType
      <4> QED
        BY <4>1, <4>2
    <3> QED
      BY <3>4 DEF QueuedByType
  <2> QED
    BY <1>4, <2>1, <2>2 DEF AtTheDoor
<1> QED
  BY <1>1, <1>2, <1>3, <1>4, OthersLeaveRequests

(* A move that changes an answer only together with its passenger's wait keeps
   AnsweredOrLost.                                                           *)
LEMMA RequestsCounted ==
    ASSUME TypeOK
    PROVE  AnsweredOrLost <=>
             (ipc_exists => \A p \in Passengers :
                Queued(boarding_queue, p) + Held(request, p) + Len(boarding_resp[p])
                  = IF ppc[p] = "board_wait" THEN 1 ELSE 0)
  BY BoardingCounts DEF AnsweredOrLost

LEMMA RequestsKept ==
    ASSUME TypeOK, TypeOK', AnsweredOrLost, ipc_exists,
           NEW p \in Passengers, NEW dq \in Int, NEW dh \in Int, NEW dr \in Int,
           RequestsMove(p, dq, dh, dr),
           \A r \in Passengers \ {p} : ppc'[r] = ppc[r],
           (IF ppc'[p] = "board_wait" THEN 1 ELSE 0)
             = (IF ppc[p] = "board_wait" THEN 1 ELSE 0) + dq + dh + dr
    PROVE  AnsweredOrLost'
<1>1. ASSUME NEW r \in Passengers
      PROVE  Queued(boarding_queue', r) + Held(request', r) + Len(boarding_resp'[r])
               = IF ppc'[r] = "board_wait" THEN 1 ELSE 0
  <2>1. Queued(boarding_queue, r) + Held(request, r) + Len(boarding_resp[r])
          = IF ppc[r] = "board_wait" THEN 1 ELSE 0
    BY RequestsCounted
  <2>2. /\ Queued(boarding_queue, r) \in Nat /\ Held(request, r) \in Nat
        /\ Len(boarding_resp[r]) \in Nat
    BY BoardingCounts
  <2>3. /\ Queued(boarding_queue', r) = Queued(boarding_queue, r) + IF r = p THEN dq ELSE 0
        /\ Held(request', r) = Held(request, r) + IF r = p THEN dh ELSE 0
        /\ Len(boarding_resp'[r]) = Len(boarding_resp[r]) + IF r = p THEN dr ELSE 0
    BY Zenon DEF RequestsMove
  <2>4. CASE r = p
    BY <2>1, <2>4, <2>2, <2>3
  <2>5. CASE r # p
    <3>1. ppc'[r] = ppc[r]
      BY <2>5
    <3> QED
      BY <2>1, <2>5, <2>2, <2>3, <3>1
  <2> QED
    BY <2>4, <2>5
<1>2. \A r \in Passengers : /\ Queued(boarding_queue', r) = InBoardingQueue(r)'
                            /\ Held(request', r) = InAnyHands(r)'
  <2> TAKE r \in Passengers
  <2>1. boarding_queue'[MTypeOf(r)] \in Seq(BoardingRequest)
    BY MTypes DEF TypeOK, ShmTypeOK
  <2>2. \A x \in BoardingRequest : x \in Asking(r) <=> x.pid = r
    BY DEF BoardingRequest, Asking
  <2>3. Places(boarding_queue'[MTypeOf(r)], Asking(r))
          = {i \in 1 .. Len(boarding_queue'[MTypeOf(r)]) :
                boarding_queue'[MTypeOf(r)][i].pid = r}
    BY <2>1, <2>2 DEF Places
  <2> QED
    BY <2>3 DEF Queued, Held, InBoardingQueue, InAnyHands
<1> QED
  BY <1>1, <1>2 DEF AnsweredOrLost

LEMMA AnsweredStep ==
    ASSUME TypeOK, TypeOK', AnsweredOrLost, RequestsAreHeld, QueuedByType, [Next]_vars
    PROVE  AnsweredOrLost'
<1>1. CASE ~ipc_exists'
  BY <1>1 DEF AnsweredOrLost
<1>2. CASE RequestsRest /\ ipc_exists'
  <2>1. /\ ipc_exists
        /\ UNCHANGED <<boarding_queue, boarding_resp, request>>
        /\ \A p \in Passengers : ppc'[p] = "board_wait" <=> ppc[p] = "board_wait"
    BY <1>2, Zenon DEF RequestsRest
  <2>2. \A p \in Passengers : /\ InBoardingQueue(p)' = InBoardingQueue(p)
                              /\ InAnyHands(p)' = InAnyHands(p)
    BY <2>1, Zenon DEF InBoardingQueue, InAnyHands
  <2> QED
    BY <2>1, <2>2, Zenon DEF AnsweredOrLost
<1>3. ASSUME NEW p \in Passengers, Travel(p), AtTheQueue(p) PROVE AnsweredOrLost'
  <2>1. UNCHANGED request
    BY <1>3 DEF Travel
  <2>2. CASE RequestBoarding(p)
    <3>1. /\ ipc_exists /\ ppc[p] = "board_slot"
          /\ ppc' = [ppc EXCEPT ![p] = "board_wait"]
      BY <2>2 DEF RequestBoarding, PassengerAt, CanLock
    <3>2. RequestsMove(p, 1, 0, 0)
      BY <2>1, <2>2, RequestBoardingMoves
    <3> QED
      BY <3>1, <3>2, BoardingTypes, RequestsKept
  <2>3. CASE ReceiveBoarding(p)
    <3>1. /\ ipc_exists /\ ppc[p] = "board_wait"
          /\ \E to \in {"join", "board_loop"} : ppc' = [ppc EXCEPT ![p] = to]
      BY <2>3 DEF ReceiveBoarding, PassengerAt
    <3>2. RequestsMove(p, 0, 0, -1)
      BY <2>1, <2>3, ReceiveBoardingMoves
    <3> QED
      BY <3>1, <3>2, BoardingTypes, RequestsKept
  <2> QED
    BY <1>3, <2>2, <2>3 DEF AtTheQueue
<1>4. ASSUME NEW b \in Bus, Drive(b), AtTheDoor(b), ipc_exists' PROVE AnsweredOrLost'
  <2>1. ipc_exists /\ UNCHANGED ppc
    BY <1>4 DEF Drive, AtTheDoor, Recv, Deny, Answer
  <2>2. CASE Recv(b)
    <3>1. PICK p \in Passengers : RequestsMove(p, -1, 1, 0)
      BY <2>2, RecvMoves
    <3> QED
      BY <2>1, <3>1, RequestsKept
  <2>3. CASE Deny(b) \/ Answer(b)
    <3>1. PICK p \in Passengers : RequestsMove(p, 0, -1, 1)
      BY <2>1, <2>3, AnswerMoves
    <3> QED
      BY <2>1, <3>1, RequestsKept
  <2> QED
    BY <1>4, <2>2, <2>3 DEF AtTheDoor
<1> QED
  BY <1>1, <1>2, <1>3, <1>4, OthersLeaveRequests

LEMMA BoardingInit ==
    ASSUME Init PROVE AnsweredOrLost /\ RequestsAreHeld /\ QueuedByType
<1>1. /\ boarding_queue = [t \in BoardingType |-> <<>>]
      /\ request = [b \in Bus |-> NoRequest] /\ dpc = [b \in Bus |-> "start"]
      /\ boarding_resp = [p \in Passengers |-> <<>>]
      /\ ppc = [p \in Passengers |-> "unborn"]
  BY DEF Init, ShmInit, FreshIpc, DriverInit, OthersInit, PassengerInit
<1>2. NoRequest.pid \notin Passengers
  BY ProfilesAssumption DEF NoRequest
<1>3. ASSUME NEW p \in Passengers
      PROVE  InBoardingQueue(p) + InAnyHands(p) + Len(boarding_resp[p])
               = IF ppc[p] = "board_wait" THEN 1 ELSE 0
  <2>1. /\ {i \in 1 .. Len(boarding_queue[MTypeOf(p)]) :
               boarding_queue[MTypeOf(p)][i].pid = p} = {}
        /\ {b \in Bus : request[b].pid = p} = {}
    BY <1>1, <1>2, MTypes
  <2>2. InBoardingQueue(p) = 0 /\ InAnyHands(p) = 0
    BY <2>1, FS_EmptySet, Zenon DEF InBoardingQueue, InAnyHands
  <2>3. Len(boarding_resp[p]) = 0 /\ ppc[p] # "board_wait"
    BY <1>1
  <2> QED
    BY <2>2, <2>3
<1>4. AnsweredOrLost
  BY <1>3, Zenon DEF AnsweredOrLost
<1> QED
  BY <1>1, <1>2, <1>4 DEF RequestsAreHeld, QueuedByType, AtWork

(* AnsweredOrLost: under every signal and kill a passenger that waits for the
   answer to its boarding request has the request in the queue, in the hands
   of one driver, dead or alive, or one response, and never two of them.     *)
THEOREM AnsweredTheorem == Spec => [](AnsweredOrLost /\ RequestsAreHeld /\ QueuedByType)
<1>1. Init => AnsweredOrLost /\ RequestsAreHeld /\ QueuedByType
  BY BoardingInit
<1>2. TypeOK /\ TypeOK' /\ AnsweredOrLost /\ RequestsAreHeld /\ QueuedByType /\ [Next]_vars
        => (AnsweredOrLost /\ RequestsAreHeld /\ QueuedByType)'
  BY AnsweredStep, RequestsHeldStep, QueuedByTypeStep
<1> QED
  BY <1>1, <1>2, SpecTyped, PTL DEF Spec

(* Without kills a driver that is gone has answered its last request.          *)
GoneHoldNothing ==
    ipc_exists => \A b \in Bus : dpc[b] \in Gone => request[b].pid \notin Passengers

LEMMA GoneHoldNothingStep ==
    ASSUME "kill" \notin Events, TypeOK, RequestsAreHeld, GoneHoldNothing, [Next]_vars
    PROVE  GoneHoldNothing'
<1> USE BoardingTypes DEF GoneHoldNothing, Gone
<1>1. ASSUME NEW b \in Bus, Drive(b) PROVE GoneHoldNothing'
  <2>1. UNCHANGED ipc_exists
    BY <1>1 DEF Drive, DriverStep, DriverStart, CheckShutdown, Role, Recv, RecvRemoved,
       Grant, Deny, EntranceLock, TakeSeats, Answer, Check, Switch, Depart, Return,
       DriverExit
  <2>2. CASE DriverExit(b)
    <3>1. /\ dpc[b] = "exit" /\ dpc' = [dpc EXCEPT ![b] = "gone"] /\ UNCHANGED request
      BY <2>2 DEF DriverExit, DriverAt
    <3>2. request[b].pid \notin Passengers
      BY <3>1 DEF RequestsAreHeld, AtWork
    <3> QED
      BY <2>1, <3>1, <3>2
  <2>3. CASE ~DriverExit(b)
    <3>1. \E to \in DriverPC \ Gone : dpc' = [dpc EXCEPT ![b] = to]
      BY <1>1, <2>3 DEF Drive, DriverStep, DriverStart, CheckShutdown, Role, Recv,
         RecvRemoved, Grant, Deny, AfterRequest, EntranceLock, TakeSeats, Answer, Check,
         StayAt, Switch, Depart, Return, DriverAt, DriverPC
    <3>2. \E r : request' = [request EXCEPT ![b] = r]
      <4>1. CASE Recv(b) \/ Deny(b) \/ Answer(b)
        BY <4>1 DEF Recv, Deny, Answer
      <4>2. CASE ~(Recv(b) \/ Deny(b) \/ Answer(b))
        <5>1. UNCHANGED request
          BY <1>1, <4>2 DEF Drive, DriverStep, DriverStart, CheckShutdown, Role,
             RecvRemoved, Grant, EntranceLock, TakeSeats, Check, Switch, Depart, Return,
             DriverExit
        <5>2. request' = [request EXCEPT ![b] = request[b]]
          BY <5>1
        <5> QED
          BY <5>2
      <4> QED
        BY <4>1, <4>2
    <3> QED
      BY <2>1, <3>1, <3>2
  <2> QED
    BY <2>2, <2>3
<1>2. ASSUME NEW p \in Passengers, Travel(p) PROVE UNCHANGED <<dpc, request, ipc_exists>>
  BY <1>2 DEF Travel, PassengerStep, Arrive, Register, JoinOffice, RequestTicket,
     ReceiveTicket, TicketRemoved, ClosedCheck, FindClosed, FindOpen, EnterStation,
     EntryRefused, EntryFails, BoardLoop, FindBus, RequestBoarding, ReceiveBoarding,
     BoardingRemoved, Leave, StopWaiting, Join
<1>3. ASSUME NEW o \in Office, Sell(o) PROVE UNCHANGED <<dpc, request, ipc_exists>>
  BY <1>3 DEF Sell, OfficeStep, OfficeCheck, TakeRequest, QueueRemoved, IssueTicket,
     DrainOne, DrainDone
<1>4. ASSUME Dispatch PROVE UNCHANGED <<dpc, request>> /\ (ipc_exists' => ipc_exists)
  BY <1>4 DEF Dispatch, DispatcherStep, StopLoop, ForwardEarly, CloseStation,
     NothingToClose, WakeBlocked, CheckDriverHealth, FindOverdue, ForceDeparture,
     OverseerDone, CheckSimulationEnd, Shutdown, CleanUp
<1>5. CASE Interrupt \/ TerminateChildren
  <2>1. EndedEarly
    BY <1>5, SignalsEndEarly
  <2>2. UNCHANGED <<request, ipc_exists>>
    BY <1>5 DEF TerminateChildren, Interrupt, DriverTerm, PassengerTerm, OfficeTerm,
       MainTerm
  <2> QED
    BY <2>1, <2>2 DEF EndedEarly, RequestsAreHeld, AtWork
<1>6. ASSUME (\E b \in Bus : TimePasses(b)) \/ UserSignal
      PROVE  UNCHANGED <<dpc, request, ipc_exists>>
  BY <1>6 DEF TimePasses, UserSignal, DispatcherUsr1, DispatcherUsr2, DispatcherTerm
<1>7. ~Kill
  BY DEF Kill
<1>8. ASSUME UNCHANGED <<dpc, request>>, ipc_exists' => ipc_exists PROVE GoneHoldNothing'
  BY <1>8
<1>9. CASE MainStep
  <2>1. CASE ~TerminateChildren
    <3>1. \/ ~ipc_exists'
          \/ /\ UNCHANGED <<request, ipc_exists>>
             /\ \A b \in Bus : dpc'[b] \in Gone => dpc[b] \in Gone
      BY <1>9, <2>1 DEF MainStep, SpawnPassenger, StopSpawning, SeeStop, Monitor,
         StopDispatcher, KillChildren, Reaped
    <3> QED
      BY <3>1
  <2> QED
    BY <1>5, <2>1
<1>10. CASE UNCHANGED vars
  BY <1>10 DEF vars
<1> QED
  BY <1>1, <1>2, <1>3, <1>4, <1>5, <1>6, <1>7, <1>8, <1>9, <1>10 DEF Next, Manage

LEMMA GoneHoldNothingInvariant ==
    ASSUME "kill" \notin Events PROVE Spec => []GoneHoldNothing
<1>1. Init => GoneHoldNothing
  BY ProfilesAssumption DEF Init, DriverInit, GoneHoldNothing, Gone
<1>2. TypeOK /\ RequestsAreHeld /\ GoneHoldNothing /\ [Next]_vars => GoneHoldNothing'
  BY GoneHoldNothingStep
<1> QED
  BY <1>1, <1>2, SpecTyped, AnsweredTheorem, PTL DEF Spec

(* OneAnswerPerRequest: as long as no driver is killed no request of a
   passenger is lost, and none is answered twice.                            *)
THEOREM OneAnswerTheorem ==
    ASSUME "kill" \notin Events PROVE Spec => []OneAnswerPerRequest
<1>1. AnsweredOrLost /\ GoneHoldNothing => OneAnswerPerRequest
  <2> SUFFICES ASSUME AnsweredOrLost, GoneHoldNothing, ipc_exists, NEW p \in Passengers
               PROVE  InBoardingQueue(p) + InDriversHands(p) + Len(boarding_resp[p])
                        = IF ppc[p] = "board_wait" THEN 1 ELSE 0
    BY Zenon DEF OneAnswerPerRequest
  <2>1. {b \in Bus : request[b].pid = p /\ dpc[b] \notin Gone} = {b \in Bus : request[b].pid = p}
    BY DEF GoneHoldNothing
  <2>2. InDriversHands(p) = InAnyHands(p)
    BY <2>1, Zenon DEF InDriversHands, InAnyHands
  <2> QED
    BY <2>2, Zenon DEF AnsweredOrLost
<1> QED
  BY <1>1, GoneHoldNothingInvariant, AnsweredTheorem, PTL
=============================================================================
